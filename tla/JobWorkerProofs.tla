-------------------------- MODULE JobWorkerProofs --------------------------
(***************************************************************************)
(* Proofs about JobWorker for every MaxJobsActive, PollQueueCapacity,      *)
(* Concurrency and every set of task identities.                           *)
(***************************************************************************)
EXTENDS JobWorker, SequenceTheorems, TLAPS

-----------------------------------------------------------------------------
(***************************************************************************)
(* How poll_queue changes when a message is sent or received.              *)
(***************************************************************************)

(* A sent message takes the place behind all others and moves none. *)
LEMMA AppendQueued ==
  ASSUME poll_queue \in Seq(PollMessage), NEW m \in PollMessage,
         poll_queue' = Append(poll_queue, m)
  PROVE  /\ poll_queue' \in Seq(PollMessage)
         /\ Len(poll_queue') = Len(poll_queue) + 1
         /\ DOMAIN poll_queue' = DOMAIN poll_queue \cup {Len(poll_queue) + 1}
         /\ \A i \in DOMAIN poll_queue :
              /\ poll_queue'[i] = poll_queue[i]
              /\ i \in Nat /\ i < Len(poll_queue) + 1
         /\ poll_queue'[Len(poll_queue) + 1] = m
         /\ \A kind : Queued(kind)' =
              IF m.kind = kind THEN Queued(kind) \cup {Len(poll_queue) + 1}
                               ELSE Queued(kind)
<1>1. /\ poll_queue' \in Seq(PollMessage)
      /\ Len(poll_queue') = Len(poll_queue) + 1
      /\ \A i \in 1..Len(poll_queue) : poll_queue'[i] = poll_queue[i]
      /\ poll_queue'[Len(poll_queue) + 1] = m
  BY AppendProperties
<1>2. /\ DOMAIN poll_queue = 1..Len(poll_queue)
      /\ DOMAIN poll_queue' = 1..Len(poll_queue')
      /\ Len(poll_queue) \in Nat
  BY <1>1, LenProperties
<1>3. DOMAIN poll_queue' = DOMAIN poll_queue \cup {Len(poll_queue) + 1}
  BY <1>1, <1>2
<1>4. \A i \in DOMAIN poll_queue :
        poll_queue'[i] = poll_queue[i] /\ i \in Nat /\ i < Len(poll_queue) + 1
  BY <1>1, <1>2
<1>5. ASSUME NEW kind
      PROVE  Queued(kind)' =
               IF m.kind = kind THEN Queued(kind) \cup {Len(poll_queue) + 1}
                                ELSE Queued(kind)
  <2>1. Queued(kind)' = {i \in DOMAIN poll_queue' : poll_queue'[i].kind = kind}
    BY DEF Queued
  <2>2. QED
    BY <2>1, <1>1, <1>3, <1>4 DEF Queued
<1>6. QED
  BY <1>1, <1>3, <1>4, <1>5

(* A received message was the first; the others move up by one place. *)
LEMMA TailQueued ==
  ASSUME poll_queue \in Seq(PollMessage), poll_queue # << >>,
         poll_queue' = Tail(poll_queue)
  PROVE  /\ poll_queue' \in Seq(PollMessage)
         /\ Len(poll_queue') = Len(poll_queue) - 1
         /\ 1 \in DOMAIN poll_queue
         /\ Head(poll_queue) = poll_queue[1]
         /\ \A i \in DOMAIN poll_queue' :
              /\ i \in Nat
              /\ i + 1 \in DOMAIN poll_queue
              /\ poll_queue'[i] = poll_queue[i + 1]
         /\ \A i \in DOMAIN poll_queue :
              /\ i \in Nat
              /\ i # 1 => i - 1 \in DOMAIN poll_queue'
         /\ \A kind :
              /\ \A i \in Queued(kind)' : i + 1 \in Queued(kind)
              /\ \A i \in Queued(kind) : i # 1 => i - 1 \in Queued(kind)'
<1>1. /\ Len(poll_queue) \in Nat \ {0}
      /\ Head(poll_queue) = poll_queue[1]
      /\ poll_queue' \in Seq(PollMessage)
      /\ Len(poll_queue') = Len(poll_queue) - 1
      /\ \A i \in 1..Len(poll_queue') : poll_queue'[i] = poll_queue[i + 1]
  BY HeadTailProperties, LenProperties, EmptySeq
<1>2. DOMAIN poll_queue = 1..Len(poll_queue) /\ DOMAIN poll_queue' = 1..Len(poll_queue')
  BY <1>1, LenProperties
<1>3. /\ \A i \in DOMAIN poll_queue' :
           i \in Nat /\ i + 1 \in DOMAIN poll_queue /\ poll_queue'[i] = poll_queue[i + 1]
      /\ \A i \in DOMAIN poll_queue :
           i \in Nat /\ (i # 1 => i - 1 \in DOMAIN poll_queue')
  BY <1>1, <1>2
<1>4. ASSUME NEW kind
      PROVE  /\ \A i \in Queued(kind)' : i + 1 \in Queued(kind)
             /\ \A i \in Queued(kind) : i # 1 => i - 1 \in Queued(kind)'
  <2>1. Queued(kind)' = {i \in DOMAIN poll_queue' : poll_queue'[i].kind = kind}
    BY DEF Queued
  <2>2. \A i \in Queued(kind)' : i + 1 \in Queued(kind)
    BY <2>1, <1>3 DEF Queued
  <2>3. ASSUME NEW i \in Queued(kind), i # 1
        PROVE  i - 1 \in Queued(kind)'
    <3>1. i \in Nat /\ i - 1 \in DOMAIN poll_queue' /\ poll_queue[i].kind = kind
      BY <2>3, <1>3 DEF Queued
    <3>2. poll_queue'[i - 1] = poll_queue[(i - 1) + 1] /\ (i - 1) + 1 = i
      BY <3>1, <1>3
    <3>3. QED
      BY <2>1, <3>1, <3>2
  <2>4. QED
    BY <2>2, <2>3
<1>5. QED
  BY <1>1, <1>2, <1>3, <1>4

-----------------------------------------------------------------------------
(***************************************************************************)
(* Type correctness.                                                       *)
(***************************************************************************)

(* What should_activate_jobs establishes: the poller can ask for a job.    *)
LEMMA ThresholdBelowMax == Threshold \in Nat /\ Threshold < MaxJobsActive
BY ChannelAssumption DEF Threshold

(* A step of the poller keeps the type of what it touches.                 *)
LEMMA PollKeepsTypes ==
  ASSUME TypeOK, Poll, UNCHANGED dispatcherVars
  PROVE  TypeOK'
<1>1. DispatcherTypeOK'
  BY DEF TypeOK, DispatcherTypeOK, dispatcherVars
<1>2. CASE FetchJobs
  <2>1. PICK t \in Task :
          task' = [task EXCEPT ![t] = At("calling", MaxJobsActive - remaining, 0, 0)]
    BY <1>2 DEF FetchJobs, activate_jobs
  <2>2. MaxJobsActive - remaining \in 1..MaxJobsActive
    BY <1>2, ThresholdBelowMax, ChannelAssumption
    DEF FetchJobs, should_activate_jobs, TypeOK, PollerTypeOK
  <2>3. /\ At("calling", MaxJobsActive - remaining, 0, 0) \in TaskState
        /\ RequestInRange(At("calling", MaxJobsActive - remaining, 0, 0))
    BY <2>2, ChannelAssumption DEF At, TaskState, RequestInRange, Awaiting
  <2>4. /\ task' \in [Task -> TaskState]
        /\ \A u \in Task : RequestInRange(task'[u])
    BY <2>1, <2>3 DEF TypeOK, PollerTypeOK
  <2>5. PollerTypeOK'
    BY <1>2, <2>4 DEF FetchJobs, TypeOK, PollerTypeOK
  <2>6. ChannelsTypeOK'
    BY <1>2 DEF FetchJobs, TypeOK, ChannelsTypeOK
  <2>7. QED
    BY <1>1, <2>5, <2>6 DEF TypeOK
<1>3. CASE IgnoreFetchJobs
  BY <1>1, <1>3 DEF IgnoreFetchJobs, pollerVars, TypeOK, PollerTypeOK, ChannelsTypeOK
<1>4. CASE ReceiveMessage
  <2>1. /\ poll_queue # << >>
        /\ poll_queue' = Tail(poll_queue)
        /\ job_queue' = job_queue
        /\ dropped' = dropped
        /\ task' = task
    BY <1>4 DEF ReceiveMessage, ReceiveJobsArrived, ReceiveJobFinished,
                ReceiveFetchJobsComplete, Receive
  <2>2. /\ poll_queue' \in Seq(PollMessage)
        /\ Len(poll_queue') = Len(poll_queue) - 1
        /\ Head(poll_queue) \in PollMessage
    BY <2>1, HeadTailProperties, LenProperties DEF TypeOK, ChannelsTypeOK
  <2>3. Len(poll_queue') <= PollQueueCapacity
    BY <2>2, LenProperties, ChannelAssumption DEF TypeOK, ChannelsTypeOK
  <2>4. remaining' \in Nat
    <3>1. Head(poll_queue).count \in Nat /\ remaining \in Nat
      BY <2>2 DEF PollMessage, TypeOK, PollerTypeOK
    <3>2. \/ remaining' = remaining + Head(poll_queue).count
          \/ remaining' = IF remaining = 0 THEN 0 ELSE remaining - 1
          \/ remaining' = remaining
      BY <1>4 DEF ReceiveMessage, ReceiveJobsArrived, ReceiveJobFinished,
                  ReceiveFetchJobsComplete
    <3>3. QED
      BY <3>1, <3>2
  <2>5. request_in_progress' \in BOOLEAN
    BY <1>4 DEF ReceiveMessage, ReceiveJobsArrived, ReceiveJobFinished,
                ReceiveFetchJobsComplete, TypeOK, PollerTypeOK
  <2>6. ChannelsTypeOK'
    BY <2>1, <2>2, <2>3 DEF TypeOK, ChannelsTypeOK
  <2>7. PollerTypeOK'
    BY <2>1, <2>4, <2>5 DEF TypeOK, PollerTypeOK
  <2>8. QED
    BY <1>1, <2>6, <2>7 DEF TypeOK
<1>5. QED
  BY <1>2, <1>3, <1>4 DEF Poll

(* A message that is sent keeps the type of the queue.                     *)
LEMMA SendKeepsTypes ==
  ASSUME ChannelsTypeOK, NEW m \in PollMessage, SendMessage(m)
  PROVE  poll_queue' \in Seq(PollMessage) /\ Len(poll_queue') <= PollQueueCapacity
<1>1. CASE ~dropped
  <2>1. poll_queue' = Append(poll_queue, m) /\ Len(poll_queue) < PollQueueCapacity
    BY <1>1 DEF SendMessage
  <2>2. /\ poll_queue' \in Seq(PollMessage)
        /\ Len(poll_queue') = Len(poll_queue) + 1
        /\ Len(poll_queue) \in Nat
    BY <2>1, AppendProperties, LenProperties DEF ChannelsTypeOK
  <2>3. QED
    BY <2>1, <2>2, ChannelAssumption
<1>2. CASE dropped
  BY <1>2 DEF SendMessage, ChannelsTypeOK
<1>3. QED
  BY <1>1, <1>2

(* A task that moves from one state of its type to another keeps PollerTypeOK. *)
LEMMA TaskMoves ==
  ASSUME PollerTypeOK, NEW t \in Task, NEW s \in TaskState, RequestInRange(s),
         task' = [task EXCEPT ![t] = s], taskUnchanged
  PROVE  PollerTypeOK'
<1>1. task' \in [Task -> TaskState] /\ \A u \in Task : RequestInRange(task'[u])
  BY DEF PollerTypeOK
<1>2. QED
  BY <1>1 DEF PollerTypeOK, taskUnchanged

(* A step of an activation task keeps the type of what it touches.         *)
LEMMA TaskKeepsTypes ==
  ASSUME TypeOK, NEW t \in Task, TaskStep(t), UNCHANGED dispatcherVars
  PROVE  TypeOK'
<1> DEFINE s == task[t]
<1>1. /\ DispatcherTypeOK'
      /\ taskUnchanged
  BY DEF TypeOK, DispatcherTypeOK, dispatcherVars, TaskStep, CallSucceeds, CallFails,
         BatchArrives, SendJob, StreamEnds, Announce, TimeOut, Complete
<1>2. /\ s.pc \in {"idle", "completing"} \cup Awaiting
      /\ s.requested \in 0..MaxJobsActive
      /\ s.total \in 0..MaxJobsActive
      /\ s.batch \in 0..MaxJobsActive
      /\ RequestInRange(s)
  BY DEF TypeOK, PollerTypeOK, TaskState
<1>3. ASSUME NEW pc \in {"idle", "completing"}
      PROVE  At(pc, 0, 0, 0) \in TaskState /\ RequestInRange(At(pc, 0, 0, 0))
  BY ChannelAssumption DEF At, TaskState, RequestInRange, Awaiting
<1>4. ChannelsTypeOK /\ PollerTypeOK
  BY DEF TypeOK
<1>5. CASE CallSucceeds(t)
  <2>1. /\ At("streaming", s.requested, 0, 0) \in TaskState
        /\ RequestInRange(At("streaming", s.requested, 0, 0))
    BY <1>2, <1>5, ChannelAssumption
    DEF At, TaskState, RequestInRange, Awaiting, CallSucceeds
  <2>2. PollerTypeOK'
    BY <1>1, <1>4, <1>5, <2>1, TaskMoves DEF CallSucceeds
  <2>3. QED
    BY <1>1, <1>4, <1>5, <2>2 DEF CallSucceeds, TypeOK, ChannelsTypeOK, taskUnchanged
<1>6. CASE CallFails(t)
  <2>1. PollerTypeOK'
    BY <1>1, <1>3, <1>4, <1>6, TaskMoves DEF CallFails, Completing
  <2>2. QED
    BY <1>1, <1>4, <1>6, <2>1 DEF CallFails, TypeOK, ChannelsTypeOK, taskUnchanged
<1>7. CASE BatchArrives(t)
  <2>1. PICK n \in 1..(s.requested - s.total) :
          task' = [task EXCEPT ![t] = At("sending", s.requested, s.total + n, n)]
    BY <1>4, <1>7 DEF BatchArrives, PollerTypeOK
  <2>2. /\ s.pc = "streaming"
        /\ s.requested \in Nat /\ s.total \in Nat /\ n \in Nat /\ n > 0
        /\ s.total + n <= s.requested
        /\ s.requested <= MaxJobsActive
    BY <1>2, <1>7, ChannelAssumption DEF BatchArrives
  <2>3. /\ At("sending", s.requested, s.total + n, n) \in TaskState
        /\ RequestInRange(At("sending", s.requested, s.total + n, n))
    BY <2>2, ChannelAssumption DEF At, TaskState, RequestInRange, Awaiting
  <2>4. PollerTypeOK'
    BY <1>1, <1>4, <2>1, <2>3, TaskMoves
  <2>5. QED
    BY <1>1, <1>4, <1>7, <2>4 DEF BatchArrives, TypeOK, ChannelsTypeOK, taskUnchanged
<1>8. CASE SendJob(t)
  <2>1. /\ s.pc = "sending"
        /\ task' = [task EXCEPT ![t] =
             IF s.batch = 1 THEN At("streaming", s.requested, s.total, 0)
                            ELSE At("sending", s.requested, s.total, s.batch - 1)]
    BY <1>4, <1>8 DEF SendJob, PollerTypeOK
  <2>2. /\ 0 < s.requested /\ s.total <= s.requested
        /\ s.batch <= s.total /\ s.batch > 0
    BY <1>2, <2>1 DEF RequestInRange, Awaiting
  <2>3. ASSUME s.batch = 1 PROVE PollerTypeOK'
    <3>1. /\ At("streaming", s.requested, s.total, 0) \in TaskState
          /\ RequestInRange(At("streaming", s.requested, s.total, 0))
      BY <1>2, <2>2, ChannelAssumption DEF At, TaskState, RequestInRange, Awaiting
    <3>2. QED
      BY <1>1, <1>4, <2>1, <2>3, <3>1, TaskMoves
  <2>4. ASSUME s.batch # 1 PROVE PollerTypeOK'
    <3>1. /\ s.batch - 1 \in 0..MaxJobsActive
          /\ s.batch - 1 > 0
          /\ s.batch - 1 <= s.total
      BY <1>2, <2>2, <2>4, ChannelAssumption
    <3>2. /\ At("sending", s.requested, s.total, s.batch - 1) \in TaskState
          /\ RequestInRange(At("sending", s.requested, s.total, s.batch - 1))
      BY <1>2, <2>2, <3>1 DEF At, TaskState, RequestInRange, Awaiting
    <3>3. QED
      BY <1>1, <1>4, <2>1, <2>4, <3>2, TaskMoves
  <2>5. PollerTypeOK'
    BY <2>3, <2>4
  <2>6. job_queue' \in 0..MaxJobsActive
    BY <1>4, <1>8, ChannelAssumption DEF SendJob, SendToDispatcher, ChannelsTypeOK
  <2>7. QED
    BY <1>1, <1>4, <1>8, <2>5, <2>6 DEF SendJob, TypeOK, ChannelsTypeOK, taskUnchanged
<1>9. CASE StreamEnds(t)
  <2>1. /\ At("announcing", s.requested, s.total, 0) \in TaskState
        /\ RequestInRange(At("announcing", s.requested, s.total, 0))
    BY <1>2, <1>9, ChannelAssumption
    DEF At, TaskState, RequestInRange, Awaiting, StreamEnds
  <2>2. PollerTypeOK'
    BY <1>1, <1>4, <1>9, <2>1, TaskMoves DEF StreamEnds, PollerTypeOK
  <2>3. QED
    BY <1>1, <1>4, <1>9, <2>2 DEF StreamEnds, TypeOK, ChannelsTypeOK, taskUnchanged
<1>10. CASE Announce(t)
  <2>1. JobsArrived(s.total) \in PollMessage
    BY <1>2 DEF JobsArrived, PollMessage
  <2>2. poll_queue' \in Seq(PollMessage) /\ Len(poll_queue') <= PollQueueCapacity
    BY <1>4, <1>10, <2>1, SendKeepsTypes DEF Announce
  <2>3. PollerTypeOK'
    BY <1>1, <1>3, <1>4, <1>10, TaskMoves DEF Announce, Completing
  <2>4. QED
    BY <1>1, <1>4, <1>10, <2>2, <2>3 DEF Announce, TypeOK, ChannelsTypeOK, taskUnchanged
<1>11. CASE TimeOut(t)
  <2>1. PollerTypeOK'
    BY <1>1, <1>3, <1>4, <1>11, TaskMoves DEF TimeOut, Completing
  <2>2. QED
    BY <1>1, <1>4, <1>11, <2>1 DEF TimeOut, TypeOK, ChannelsTypeOK, taskUnchanged
<1>12. CASE Complete(t)
  <2>1. FetchJobsComplete \in PollMessage
    BY DEF FetchJobsComplete, PollMessage
  <2>2. poll_queue' \in Seq(PollMessage) /\ Len(poll_queue') <= PollQueueCapacity
    BY <1>4, <1>12, <2>1, SendKeepsTypes DEF Complete
  <2>3. PollerTypeOK'
    BY <1>1, <1>3, <1>4, <1>12, TaskMoves DEF Complete, Idle
  <2>4. QED
    BY <1>1, <1>4, <1>12, <2>2, <2>3 DEF Complete, TypeOK, ChannelsTypeOK, taskUnchanged
<1>13. QED
  BY <1>5, <1>6, <1>7, <1>8, <1>9, <1>10, <1>11, <1>12 DEF TaskStep

(* A step of the dispatcher keeps the type of what it touches.             *)
LEMMA DispatcherKeepsTypes ==
  ASSUME TypeOK, DispatcherStep, UNCHANGED pollerVars
  PROVE  TypeOK'
<1>1. PollerTypeOK' /\ dropped' \in BOOLEAN
  BY DEF TypeOK, PollerTypeOK, ChannelsTypeOK, pollerVars, DispatcherStep, Dispatch,
         HandlerReturns, ReportJobFinished
<1>2. CASE Dispatch
  <2>1. job_queue' \in 0..MaxJobsActive /\ poll_queue' = poll_queue
    BY <1>2, ChannelAssumption DEF Dispatch, TypeOK, ChannelsTypeOK
  <2>2. DispatcherTypeOK'
    BY <1>2, ConcurrencyAssumption DEF Dispatch, HasFreePlace, TypeOK, DispatcherTypeOK
  <2>3. QED
    BY <1>1, <2>1, <2>2 DEF TypeOK, ChannelsTypeOK
<1>3. CASE HandlerReturns
  <2>1. DispatcherTypeOK'
    BY <1>3, ConcurrencyAssumption DEF HandlerReturns, TypeOK, DispatcherTypeOK
  <2>2. QED
    BY <1>1, <1>3, <2>1 DEF HandlerReturns, TypeOK, ChannelsTypeOK
<1>4. CASE ReportJobFinished
  <2>1. JobFinished \in PollMessage
    BY DEF JobFinished, PollMessage
  <2>2. poll_queue' \in Seq(PollMessage) /\ Len(poll_queue') <= PollQueueCapacity
    BY <1>4, <2>1, SendKeepsTypes DEF ReportJobFinished, TypeOK
  <2>3. DispatcherTypeOK'
    BY <1>4, ConcurrencyAssumption DEF ReportJobFinished, TypeOK, DispatcherTypeOK
  <2>4. QED
    BY <1>1, <1>4, <2>2, <2>3 DEF ReportJobFinished, TypeOK, ChannelsTypeOK
<1>5. QED
  BY <1>2, <1>3, <1>4 DEF DispatcherStep

(* Dropping the worker empties everything but the tasks.                   *)
LEMMA DropKeepsTypes == ASSUME TypeOK, Drop PROVE TypeOK'
<1>1. PollerTypeOK'
  BY DEF TypeOK, PollerTypeOK, Drop, pollerVars
<1>2. ChannelsTypeOK'
  <2>1. << >> \in Seq(PollMessage) /\ Len(<< >>) = 0
    BY EmptySeq
  <2>2. QED
    BY <2>1, ChannelAssumption DEF ChannelsTypeOK, Drop
<1>3. DispatcherTypeOK'
  BY ConcurrencyAssumption DEF DispatcherTypeOK, Drop
<1>4. QED
  BY <1>1, <1>2, <1>3 DEF TypeOK

(* The worker starts well typed.                                           *)
LEMMA InitTypes == Init => TypeOK
<1> SUFFICES ASSUME Init PROVE TypeOK
  OBVIOUS
<1>1. ChannelsTypeOK
  <2>1. << >> \in Seq(PollMessage) /\ Len(<< >>) = 0
    BY EmptySeq
  <2>2. job_queue = 0 /\ poll_queue = << >> /\ dropped \in BOOLEAN
    BY DEF Init, ChannelsInit
  <2>3. QED
    BY <2>1, <2>2, ChannelAssumption DEF ChannelsTypeOK
<1>2. PollerTypeOK
  <2>1. Idle \in TaskState /\ RequestInRange(Idle)
    BY ChannelAssumption DEF Idle, At, TaskState, RequestInRange, Awaiting
  <2>2. QED
    BY <2>1 DEF Init, PollerInit, PollerTypeOK
<1>3. DispatcherTypeOK
  BY ConcurrencyAssumption DEF Init, DispatcherInit, DispatcherTypeOK
<1>4. QED
  BY <1>1, <1>2, <1>3 DEF TypeOK

(* Every step of the worker keeps the types.                               *)
LEMMA StepKeepsTypes == TypeOK /\ [Next]_vars => TypeOK'
<1> SUFFICES ASSUME TypeOK, [Next]_vars PROVE TypeOK'
  OBVIOUS
<1>1. CASE Next
  BY <1>1, PollKeepsTypes, TaskKeepsTypes, DispatcherKeepsTypes, DropKeepsTypes DEF Next
<1>2. CASE UNCHANGED vars
  BY <1>2 DEF vars, TypeOK, ChannelsTypeOK, PollerTypeOK, DispatcherTypeOK
<1>3. QED
  BY <1>1, <1>2

(* Type correctness of the whole worker: the queues stay within their      *)
(* capacities, at most Concurrency futures run, and every request asks for *)
(* 1 to MaxJobsActive jobs, so that the subtraction in activate_jobs never *)
(* underflows.                                                             *)
THEOREM TypeCorrect == Spec => []TypeOK
<1>1. QED
  BY InitTypes, StepKeepsTypes, PTL DEF Spec

-----------------------------------------------------------------------------
(***************************************************************************)
(* The request cycle.                                                      *)
(***************************************************************************)

(* A message can only be in a queue that is not empty.                     *)
LEMMA EmptyQueue == poll_queue = << >> => \A kind : Queued(kind) = {}
BY DEF Queued

(* Taking the first message moves a lone message of a kind up by one, or   *)
(* removes it if it was the first.                                         *)
LEMMA TailQueuedSingle ==
  ASSUME poll_queue \in Seq(PollMessage), poll_queue # << >>,
         poll_queue' = Tail(poll_queue), NEW kind
  PROVE  /\ Queued(kind) = {} => Queued(kind)' = {}
         /\ Queued(kind) = {1} => Queued(kind)' = {}
         /\ \A i \in Queued(kind) :
              Queued(kind) = {i} /\ i # 1 => Queued(kind)' = {i - 1}
         /\ \A i \in Queued(kind)' : poll_queue'[i] = poll_queue[i + 1]
<1>1. /\ \A i \in Queued(kind)' : i \in Nat /\ i + 1 \in Queued(kind)
                                  /\ poll_queue'[i] = poll_queue[i + 1]
                                  /\ i # 0
      /\ \A i \in Queued(kind) : i \in Nat /\ (i # 1 => i - 1 \in Queued(kind)')
  <2>1. /\ \A i \in Queued(kind)' : i + 1 \in Queued(kind)
        /\ \A i \in Queued(kind) : i # 1 => i - 1 \in Queued(kind)'
    BY TailQueued
  <2>2. /\ Queued(kind) \subseteq DOMAIN poll_queue
        /\ Queued(kind)' \subseteq DOMAIN poll_queue'
    BY DEF Queued
  <2>3. /\ \A i \in DOMAIN poll_queue' :
             i \in Nat /\ poll_queue'[i] = poll_queue[i + 1]
        /\ \A i \in DOMAIN poll_queue : i \in Nat
        /\ poll_queue' \in Seq(PollMessage)
    BY TailQueued
  <2>4. \A i \in DOMAIN poll_queue' : i # 0
    BY <2>3, LenProperties
  <2>5. QED
    BY <2>1, <2>2, <2>3, <2>4
<1>2. Queued(kind) = {} => Queued(kind)' = {}
  BY <1>1
<1>3. Queued(kind) = {1} => Queued(kind)' = {}
  <2>1. SUFFICES ASSUME Queued(kind) = {1}, NEW i \in Queued(kind)' PROVE FALSE
    BY Zenon
  <2>2. i + 1 = 1 /\ i \in Nat /\ i # 0
    BY <1>1, <2>1
  <2>3. QED
    BY <2>2
<1>4. ASSUME NEW i \in Queued(kind), Queued(kind) = {i}, i # 1
      PROVE  Queued(kind)' = {i - 1}
  <2>1. i \in Nat /\ i - 1 \in Queued(kind)'
    BY <1>1, <1>4
  <2>2. ASSUME NEW j \in Queued(kind)' PROVE j = i - 1
    <3>1. j \in Nat /\ j + 1 = i
      BY <1>1, <1>4
    <3>2. QED
      BY <3>1, <2>1
  <2>3. QED
    BY <2>1, <2>2
<1>5. QED
  BY <1>1, <1>2, <1>3, <1>4

(* The live tasks after one task has moved.                                *)
LEMMA LiveAfterMove ==
  ASSUME task \in [Task -> TaskState], NEW t \in Task, NEW s,
         task' = [task EXCEPT ![t] = s]
  PROVE  /\ task'[t] = s
         /\ \A u \in Task : u # t => task'[u] = task[u]
         /\ s.pc # "idle" => LiveTasks' = LiveTasks \cup {t}
         /\ s.pc = "idle" => LiveTasks' = LiveTasks \ {t}
<1>1. task'[t] = s /\ \A u \in Task : u # t => task'[u] = task[u]
  OBVIOUS
<1>2. LiveTasks' = {u \in Task : task'[u].pc # "idle"}
  BY DEF LiveTasks
<1>3. QED
  BY <1>1, <1>2 DEF LiveTasks

(* What FlagTracksRequest says while a task is live.                       *)
LEMMA LiveMeansInProgress ==
  ASSUME IndInv, ~dropped, NEW t \in LiveTasks
  PROVE  /\ request_in_progress
         /\ LiveTasks = {t}
         /\ Queued("FetchJobsComplete") = {}
<1>1. LiveTasks # {}
  OBVIOUS
<1>2. request_in_progress
  BY <1>1 DEF IndInv, RequestInv, FlagTracksRequest
<1>3. \E u \in Task : LiveTasks = {u} /\ Queued("FetchJobsComplete") = {}
  BY <1>1, <1>2 DEF IndInv, RequestInv, FlagTracksRequest
<1>4. QED
  BY <1>2, <1>3

(* A step of a task that stays in its async block changes nothing that the *)
(* poller can see.                                                         *)
LEMMA TaskAdvances ==
  ASSUME IndInv, NEW t \in Task, NEW s \in TaskState,
         task[t].pc \in Awaiting, s.pc \in Awaiting,
         s.requested = task[t].requested,
         task' = [task EXCEPT ![t] = s],
         UNCHANGED poll_queue, taskUnchanged
  PROVE  RequestInv'
<1>1. /\ task'[t] = s
      /\ \A u \in Task : u # t => task'[u] = task[u]
      /\ LiveTasks' = LiveTasks
  BY LiveAfterMove DEF IndInv, TypeOK, PollerTypeOK, Awaiting, LiveTasks
<1>2. \A kind : Queued(kind)' = Queued(kind)
  BY DEF Queued
<1>3. OneRequestAtATime'
  BY <1>1 DEF IndInv, RequestInv, OneRequestAtATime
<1>4. FlagTracksRequest'
  BY <1>1, <1>2 DEF IndInv, RequestInv, FlagTracksRequest, taskUnchanged
<1>5. ArrivalPrecedesCompletion'
  <2>1. \A u \in Task : task[u].pc = "completing" => task'[u].pc = "completing"
    BY <1>1 DEF Awaiting
  <2>2. QED
    BY <1>2, <2>1 DEF IndInv, RequestInv, ArrivalPrecedesCompletion
<1>6. BudgetRespected'
  <2>1. \A u \in Task : task'[u].pc \in Awaiting =>
           task[u].pc \in Awaiting /\ task'[u].requested = task[u].requested
    BY <1>1
  <2>2. QED
    BY <1>2, <2>1 DEF IndInv, RequestInv, BudgetRespected, taskUnchanged
<1>7. QED
  BY <1>3, <1>4, <1>5, <1>6 DEF IndInv, RequestInv, taskUnchanged

(* So is the end of the async block, as long as it announces nothing.      *)
LEMMA TaskGivesUp ==
  ASSUME IndInv, NEW t \in Task, task[t].pc \in Awaiting,
         task' = [task EXCEPT ![t] = Completing],
         UNCHANGED poll_queue, taskUnchanged
  PROVE  RequestInv'
<1>1. Completing.pc = "completing"
  BY DEF Completing, At
<1>2. /\ task'[t] = Completing
      /\ \A u \in Task : u # t => task'[u] = task[u]
      /\ LiveTasks' = LiveTasks
  BY <1>1, LiveAfterMove DEF IndInv, TypeOK, PollerTypeOK, Awaiting, LiveTasks
<1>3. \A kind : Queued(kind)' = Queued(kind)
  BY DEF Queued
<1>4. OneRequestAtATime'
  BY <1>2 DEF IndInv, RequestInv, OneRequestAtATime
<1>5. FlagTracksRequest'
  BY <1>2, <1>3 DEF IndInv, RequestInv, FlagTracksRequest, taskUnchanged
<1>6. ArrivalPrecedesCompletion'
  <2>1. \A u \in Task : task[u].pc = "completing" => task'[u].pc = "completing"
    BY <1>1, <1>2
  <2>2. QED
    BY <1>3, <2>1 DEF IndInv, RequestInv, ArrivalPrecedesCompletion
<1>7. BudgetRespected'
  <2>1. \A u \in Task : task'[u].pc \in Awaiting =>
           task[u].pc \in Awaiting /\ task'[u].requested = task[u].requested
    BY <1>1, <1>2 DEF Awaiting
  <2>2. QED
    BY <1>3, <2>1 DEF IndInv, RequestInv, BudgetRespected, taskUnchanged
<1>8. QED
  BY <1>4, <1>5, <1>6, <1>7 DEF IndInv, RequestInv, taskUnchanged

(* Once the worker is dropped, tasks only end.                             *)
LEMMA DroppedTasksEnd ==
  ASSUME IndInv, dropped, taskUnchanged, UNCHANGED poll_queue,
         LiveTasks' \subseteq LiveTasks
  PROVE  RequestInv'
<1>1. poll_queue = << >> /\ poll_queue' = << >> /\ dropped'
  BY DEF IndInv, RequestInv, taskUnchanged
<1>2. \A kind : Queued(kind)' = {}
  BY <1>1 DEF Queued
<1>3. OneRequestAtATime'
  BY DEF IndInv, RequestInv, OneRequestAtATime
<1>4. FlagTracksRequest' /\ BudgetRespected'
  BY <1>1 DEF FlagTracksRequest, BudgetRespected
<1>5. ArrivalPrecedesCompletion'
  BY <1>2 DEF ArrivalPrecedesCompletion
<1>6. QED
  BY <1>1, <1>3, <1>4, <1>5 DEF RequestInv

(* Announce: the JobsArrived it sends is the only one, and it fits the     *)
(* budget because the task received no more than it asked for.             *)
LEMMA AnnounceKeepsInv ==
  ASSUME IndInv, ~dropped, NEW t \in Task, Announce(t)
  PROVE  RequestInv'
<1> DEFINE n == Len(poll_queue) + 1
           m == JobsArrived(task[t].total)
<1>1. /\ task[t].pc = "announcing"
      /\ poll_queue' = Append(poll_queue, m)
      /\ task' = [task EXCEPT ![t] = Completing]
      /\ UNCHANGED <<dropped, remaining, request_in_progress>>
  BY DEF Announce, SendMessage, taskUnchanged
<1>2. /\ task[t].total \in Nat
      /\ task[t].requested \in Nat
      /\ task[t].total <= task[t].requested
      /\ remaining \in Nat
      /\ remaining + task[t].requested <= MaxJobsActive
  <2>1. task[t] \in TaskState /\ RequestInRange(task[t]) /\ remaining \in Nat
    BY DEF IndInv, TypeOK, PollerTypeOK
  <2>2. task[t].total \in Nat /\ task[t].requested \in Nat
    BY <2>1, ChannelAssumption DEF TaskState
  <2>3. task[t].total <= task[t].requested
    BY <1>1, <2>1 DEF RequestInRange, Awaiting
  <2>4. remaining + task[t].requested <= MaxJobsActive
    BY <1>1 DEF IndInv, RequestInv, BudgetRespected, Awaiting
  <2>5. QED
    BY <2>1, <2>2, <2>3, <2>4
<1>3. m \in PollMessage /\ m.kind = "JobsArrived" /\ m.count = task[t].total
  BY <1>2 DEF JobsArrived, PollMessage
<1>4. /\ request_in_progress
      /\ LiveTasks = {t}
      /\ Queued("FetchJobsComplete") = {}
  <2>1. t \in LiveTasks
    BY <1>1 DEF LiveTasks
  <2>2. QED
    BY <2>1, LiveMeansInProgress
<1>5. Queued("JobsArrived") = {}
  <2>1. SUFFICES ASSUME NEW i \in Queued("JobsArrived") PROVE FALSE
    OBVIOUS
  <2>2. PICK u \in Task : task[u].pc = "completing"
    BY <1>4 DEF IndInv, RequestInv, ArrivalPrecedesCompletion
  <2>3. u \in LiveTasks
    BY <2>2 DEF LiveTasks
  <2>4. QED
    BY <1>1, <1>4, <2>2, <2>3
<1>6. /\ Queued("JobsArrived")' = {n}
      /\ Queued("FetchJobsComplete")' = {}
      /\ poll_queue'[n] = m
  <2>1. poll_queue \in Seq(PollMessage)
    BY DEF IndInv, TypeOK, ChannelsTypeOK
  <2>2. /\ poll_queue'[n] = m
        /\ \A kind : Queued(kind)' =
             IF m.kind = kind THEN Queued(kind) \cup {n} ELSE Queued(kind)
    BY <1>1, <1>3, <2>1, AppendQueued
  <2>3. Queued("JobsArrived")' = Queued("JobsArrived") \cup {n}
    BY <1>3, <2>2
  <2>4. Queued("FetchJobsComplete")' = Queued("FetchJobsComplete")
    BY <1>3, <2>2
  <2>5. QED
    BY <1>4, <1>5, <2>2, <2>3, <2>4
<1>7. /\ task'[t].pc = "completing"
      /\ LiveTasks' = {t}
      /\ \A u \in Task : task'[u].pc \notin Awaiting
  <2>1. Completing.pc = "completing"
    BY DEF Completing, At
  <2>2. /\ task'[t] = Completing
        /\ \A u \in Task : u # t => task'[u] = task[u]
        /\ LiveTasks' = {t}
    BY <1>1, <1>4, <2>1, LiveAfterMove DEF IndInv, TypeOK, PollerTypeOK
  <2>3. \A u \in Task : u # t => task'[u].pc = "idle"
    BY <1>4, <2>2 DEF LiveTasks
  <2>4. QED
    BY <2>1, <2>2, <2>3 DEF Awaiting
<1>8. OneRequestAtATime'
  BY <1>7 DEF OneRequestAtATime
<1>9. FlagTracksRequest'
  BY <1>1, <1>4, <1>6, <1>7 DEF FlagTracksRequest
<1>10. ArrivalPrecedesCompletion'
  BY <1>6, <1>7 DEF ArrivalPrecedesCompletion
<1>11. BudgetRespected'
  <2>1. remaining' + m.count <= MaxJobsActive /\ remaining' <= MaxJobsActive
    BY <1>1, <1>2, <1>3, ChannelAssumption
  <2>2. QED
    BY <1>6, <1>7, <2>1 DEF BudgetRespected
<1>12. QED
  BY <1>1, <1>8, <1>9, <1>10, <1>11 DEF RequestInv

(* Complete: FetchJobsComplete goes behind the JobsArrived of its request. *)
LEMMA CompleteKeepsInv ==
  ASSUME IndInv, ~dropped, NEW t \in Task, Complete(t)
  PROVE  RequestInv'
<1> DEFINE n == Len(poll_queue) + 1
<1>1. /\ task[t].pc = "completing"
      /\ poll_queue' = Append(poll_queue, FetchJobsComplete)
      /\ task' = [task EXCEPT ![t] = Idle]
      /\ UNCHANGED <<dropped, remaining, request_in_progress>>
  BY DEF Complete, SendMessage, taskUnchanged
<1>2. /\ request_in_progress
      /\ LiveTasks = {t}
      /\ Queued("FetchJobsComplete") = {}
  <2>1. t \in LiveTasks
    BY <1>1 DEF LiveTasks
  <2>2. QED
    BY <2>1, LiveMeansInProgress
<1>3. /\ Queued("FetchJobsComplete")' = {n}
      /\ Queued("JobsArrived")' = Queued("JobsArrived")
      /\ n \in DOMAIN poll_queue'
      /\ \A i \in Queued("JobsArrived") : i < n /\ poll_queue'[i] = poll_queue[i]
  <2>1. poll_queue \in Seq(PollMessage)
    BY DEF IndInv, TypeOK, ChannelsTypeOK
  <2>2. FetchJobsComplete \in PollMessage /\ FetchJobsComplete.kind = "FetchJobsComplete"
    BY DEF FetchJobsComplete, PollMessage
  <2>3. /\ DOMAIN poll_queue' = DOMAIN poll_queue \cup {n}
        /\ \A i \in DOMAIN poll_queue : i < n /\ poll_queue'[i] = poll_queue[i]
        /\ \A kind : Queued(kind)' =
             IF FetchJobsComplete.kind = kind THEN Queued(kind) \cup {n} ELSE Queued(kind)
    BY <1>1, <2>1, <2>2, AppendQueued
  <2>4. Queued("FetchJobsComplete")' = Queued("FetchJobsComplete") \cup {n}
    BY <2>2, <2>3
  <2>5. Queued("JobsArrived")' = Queued("JobsArrived")
    BY <2>2, <2>3
  <2>6. QED
    BY <1>2, <2>3, <2>4, <2>5 DEF Queued
<1>4. LiveTasks' = {}
  <2>1. Idle.pc = "idle"
    BY DEF Idle, At
  <2>2. LiveTasks' = LiveTasks \ {t}
    BY <1>1, <2>1, LiveAfterMove DEF IndInv, TypeOK, PollerTypeOK
  <2>3. QED
    BY <1>2, <2>2
<1>5. OneRequestAtATime'
  BY <1>4 DEF OneRequestAtATime
<1>6. FlagTracksRequest'
  BY <1>1, <1>2, <1>3, <1>4 DEF FlagTracksRequest
<1>7. ArrivalPrecedesCompletion'
  BY <1>3 DEF IndInv, RequestInv, ArrivalPrecedesCompletion
<1>8. BudgetRespected'
  <2>1. \A u \in Task : task'[u].pc \notin Awaiting
    BY <1>4 DEF LiveTasks, Awaiting
  <2>2. QED
    BY <1>1, <1>3, <2>1 DEF IndInv, RequestInv, BudgetRespected
<1>9. QED
  BY <1>1, <1>5, <1>6, <1>7, <1>8 DEF RequestInv

(* Every step of an activation task.                                       *)
LEMMA TaskKeepsInv ==
  ASSUME IndInv, TypeOK', NEW t \in Task, TaskStep(t)
  PROVE  RequestInv'
<1>1. taskUnchanged
  BY DEF TaskStep, CallSucceeds, CallFails, BatchArrives, SendJob, StreamEnds,
         Announce, TimeOut, Complete
<1>2. /\ task \in [Task -> TaskState]
      /\ task' \in [Task -> TaskState]
  BY DEF IndInv, TypeOK, PollerTypeOK
<1>3. CASE \/ CallSucceeds(t) \/ BatchArrives(t) \/ SendJob(t) \/ StreamEnds(t)
  <2>1. /\ task[t].pc \in Awaiting
        /\ poll_queue' = poll_queue
        /\ \E s : task' = [task EXCEPT ![t] = s]
        /\ task'[t].pc \in Awaiting
        /\ task'[t].requested = task[t].requested
    <3>1. CASE CallSucceeds(t)
      BY <1>2, <3>1 DEF CallSucceeds, At, Awaiting
    <3>2. CASE BatchArrives(t)
      <4>1. PICK n : task' = [task EXCEPT ![t] =
                        At("sending", task[t].requested, task[t].total + n, n)]
        BY <1>2, <3>2 DEF BatchArrives
      <4>2. /\ task'[t].pc = "sending" /\ task'[t].requested = task[t].requested
            /\ \E s : task' = [task EXCEPT ![t] = s]
        BY <1>2, <4>1 DEF At
      <4>3. QED
        BY <3>2, <4>2 DEF BatchArrives, Awaiting
    <3>3. CASE SendJob(t)
      BY <1>2, <3>3 DEF SendJob, At, Awaiting
    <3>4. CASE StreamEnds(t)
      BY <1>2, <3>4 DEF StreamEnds, At, Awaiting
    <3>5. QED
      BY <1>3, <3>1, <3>2, <3>3, <3>4
  <2>2. task' = [task EXCEPT ![t] = task'[t]] /\ task'[t] \in TaskState
    BY <1>2, <2>1
  <2>3. QED
    BY <1>1, <2>1, <2>2, TaskAdvances
<1>4. CASE CallFails(t) \/ TimeOut(t)
  <2>1. /\ task[t].pc \in Awaiting
        /\ task' = [task EXCEPT ![t] = Completing]
        /\ poll_queue' = poll_queue
    BY <1>4 DEF CallFails, TimeOut, Awaiting
  <2>2. QED
    BY <1>1, <2>1, TaskGivesUp
<1>5. CASE Announce(t)
  <2>1. CASE ~dropped
    BY <1>5, <2>1, AnnounceKeepsInv
  <2>2. CASE dropped
    <3>1. /\ UNCHANGED poll_queue
          /\ task[t].pc = "announcing"
          /\ task' = [task EXCEPT ![t] = Completing]
      BY <1>5, <2>2 DEF Announce, SendMessage
    <3>2. QED
      BY <1>1, <3>1, TaskGivesUp DEF Awaiting
  <2>3. QED
    BY <2>1, <2>2
<1>6. CASE Complete(t)
  <2>1. CASE ~dropped
    BY <1>6, <2>1, CompleteKeepsInv
  <2>2. CASE dropped
    <3>1. UNCHANGED poll_queue /\ task' = [task EXCEPT ![t] = Idle] /\ Idle.pc = "idle"
      BY <1>6, <2>2 DEF Complete, SendMessage, Idle, At
    <3>2. LiveTasks' = LiveTasks \ {t}
      BY <1>2, <3>1, LiveAfterMove
    <3>3. QED
      BY <1>1, <2>2, <3>1, <3>2, DroppedTasksEnd
  <2>3. QED
    BY <2>1, <2>2
<1>7. QED
  BY <1>3, <1>4, <1>5, <1>6 DEF TaskStep

-----------------------------------------------------------------------------
(* FetchJobs: nothing is left of the last request, and the new one asks    *)
(* for what the budget leaves.                                             *)
LEMMA FetchJobsKeepsInv ==
  ASSUME IndInv, FetchJobs
  PROVE  RequestInv'
<1> DEFINE s == At("calling", MaxJobsActive - remaining, 0, 0)
<1>1. /\ ~dropped /\ ~request_in_progress /\ request_in_progress'
      /\ UNCHANGED <<poll_queue, dropped, remaining>>
  BY DEF FetchJobs, should_activate_jobs
<1>2. PICK t \in Task : task' = [task EXCEPT ![t] = s]
  BY DEF FetchJobs, activate_jobs
<1>3. /\ LiveTasks = {}
      /\ Queued("FetchJobsComplete") = {}
      /\ Queued("JobsArrived") = {}
  BY <1>1 DEF IndInv, RequestInv, FlagTracksRequest
<1>4. /\ Queued("FetchJobsComplete")' = {}
      /\ Queued("JobsArrived")' = {}
  BY <1>1, <1>3 DEF Queued
<1>5. /\ task'[t].requested = MaxJobsActive - remaining
      /\ LiveTasks' = {t}
      /\ \A u \in Task : task'[u].pc \in Awaiting => u = t
  <2>1. s.pc = "calling" /\ s.requested = MaxJobsActive - remaining
    BY DEF At
  <2>2. /\ task'[t] = s
        /\ \A u \in Task : u # t => task'[u] = task[u]
        /\ LiveTasks' = {t}
    BY <1>2, <1>3, <2>1, LiveAfterMove DEF IndInv, TypeOK, PollerTypeOK
  <2>3. \A u \in Task : u # t => task'[u].pc = "idle"
    BY <1>3, <2>2 DEF LiveTasks
  <2>4. QED
    BY <2>1, <2>2, <2>3 DEF Awaiting
<1>6. OneRequestAtATime'
  BY <1>5 DEF OneRequestAtATime
<1>7. FlagTracksRequest'
  BY <1>1, <1>4, <1>5 DEF FlagTracksRequest
<1>8. ArrivalPrecedesCompletion'
  BY <1>4 DEF ArrivalPrecedesCompletion
<1>9. BudgetRespected'
  <2>1. /\ remaining' \in Nat /\ remaining' <= MaxJobsActive
        /\ remaining' + (MaxJobsActive - remaining) <= MaxJobsActive
    BY <1>1, ChannelAssumption
    DEF IndInv, TypeOK, PollerTypeOK, RequestInv, BudgetRespected
  <2>2. \A u \in Task : task'[u].pc \in Awaiting =>
          remaining' + task'[u].requested <= MaxJobsActive
    BY <1>5, <2>1
  <2>3. QED
    BY <1>4, <2>1, <2>2 DEF BudgetRespected
<1>10. QED
  BY <1>1, <1>6, <1>7, <1>8, <1>9 DEF RequestInv

(* JobsArrived: its request has left the async block, so what it adds to   *)
(* remaining takes nothing from a live request.                            *)
LEMMA JobsArrivedKeepsInv ==
  ASSUME IndInv, ReceiveJobsArrived
  PROVE  RequestInv'
<1>1. /\ ~dropped
      /\ poll_queue # << >>
      /\ Head(poll_queue).kind = "JobsArrived"
      /\ poll_queue' = Tail(poll_queue)
      /\ remaining' = remaining + Head(poll_queue).count
      /\ UNCHANGED <<dropped, request_in_progress, task>>
  BY DEF ReceiveJobsArrived, Receive
<1>2. poll_queue \in Seq(PollMessage)
  BY DEF IndInv, TypeOK, ChannelsTypeOK
<1>3. /\ 1 \in Queued("JobsArrived")
      /\ Head(poll_queue) = poll_queue[1]
  BY <1>1, <1>2, TailQueued DEF Queued
<1>4. Queued("JobsArrived") = {1}
  BY <1>3 DEF IndInv, RequestInv, ArrivalPrecedesCompletion
<1>5. Queued("JobsArrived")' = {}
  BY <1>1, <1>2, <1>4, TailQueuedSingle
<1>6. \A i \in Queued("FetchJobsComplete") : i # 1
  BY <1>1, <1>3 DEF Queued
<1>7. /\ Queued("FetchJobsComplete") = {} => Queued("FetchJobsComplete")' = {}
      /\ \A i \in Queued("FetchJobsComplete") :
           Queued("FetchJobsComplete") = {i} =>
             Queued("FetchJobsComplete")' = {i - 1}
  BY <1>1, <1>2, <1>6, TailQueuedSingle
<1>8. LiveTasks' = LiveTasks
  BY <1>1 DEF LiveTasks
<1>9. request_in_progress
  BY <1>1, <1>3 DEF IndInv, RequestInv, FlagTracksRequest
<1>10. \A u \in Task : task[u].pc \notin Awaiting
  <2>1. SUFFICES ASSUME NEW u \in Task, task[u].pc \in Awaiting PROVE FALSE
    OBVIOUS
  <2>2. u \in LiveTasks
    BY <2>1 DEF LiveTasks, Awaiting
  <2>3. LiveTasks = {u} /\ Queued("FetchJobsComplete") = {}
    BY <1>1, <2>2, LiveMeansInProgress
  <2>4. PICK v \in Task : task[v].pc = "completing"
    BY <1>3, <2>3 DEF IndInv, RequestInv, ArrivalPrecedesCompletion
  <2>5. v \in LiveTasks
    BY <2>4 DEF LiveTasks
  <2>6. QED
    BY <2>1, <2>3, <2>4, <2>5 DEF Awaiting
<1>11. OneRequestAtATime'
  BY <1>8 DEF IndInv, RequestInv, OneRequestAtATime
<1>12. FlagTracksRequest'
  <2>1. CASE /\ \E t \in Task : LiveTasks = {t}
             /\ Queued("FetchJobsComplete") = {}
    BY <1>1, <1>7, <1>8, <1>9, <2>1 DEF FlagTracksRequest
  <2>2. CASE /\ LiveTasks = {}
             /\ \E i \in DOMAIN poll_queue : Queued("FetchJobsComplete") = {i}
    <3>1. PICK i : Queued("FetchJobsComplete") = {i}
      BY <2>2
    <3>2. Queued("FetchJobsComplete")' = {i - 1}
      BY <1>7, <3>1
    <3>3. i - 1 \in DOMAIN poll_queue'
      BY <3>2 DEF Queued
    <3>4. QED
      BY <1>1, <1>8, <1>9, <2>2, <3>2, <3>3 DEF FlagTracksRequest
  <2>3. QED
    BY <1>1, <1>9, <2>1, <2>2 DEF IndInv, RequestInv, FlagTracksRequest
<1>13. ArrivalPrecedesCompletion'
  BY <1>5 DEF ArrivalPrecedesCompletion
<1>14. BudgetRespected'
  <2>1. remaining' <= MaxJobsActive
    BY <1>1, <1>3 DEF IndInv, RequestInv, BudgetRespected
  <2>2. QED
    BY <1>1, <1>5, <1>10, <2>1 DEF BudgetRespected
<1>15. QED
  BY <1>1, <1>11, <1>12, <1>13, <1>14 DEF RequestInv

(* JobFinished: remaining does not grow and every other message moves up.  *)
LEMMA JobFinishedKeepsInv ==
  ASSUME IndInv, ReceiveJobFinished
  PROVE  RequestInv'
<1>1. /\ ~dropped
      /\ poll_queue # << >>
      /\ Head(poll_queue).kind = "JobFinished"
      /\ poll_queue' = Tail(poll_queue)
      /\ remaining' = IF remaining = 0 THEN 0 ELSE remaining - 1
      /\ UNCHANGED <<dropped, request_in_progress, task>>
  BY DEF ReceiveJobFinished, Receive
<1>2. poll_queue \in Seq(PollMessage)
  BY DEF IndInv, TypeOK, ChannelsTypeOK
<1>3. remaining \in Nat /\ remaining' \in Nat /\ remaining' <= remaining
  BY <1>1 DEF IndInv, TypeOK, PollerTypeOK
<1>4. ASSUME NEW kind \in {"JobsArrived", "FetchJobsComplete"}
      PROVE  /\ 1 \notin Queued(kind)
             /\ Queued(kind) = {} => Queued(kind)' = {}
             /\ \A i \in Queued(kind) : i \in Nat /\ i - 1 \in Queued(kind)'
             /\ \A i \in Queued(kind) : Queued(kind) = {i} => Queued(kind)' = {i - 1}
             /\ \A i \in Queued(kind)' :
                  /\ i \in Nat
                  /\ i + 1 \in Queued(kind)
                  /\ poll_queue'[i] = poll_queue[i + 1]
  <2>1. 1 \notin Queued(kind)
    BY <1>1, <1>2, TailQueued DEF Queued
  <2>2. \A i \in Queued(kind)' : i \in DOMAIN poll_queue'
    BY DEF Queued
  <2>3. \A i \in Queued(kind) : i \in DOMAIN poll_queue
    BY DEF Queued
  <2>4. /\ \A i \in Queued(kind)' : i + 1 \in Queued(kind)
        /\ \A i \in Queued(kind) : i # 1 => i - 1 \in Queued(kind)'
        /\ \A i \in DOMAIN poll_queue' :
             i \in Nat /\ poll_queue'[i] = poll_queue[i + 1]
        /\ \A i \in DOMAIN poll_queue : i \in Nat
    BY <1>1, <1>2, TailQueued
  <2>5. /\ Queued(kind) = {} => Queued(kind)' = {}
        /\ \A i \in Queued(kind) :
             Queued(kind) = {i} /\ i # 1 => Queued(kind)' = {i - 1}
    BY <1>1, <1>2, TailQueuedSingle
  <2>6. QED
    BY <2>1, <2>2, <2>3, <2>4, <2>5
<1>5. LiveTasks' = LiveTasks
  BY <1>1 DEF LiveTasks
<1>6. OneRequestAtATime'
  BY <1>5 DEF IndInv, RequestInv, OneRequestAtATime
<1>7. FlagTracksRequest'
  <2>1. CASE ~request_in_progress
    BY <1>1, <1>4, <1>5, <2>1 DEF IndInv, RequestInv, FlagTracksRequest
  <2>2. CASE /\ request_in_progress
             /\ \E t \in Task : LiveTasks = {t}
             /\ Queued("FetchJobsComplete") = {}
    BY <1>1, <1>4, <1>5, <2>2 DEF FlagTracksRequest
  <2>3. CASE /\ request_in_progress
             /\ LiveTasks = {}
             /\ \E i \in DOMAIN poll_queue : Queued("FetchJobsComplete") = {i}
    <3>1. PICK i : Queued("FetchJobsComplete") = {i}
      BY <2>3
    <3>2. Queued("FetchJobsComplete")' = {i - 1}
      BY <1>4, <3>1
    <3>3. i - 1 \in DOMAIN poll_queue'
      BY <3>2 DEF Queued
    <3>4. QED
      BY <1>1, <1>5, <2>3, <3>2, <3>3 DEF FlagTracksRequest
  <2>4. QED
    BY <1>1, <2>1, <2>2, <2>3 DEF IndInv, RequestInv, FlagTracksRequest
<1>8. ArrivalPrecedesCompletion'
  <2>1. SUFFICES ASSUME NEW i \in Queued("JobsArrived")'
                 PROVE  /\ Queued("JobsArrived")' = {i}
                        /\ \/ \E t \in Task : task'[t].pc = "completing"
                           \/ \E j \in Queued("FetchJobsComplete")' : i < j
    BY DEF ArrivalPrecedesCompletion
  <2>2. i \in Nat /\ i + 1 \in Queued("JobsArrived")
    BY <1>4
  <2>3. /\ Queued("JobsArrived") = {i + 1}
        /\ \/ \E t \in Task : task[t].pc = "completing"
           \/ \E j \in Queued("FetchJobsComplete") : i + 1 < j
    BY <2>2 DEF IndInv, RequestInv, ArrivalPrecedesCompletion
  <2>4. Queued("JobsArrived")' = {i}
    BY <1>4, <2>2, <2>3
  <2>5. ASSUME NEW j \in Queued("FetchJobsComplete"), i + 1 < j
        PROVE  j - 1 \in Queued("FetchJobsComplete")' /\ i < j - 1
    BY <1>4, <2>2, <2>5
  <2>6. QED
    BY <1>1, <2>3, <2>4, <2>5
<1>9. BudgetRespected'
  <2>1. remaining' <= MaxJobsActive
    BY <1>1, <1>3, ChannelAssumption DEF IndInv, RequestInv, BudgetRespected
  <2>2. ASSUME NEW u \in Task, task'[u].pc \in Awaiting
        PROVE  remaining' + task'[u].requested <= MaxJobsActive
    <3>1. task[u].requested \in Nat
      BY ChannelAssumption DEF IndInv, TypeOK, PollerTypeOK, TaskState
    <3>2. remaining + task[u].requested <= MaxJobsActive
      BY <1>1, <2>2 DEF IndInv, RequestInv, BudgetRespected
    <3>3. QED
      BY <1>1, <1>3, <3>1, <3>2, ChannelAssumption
  <2>3. ASSUME NEW i \in Queued("JobsArrived")'
        PROVE  remaining' + poll_queue'[i].count <= MaxJobsActive
    <3>1. i + 1 \in Queued("JobsArrived") /\ poll_queue'[i] = poll_queue[i + 1]
      BY <1>4
    <3>2. remaining + poll_queue[i + 1].count <= MaxJobsActive
      BY <1>1, <3>1 DEF IndInv, RequestInv, BudgetRespected
    <3>3. poll_queue[i + 1].count \in Nat
      <4>1. i + 1 \in DOMAIN poll_queue
        BY <3>1 DEF Queued
      <4>2. poll_queue[i + 1] \in PollMessage
        BY <1>2, <4>1, LenProperties
      <4>3. QED
        BY <4>2 DEF PollMessage
    <3>4. QED
      BY <1>3, <3>1, <3>2, <3>3, ChannelAssumption
  <2>4. QED
    BY <2>1, <2>2, <2>3 DEF BudgetRespected
<1>10. QED
  BY <1>1, <1>6, <1>7, <1>8, <1>9 DEF RequestInv

(* FetchJobsComplete: it was the last thing its request left behind.       *)
LEMMA FetchJobsCompleteKeepsInv ==
  ASSUME IndInv, ReceiveFetchJobsComplete
  PROVE  RequestInv'
<1>1. /\ ~dropped
      /\ poll_queue # << >>
      /\ Head(poll_queue).kind = "FetchJobsComplete"
      /\ poll_queue' = Tail(poll_queue)
      /\ ~request_in_progress'
      /\ UNCHANGED <<dropped, remaining, task>>
  BY DEF ReceiveFetchJobsComplete, Receive
<1>2. poll_queue \in Seq(PollMessage)
  BY DEF IndInv, TypeOK, ChannelsTypeOK
<1>3. 1 \in Queued("FetchJobsComplete")
  BY <1>1, <1>2, TailQueued DEF Queued
<1>4. LiveTasks = {} /\ Queued("FetchJobsComplete") = {1}
  BY <1>1, <1>3 DEF IndInv, RequestInv, FlagTracksRequest
<1>5. Queued("JobsArrived") = {}
  <2>1. SUFFICES ASSUME NEW i \in Queued("JobsArrived") PROVE FALSE
    OBVIOUS
  <2>2. \A t \in Task : task[t].pc # "completing"
    BY <1>4 DEF LiveTasks
  <2>3. PICK j \in Queued("FetchJobsComplete") : i < j
    BY <2>2 DEF IndInv, RequestInv, ArrivalPrecedesCompletion
  <2>4. j = 1 /\ i \in 1..Len(poll_queue)
    BY <1>2, <1>4, LenProperties DEF Queued
  <2>5. QED
    BY <2>3, <2>4
<1>6. Queued("JobsArrived")' = {} /\ Queued("FetchJobsComplete")' = {}
  BY <1>1, <1>2, <1>4, <1>5, TailQueuedSingle
<1>7. LiveTasks' = {}
  BY <1>1, <1>4 DEF LiveTasks
<1>8. OneRequestAtATime'
  BY <1>7 DEF OneRequestAtATime
<1>9. FlagTracksRequest'
  BY <1>1, <1>6, <1>7 DEF FlagTracksRequest
<1>10. ArrivalPrecedesCompletion'
  BY <1>6 DEF ArrivalPrecedesCompletion
<1>11. BudgetRespected'
  BY <1>1, <1>6 DEF IndInv, RequestInv, BudgetRespected
<1>12. QED
  BY <1>1, <1>8, <1>9, <1>10, <1>11 DEF RequestInv

(* A step after which the poller, its tasks and the messages about its     *)
(* requests are the same.                                                  *)
LEMMA UnseenKeepsInv ==
  ASSUME IndInv, UNCHANGED <<dropped, remaining, request_in_progress, task>>,
         \A kind \in {"JobsArrived", "FetchJobsComplete"} : Queued(kind)' = Queued(kind),
         \A i \in DOMAIN poll_queue :
           i \in DOMAIN poll_queue' /\ poll_queue'[i] = poll_queue[i],
         dropped => poll_queue' = poll_queue
  PROVE  RequestInv'
<1>1. LiveTasks' = LiveTasks
  BY DEF LiveTasks
<1>2. OneRequestAtATime' /\ FlagTracksRequest' /\ ArrivalPrecedesCompletion'
  BY <1>1 DEF IndInv, RequestInv, OneRequestAtATime, FlagTracksRequest,
              ArrivalPrecedesCompletion
<1>3. BudgetRespected'
  <2>1. \A i \in Queued("JobsArrived")' :
          i \in Queued("JobsArrived") /\ poll_queue'[i] = poll_queue[i]
    BY DEF Queued
  <2>2. QED
    BY <2>1 DEF IndInv, RequestInv, BudgetRespected
<1>4. QED
  BY <1>2, <1>3 DEF IndInv, RequestInv

(* The dispatcher only ever sends JobFinished.                             *)
LEMMA DispatcherKeepsInv ==
  ASSUME IndInv, DispatcherStep, UNCHANGED pollerVars
  PROVE  RequestInv'
<1>1. UNCHANGED <<dropped, remaining, request_in_progress, task>>
  BY DEF DispatcherStep, Dispatch, HandlerReturns, ReportJobFinished, pollerVars
<1>2. CASE poll_queue' = poll_queue
  BY <1>1, <1>2, UnseenKeepsInv DEF Queued
<1>3. CASE ReportJobFinished
  <2>1. ~dropped /\ poll_queue' = Append(poll_queue, JobFinished)
    BY <1>3 DEF ReportJobFinished, SendMessage
  <2>2. JobFinished \in PollMessage /\ JobFinished.kind = "JobFinished"
    BY DEF JobFinished, PollMessage
  <2>3. /\ \A kind : Queued(kind)' =
              IF JobFinished.kind = kind THEN Queued(kind) \cup {Len(poll_queue) + 1}
                                         ELSE Queued(kind)
        /\ DOMAIN poll_queue' = DOMAIN poll_queue \cup {Len(poll_queue) + 1}
        /\ \A i \in DOMAIN poll_queue : poll_queue'[i] = poll_queue[i]
    BY <2>1, <2>2, AppendQueued DEF IndInv, TypeOK, ChannelsTypeOK
  <2>4. QED
    BY <1>1, <2>1, <2>2, <2>3, UnseenKeepsInv
<1>4. QED
  BY <1>2, <1>3 DEF DispatcherStep, Dispatch, HandlerReturns

(* Dropping the worker leaves a task alive, but no message.                *)
LEMMA DropKeepsInv == ASSUME IndInv, Drop PROVE RequestInv'
<1>1. dropped' /\ poll_queue' = << >> /\ task' = task
  BY DEF Drop, pollerVars
<1>2. OneRequestAtATime'
  BY <1>1 DEF IndInv, RequestInv, OneRequestAtATime, LiveTasks
<1>3. ArrivalPrecedesCompletion'
  BY <1>1 DEF ArrivalPrecedesCompletion, Queued
<1>4. QED
  BY <1>1, <1>2, <1>3 DEF RequestInv, FlagTracksRequest, BudgetRespected

-----------------------------------------------------------------------------
(* The invariant holds at the start and every step keeps it.               *)
LEMMA InitInv == Init => IndInv
<1> SUFFICES ASSUME Init PROVE IndInv
  OBVIOUS
<1>1. TypeOK
  BY InitTypes
<1>2. LiveTasks = {} /\ \A t \in Task : task[t].pc = "idle"
  BY DEF Init, PollerInit, LiveTasks, Idle, At
<1>3. /\ poll_queue = << >> /\ remaining = 0 /\ ~request_in_progress
      /\ \A kind : Queued(kind) = {}
  BY DEF Init, ChannelsInit, PollerInit, Queued
<1>4. OneRequestAtATime /\ FlagTracksRequest /\ ArrivalPrecedesCompletion
  BY <1>2, <1>3 DEF OneRequestAtATime, FlagTracksRequest, ArrivalPrecedesCompletion
<1>5. BudgetRespected
  BY <1>2, <1>3, ChannelAssumption DEF BudgetRespected, Awaiting
<1>6. QED
  BY <1>1, <1>3, <1>4, <1>5 DEF IndInv, RequestInv

LEMMA StepKeepsInv == IndInv /\ [Next]_vars => IndInv'
<1> SUFFICES ASSUME IndInv, [Next]_vars PROVE IndInv'
  OBVIOUS
<1>1. TypeOK'
  BY StepKeepsTypes DEF IndInv
<1>2. CASE Poll /\ UNCHANGED dispatcherVars
  <2>1. CASE IgnoreFetchJobs
    BY <2>1, UnseenKeepsInv, <1>1 DEF IgnoreFetchJobs, pollerVars, IndInv, Queued
  <2>2. QED
    BY <1>1, <1>2, <2>1, FetchJobsKeepsInv, JobsArrivedKeepsInv, JobFinishedKeepsInv,
       FetchJobsCompleteKeepsInv DEF Poll, ReceiveMessage, IndInv
<1>3. CASE \E t \in Task : TaskStep(t) /\ UNCHANGED dispatcherVars
  BY <1>1, <1>3, TaskKeepsInv DEF IndInv
<1>4. CASE DispatcherStep /\ UNCHANGED pollerVars
  BY <1>1, <1>4, DispatcherKeepsInv DEF IndInv
<1>5. CASE Drop
  BY <1>1, <1>5, DropKeepsInv DEF IndInv
<1>6. CASE UNCHANGED vars
  BY <1>1, <1>6, UnseenKeepsInv DEF vars, IndInv, Queued
<1>7. QED
  BY <1>2, <1>3, <1>4, <1>5, <1>6 DEF Next

LEMMA InvariantHolds == Spec => []IndInv
<1>1. QED
  BY InitInv, StepKeepsInv, PTL DEF Spec

(* A worker never has two requests under way.                              *)
THEOREM OneRequest == Spec => []OneRequestAtATime
<1>1. IndInv => OneRequestAtATime
  BY DEF IndInv, RequestInv
<1>2. QED
  BY <1>1, InvariantHolds, PTL

(* request_in_progress is set exactly while something of a request is      *)
(* still to come, and exactly one thing will clear it.                     *)
THEOREM FlagIsExact == Spec => []FlagTracksRequest
<1>1. IndInv => FlagTracksRequest
  BY DEF IndInv, RequestInv
<1>2. QED
  BY <1>1, InvariantHolds, PTL

(* A request's jobs are counted before the next request can start.         *)
THEOREM ArrivalFirst == Spec => []ArrivalPrecedesCompletion
<1>1. IndInv => ArrivalPrecedesCompletion
  BY DEF IndInv, RequestInv
<1>2. QED
  BY <1>1, InvariantHolds, PTL

(* The poller's count and its live request stay within max_jobs_active.    *)
THEOREM Budget == Spec => []BudgetRespected
<1>1. IndInv => BudgetRespected
  BY DEF IndInv, RequestInv
<1>2. QED
  BY <1>1, InvariantHolds, PTL
=============================================================================
