----------------------------- MODULE JobPoller -----------------------------
(***************************************************************************)
(* The poller of a job worker and the activation tasks it spawns           *)
(* (src/src/worker/job_poller.rs).                                         *)
(*                                                                         *)
(* The poller is the only reader of poll_queue.  It never waits for        *)
(* anything but a message, and keeps two pieces of state: its own count of *)
(* the jobs the worker holds, and whether a request is under way.  Each    *)
(* activation task is a detached tokio task that calls the gateway, moves  *)
(* the jobs it streams back into job_queue and then tells the poller; the  *)
(* poller learns of it only through messages.                              *)
(***************************************************************************)
EXTENDS WorkerChannels

CONSTANT Task         \* identities for the tokio tasks that are alive at once

VARIABLES
  remaining,            \* JobPoller::remaining
  request_in_progress,  \* JobPoller::request_in_progress
  task                  \* for each identity, where its task is

pollerVars == <<remaining, request_in_progress, task>>

(***************************************************************************)
(* The state of an activation task.                                        *)
(*   idle        the identity is free                                      *)
(*   calling     awaits gateway_client.activate_jobs                       *)
(*   streaming   awaits the next batch of the response stream              *)
(*   sending     awaits room in job_queue, `batch' jobs still in its hand  *)
(*   announcing  awaits room in poll_queue for JobsArrived                 *)
(*   completing  awaits room in poll_queue for FetchJobsComplete           *)
(* `requested' is max_jobs_to_activate, `total' is total_jobs.  The locals *)
(* of the async block are gone once it has ended or timed out.             *)
(***************************************************************************)
At(pc, requested, total, batch) ==
  [pc |-> pc, requested |-> requested, total |-> total, batch |-> batch]

Idle       == At("idle", 0, 0, 0)
Completing == At("completing", 0, 0, 0)

Awaiting == {"calling", "streaming", "sending", "announcing"}

TaskState == [pc : {"idle", "completing"} \cup Awaiting,
              requested : 0..MaxJobsActive,
              total : 0..MaxJobsActive,
              batch : 0..MaxJobsActive]

LiveTasks == {t \in Task : task[t].pc # "idle"}

(* Mutant of Threshold: fetches even when the worker is full. *)
ThresholdFull == MaxJobsActive

(* poll_threshold is 0.3 and cannot be configured; the f32 product floors  *)
(* to the exact quotient.                                                  *)
Threshold == (MaxJobsActive * 3) \div 10

PollerInit ==
  /\ remaining = 0
  /\ request_in_progress = FALSE
  /\ task = [t \in Task |-> Idle]

-----------------------------------------------------------------------------
(***************************************************************************)
(* The poller: one action per arm of the match in JobPoller::poll.         *)
(***************************************************************************)

(* Mutants of should_activate_jobs: without the flag; with < for <=. *)
ActivateAnyTime == remaining <= Threshold
ActivateBelowThreshold == remaining < Threshold /\ ~request_in_progress

should_activate_jobs == remaining <= Threshold /\ ~request_in_progress

(* Mutant of activate_jobs: asks for max_jobs_active every time. *)
ActivateMax ==
  \E t \in Task :
    /\ task[t].pc = "idle"
    /\ task' = [task EXCEPT ![t] = At("calling", MaxJobsActive, 0, 0)]

(* JobPoller::activate_jobs: set the size of the request, spawn a task. *)
activate_jobs ==
  \E t \in Task :
    /\ task[t].pc = "idle"
    /\ task' = [task EXCEPT ![t] = At("calling", MaxJobsActive - remaining, 0, 0)]

(* The poll interval elapsed and the poller is ready for more work. *)
FetchJobs ==
  /\ ~dropped
  /\ should_activate_jobs
  /\ request_in_progress' = TRUE
  /\ activate_jobs
  /\ UNCHANGED <<job_queue, poll_queue, dropped, remaining>>

(* The poll interval elapsed and is ignored. *)
IgnoreFetchJobs ==
  /\ ~dropped
  /\ ~should_activate_jobs
  /\ UNCHANGED <<job_queue, poll_queue, dropped>>
  /\ UNCHANGED pollerVars

(* The poller takes the first message, which is of the given kind. *)
Receive(kind) ==
  /\ ~dropped
  /\ poll_queue # << >>
  /\ Head(poll_queue).kind = kind
  /\ poll_queue' = Tail(poll_queue)
  /\ UNCHANGED <<job_queue, dropped>>

(* Mutants of ReceiveJobsArrived: forgets the jobs it counted before; takes *)
(* the announcement for the end of the request.                             *)
JobsArrivedOverwrites ==
  /\ Receive("JobsArrived")
  /\ remaining' = Head(poll_queue).count
  /\ UNCHANGED <<request_in_progress, task>>
JobsArrivedEndsRequest ==
  /\ Receive("JobsArrived")
  /\ remaining' = remaining + Head(poll_queue).count
  /\ request_in_progress' = FALSE
  /\ UNCHANGED task

(***************************************************************************)
(* saturating_add: the u32 limit is out of reach, see BudgetRespected in   *)
(* JobWorker.                                                              *)
(***************************************************************************)
ReceiveJobsArrived ==
  /\ Receive("JobsArrived")
  /\ remaining' = remaining + Head(poll_queue).count
  /\ UNCHANGED <<request_in_progress, task>>

(* saturating_sub: a count of 0 stays 0. *)
ReceiveJobFinished ==
  /\ Receive("JobFinished")
  /\ remaining' = IF remaining = 0 THEN 0 ELSE remaining - 1
  /\ UNCHANGED <<request_in_progress, task>>

(* Mutant of ReceiveFetchJobsComplete: starts counting afresh. *)
FetchJobsCompleteResets ==
  /\ Receive("FetchJobsComplete")
  /\ request_in_progress' = FALSE
  /\ remaining' = 0
  /\ UNCHANGED task

ReceiveFetchJobsComplete ==
  /\ Receive("FetchJobsComplete")
  /\ request_in_progress' = FALSE
  /\ UNCHANGED <<remaining, task>>

ReceiveMessage ==
  ReceiveJobsArrived \/ ReceiveJobFinished \/ ReceiveFetchJobsComplete

Poll == FetchJobs \/ IgnoreFetchJobs \/ ReceiveMessage

-----------------------------------------------------------------------------
(***************************************************************************)
(* The activation task: one action per await point of the spawned future.  *)
(* It lives on the runtime, not in run(), so it outlives a drop.           *)
(***************************************************************************)

taskUnchanged == UNCHANGED <<dropped, remaining, request_in_progress>>

CallSucceeds(t) ==
  /\ task[t].pc = "calling"
  /\ task' = [task EXCEPT ![t] = At("streaming", @.requested, 0, 0)]
  /\ UNCHANGED <<job_queue, poll_queue>> /\ taskUnchanged

(* Backpressure, a broker error, or the 15 s timeout of the channel. *)
CallFails(t) ==
  /\ task[t].pc = "calling"
  /\ task' = [task EXCEPT ![t] = Completing]
  /\ UNCHANGED <<job_queue, poll_queue>> /\ taskUnchanged

(***************************************************************************)
(* The gateway streams a batch.  It activates at most max_jobs_to_activate *)
(* jobs over all the batches of a request (an empty batch changes          *)
(* nothing).  All of the batch is counted before any of it is sent.        *)
(***************************************************************************)
BatchArrives(t) ==
  /\ task[t].pc = "streaming"
  /\ \E n \in 1..(task[t].requested - task[t].total) :
       task' = [task EXCEPT ![t] = At("sending", @.requested, @.total + n, n)]
  /\ UNCHANGED <<job_queue, poll_queue>> /\ taskUnchanged

SendJob(t) ==
  /\ task[t].pc = "sending"
  /\ SendToDispatcher
  /\ task' = [task EXCEPT ![t] =
       IF @.batch = 1 THEN At("streaming", @.requested, @.total, 0)
                      ELSE At("sending", @.requested, @.total, @.batch - 1)]
  /\ UNCHANGED poll_queue /\ taskUnchanged

(* Mutant of StreamEnds: reports the end of the request first and announces *)
(* its jobs afterwards.                                                     *)
StreamEndsReportFirst(t) ==
  /\ task[t].pc = "streaming"
  /\ SendMessage(FetchJobsComplete)
  /\ task' = [task EXCEPT ![t] = At("announcing", @.requested, @.total, 0)]
  /\ UNCHANGED job_queue /\ taskUnchanged

(* The stream ends, or breaks: the loop treats both alike. *)
StreamEnds(t) ==
  /\ task[t].pc = "streaming"
  /\ task' = [task EXCEPT ![t] = At("announcing", @.requested, @.total, 0)]
  /\ UNCHANGED <<job_queue, poll_queue>> /\ taskUnchanged

Announce(t) ==
  /\ task[t].pc = "announcing"
  /\ SendMessage(JobsArrived(task[t].total))
  /\ task' = [task EXCEPT ![t] = Completing]
  /\ UNCHANGED job_queue /\ taskUnchanged

(* Mutant of TimeOut: `?' instead of `.then', a timeout ends the task. *)
TimeOutEndsTask(t) ==
  /\ task[t].pc \in Awaiting
  /\ task' = [task EXCEPT ![t] = Idle]
  /\ UNCHANGED <<job_queue, poll_queue>> /\ taskUnchanged

(***************************************************************************)
(* timeout(request_timeout, ...) drops the async block at any await, one   *)
(* whose channel has room included (tokio may suspend a task there, too,   *)
(* when its cooperative budget is used up).  The jobs in its hand and the  *)
(* count it was about to announce are lost, the jobs in job_queue are not. *)
(***************************************************************************)
TimeOut(t) ==
  /\ task[t].pc \in Awaiting
  /\ task' = [task EXCEPT ![t] = Completing]
  /\ UNCHANGED <<job_queue, poll_queue>> /\ taskUnchanged

(* Mutant of Complete: try_send, which does not wait for room. *)
CompleteIfRoom(t) ==
  /\ task[t].pc = "completing"
  /\ IF Len(poll_queue) < PollQueueCapacity THEN SendMessage(FetchJobsComplete)
                                            ELSE UNCHANGED poll_queue
  /\ task' = [task EXCEPT ![t] = Idle]
  /\ UNCHANGED job_queue /\ taskUnchanged

(* .then(...): runs whether the async block ended or timed out. *)
Complete(t) ==
  /\ task[t].pc = "completing"
  /\ SendMessage(FetchJobsComplete)
  /\ task' = [task EXCEPT ![t] = Idle]
  /\ UNCHANGED job_queue /\ taskUnchanged

TaskStep(t) ==
  \/ CallSucceeds(t) \/ CallFails(t)
  \/ BatchArrives(t) \/ SendJob(t) \/ StreamEnds(t) \/ Announce(t)
  \/ TimeOut(t) \/ Complete(t)

(***************************************************************************)
(* A request asks for at least one job, so its u32 subtraction does not    *)
(* underflow; a task holds at most what it received and receives at most   *)
(* what it asked for, and has nothing before the stream or after the block.*)
(***************************************************************************)
RequestInRange(s) ==
  /\ s.pc \in Awaiting => /\ 0 < s.requested
                          /\ s.total <= s.requested
                          /\ s.batch <= s.total
                          /\ s.batch > 0 <=> s.pc = "sending"
  /\ s.pc \in {"idle", "calling", "completing"} => s.total = 0 /\ s.batch = 0

PollerTypeOK ==
  /\ remaining \in Nat
  /\ request_in_progress \in BOOLEAN
  /\ task \in [Task -> TaskState]
  /\ \A t \in Task : RequestInRange(task[t])
=============================================================================
