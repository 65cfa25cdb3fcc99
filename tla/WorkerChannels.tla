--------------------------- MODULE WorkerChannels ---------------------------
(***************************************************************************)
(* The two bounded tokio channels that connect the parts of a job worker,  *)
(* as JobWorkerBuilder::run creates them (src/src/worker/builder.rs).      *)
(*                                                                         *)
(*   job_queue   activation task  --Job-->          dispatcher             *)
(*   poll_queue  task, dispatcher --PollMessage-->  poller                 *)
(*                                                                         *)
(* A job is only counted: no property here tells two jobs apart.  Dropping *)
(* the run() future drops both receivers; a send then returns an error at  *)
(* once, which every sender ignores (`let _ =`).                           *)
(***************************************************************************)
EXTENDS Naturals, Sequences

CONSTANTS
  MaxJobsActive,      \* with_max_jobs_active, the capacity of job_queue
  PollQueueCapacity   \* capacity of poll_queue: 32 in the code

(* mpsc::channel panics on a capacity of 0. *)
ASSUME ChannelAssumption ==
  /\ MaxJobsActive \in Nat \ {0}
  /\ PollQueueCapacity \in Nat \ {0}

VARIABLES
  job_queue,          \* number of jobs waiting for the dispatcher
  poll_queue,         \* the messages waiting for the poller, in FIFO order
  dropped             \* has the future of run() been dropped?

(***************************************************************************)
(* enum PollMessage, without FetchJobs: that one is produced by the        *)
(* interval stream and never travels through poll_queue.                   *)
(***************************************************************************)
JobsArrived(n)    == [kind |-> "JobsArrived", count |-> n]
FetchJobsComplete == [kind |-> "FetchJobsComplete", count |-> 0]
JobFinished       == [kind |-> "JobFinished", count |-> 0]

PollMessage ==
  [kind : {"JobsArrived", "FetchJobsComplete", "JobFinished"}, count : Nat]

(* The places of poll_queue that hold a message of the given kind. *)
Queued(kind) == {i \in DOMAIN poll_queue : poll_queue[i].kind = kind}

ChannelsInit ==
  /\ job_queue = 0
  /\ poll_queue = << >>
  /\ dropped = FALSE

(* Mutant of SendMessage: the sender waits for a receiver that is gone. *)
SendMessageNoError(m) ==
  /\ ~dropped
  /\ Len(poll_queue) < PollQueueCapacity
  /\ poll_queue' = Append(poll_queue, m)

(* message_sender.send(m).await: waits for room, fails once dropped. *)
SendMessage(m) ==
  \/ /\ ~dropped
     /\ Len(poll_queue) < PollQueueCapacity
     /\ poll_queue' = Append(poll_queue, m)
  \/ dropped /\ UNCHANGED poll_queue

(* job_queue.send(job).await: likewise. *)
SendToDispatcher ==
  \/ /\ ~dropped
     /\ job_queue < MaxJobsActive
     /\ job_queue' = job_queue + 1
  \/ dropped /\ UNCHANGED job_queue

ChannelsTypeOK ==
  /\ job_queue \in 0..MaxJobsActive
  /\ poll_queue \in Seq(PollMessage)
  /\ Len(poll_queue) <= PollQueueCapacity
  /\ dropped \in BOOLEAN
=============================================================================
