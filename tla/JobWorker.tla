----------------------------- MODULE JobWorker -----------------------------
(***************************************************************************)
(* A running job worker: JobWorkerBuilder::run joins the poller and the    *)
(* dispatcher in one future, and the poller spawns activation tasks.       *)
(*                                                                         *)
(* The three actors share no state.  The poller decides when to fetch from *)
(* a count it keeps by adding up messages that the other two send at       *)
(* different moments, and that a timeout can suppress: the properties      *)
(* below say how that count relates to the jobs the worker really holds.   *)
(***************************************************************************)
EXTENDS JobPoller, JobDispatcher, Integers, FiniteSets, FiniteSetsExt

vars == <<job_queue, poll_queue, dropped, remaining, request_in_progress,
          task, handling, reporting>>

Init == ChannelsInit /\ PollerInit /\ DispatcherInit

(***************************************************************************)
(* "To stop the worker, simply drop the future": poller, dispatcher, the   *)
(* handlers in it and both queues are gone, the spawned tasks are not.  A  *)
(* handler that panics ends run() in the same way.                         *)
(***************************************************************************)
Drop ==
  /\ ~dropped
  /\ dropped' = TRUE
  /\ job_queue' = 0
  /\ poll_queue' = << >>
  /\ handling' = 0
  /\ reporting' = 0
  /\ UNCHANGED pollerVars

Next ==
  \/ Poll /\ UNCHANGED dispatcherVars
  \/ \E t \in Task : TaskStep(t) /\ UNCHANGED dispatcherVars
  \/ DispatcherStep /\ UNCHANGED pollerVars
  \/ Drop

Spec == Init /\ [][Next]_vars

-----------------------------------------------------------------------------
(***************************************************************************)
(* Fairness.  The runtime polls every woken task.  stream::select takes    *)
(* from the interval and from poll_queue in turn, so neither starves the   *)
(* other.  A timeout fires.  tokio's semaphores are FIFO, so whoever waits *)
(* for room in a channel that is emptied again and again gets it (SF).     *)
(* Nothing makes the gateway answer, and nothing makes a handler return.   *)
(***************************************************************************)
Fairness ==
  /\ WF_vars(FetchJobs /\ UNCHANGED dispatcherVars)
  /\ WF_vars(ReceiveMessage /\ UNCHANGED dispatcherVars)
  /\ WF_vars(Dispatch /\ UNCHANGED pollerVars)
  /\ SF_vars(ReportJobFinished /\ UNCHANGED pollerVars)
  /\ \A t \in Task :
       /\ WF_vars(TimeOut(t) /\ UNCHANGED dispatcherVars)
       /\ SF_vars(Complete(t) /\ UNCHANGED dispatcherVars)

FairSpec == Spec /\ Fairness

(* What a user may assume who writes handlers that always return. *)
HandlersReturn == WF_vars(HandlerReturns /\ UNCHANGED pollerVars)

ReturningSpec == FairSpec /\ HandlersReturn

-----------------------------------------------------------------------------
(* Every variable has its type.  This includes that a request asks for 1   *)
(* to MaxJobsActive jobs, whatever the poller counted before.              *)
TypeOK == ChannelsTypeOK /\ PollerTypeOK /\ DispatcherTypeOK

(* A worker never has two requests under way, although a request lives in  *)
(* a task of its own that can outlast timeouts, failures and drops.        *)
OneRequestAtATime == \A t, u \in LiveTasks : t = u

(* request_in_progress means what it says: while it is FALSE nothing of an *)
(* earlier request is still to come, neither a task nor a message; while   *)
(* it is TRUE there is exactly one thing that will clear it, a live task   *)
(* or the FetchJobsComplete it has sent.                                   *)
FlagTracksRequest ==
  ~dropped =>
    IF request_in_progress
      THEN \/ /\ \E t \in Task : LiveTasks = {t}
              /\ Queued("FetchJobsComplete") = {}
           \/ /\ LiveTasks = {}
              /\ \E i \in DOMAIN poll_queue : Queued("FetchJobsComplete") = {i}
      ELSE /\ LiveTasks = {}
           /\ Queued("FetchJobsComplete") = {}
           /\ Queued("JobsArrived") = {}

(* The poller counts the jobs of a request before it may start the next:   *)
(* at most one JobsArrived is under way, and its task's FetchJobsComplete  *)
(* is behind it in the queue or not yet sent.                              *)
ArrivalPrecedesCompletion ==
  \A i \in Queued("JobsArrived") :
    /\ Queued("JobsArrived") = {i}
    /\ \/ \E t \in Task : task[t].pc = "completing"
       \/ \E j \in Queued("FetchJobsComplete") : i < j

(* The poller budgets for at most max_jobs_active jobs: what it counts,    *)
(* what is announced, and what a live request has received or may still    *)
(* receive never add up to more.                                           *)
BudgetRespected ==
  ~dropped =>
    /\ remaining <= MaxJobsActive
    /\ \A t \in Task : task[t].pc \in Awaiting =>
         remaining + task[t].requested <= MaxJobsActive
    /\ \A i \in Queued("JobsArrived") :
         remaining + poll_queue[i].count <= MaxJobsActive

(***************************************************************************)
(* The abstract specification that the worker implements.  Its phase is    *)
(* read off the flag and off where the jobs of the request are: the cycle  *)
(* is open while they may still come or wait to be counted.                *)
(***************************************************************************)
ArrivalsOpen ==
  \/ \E t \in Task : task[t].pc \in Awaiting
  \/ Queued("JobsArrived") # {}

Phase ==
  IF dropped THEN "stopped"
  ELSE IF ~request_in_progress THEN "idle"
  ELSE IF ArrivalsOpen THEN "open" ELSE "settled"

Cycle == INSTANCE FetchCycle WITH counted <- remaining, phase <- Phase

(* However messages and tasks interleave, the poller fetches in cycles:    *)
(* the jobs of a request are counted at most once, after it was opened and *)
(* before it is closed, within max_jobs_active; only a finished job lowers *)
(* the count; and no cycle is opened inside another one.                   *)
ImplementsFetchCycle == Cycle!Spec

(* ... and each cycle is settled and closed and the next one opened, even  *)
(* if the gateway never answers and no handler ever returns.               *)
ImplementsFairFetchCycle == Cycle!FairSpec

(***************************************************************************)
(* The inductive invariant: the properties above need each other, and the  *)
(* fact that nothing enters the queue of a dropped worker.                 *)
(***************************************************************************)
RequestInv ==
  /\ OneRequestAtATime
  /\ FlagTracksRequest
  /\ ArrivalPrecedesCompletion
  /\ BudgetRespected
  /\ dropped => poll_queue = << >>

IndInv == TypeOK /\ RequestInv

-----------------------------------------------------------------------------
(* Jobs that were announced but not yet counted, that a live task has sent *)
(* but not yet announced, and that left the dispatcher uncounted.          *)
Announced ==
  SumFunctionOnSet([i \in DOMAIN poll_queue |-> poll_queue[i].count],
                   Queued("JobsArrived"))
Unannounced ==
  SumFunctionOnSet([t \in Task |-> task[t].total - task[t].batch], LiveTasks)
Finished == Cardinality(Queued("JobFinished"))

(* Jobs the worker has and has not finished, the ones in a task's hand     *)
(* included.                                                               *)
InHand ==
  SumFunctionOnSet([t \in Task |-> task[t].batch], LiveTasks) + job_queue + handling

(* By how many jobs the poller's count, once all messages under way have   *)
(* reached it, exceeds the jobs that are left to finish.                   *)
Drift ==
  remaining + Announced + Unannounced
    - (job_queue + handling + reporting + Finished)

(* The two steps that make the poller lose count. *)
FinishedBeforeAnnounced == remaining = 0 /\ ReceiveJobFinished
TimesOutAfterSending(t) == task[t].total > task[t].batch /\ TimeOut(t)

(* The count is conserved by every step of every actor, with exactly two   *)
(* exceptions: a JobFinished that overtakes the JobsArrived of its job is  *)
(* swallowed by saturating_sub, and a request that times out after it has  *)
(* sent jobs never announces them.                                         *)
CountConserved ==
  [][ \/ Drift' = Drift
      \/ FinishedBeforeAnnounced /\ Drift' = Drift + 1
      \/ \E t \in Task : TimesOutAfterSending(t)
           /\ Drift' = Drift - (task[t].total - task[t].batch)
      \/ dropped' ]_vars

(* max_jobs_active bounds the jobs that are active at a time, except for   *)
(* what the poller has undercounted: only a request that timed out after   *)
(* it had sent jobs makes the worker hold more.                            *)
ActiveWithinBudget ==
  ~dropped => InHand + reporting + Finished + Drift <= MaxJobsActive

(* "Set the maximum jobs to activate at a time by the worker." *)
ActiveWithinMax == InHand <= MaxJobsActive

-----------------------------------------------------------------------------
(* A request always ends and the poller always hears of it, even if the    *)
(* gateway never answers and no handler ever returns.                      *)
RequestEnds == request_in_progress ~> (~request_in_progress \/ dropped)

(* An activation task never outlives a dropped worker for ever. *)
DroppedTaskEnds == dropped ~> (LiveTasks = {})

(* "fetching jobs either completed or failed, either way ready to fetch    *)
(* again": as long as handlers return, the poller is ready again and again.*)
ReadyToFetchAgain == []<>(should_activate_jobs \/ dropped)

(* A worker whose handlers return stops fetching for one reason only: it   *)
(* has swallowed so many JobFinished messages that its count stays above   *)
(* the threshold for ever, with no job left to bring it down.              *)
StarvesOnlyByOvercount ==
  HandlersReturn => ReadyToFetchAgain \/ <>[](Drift > Threshold /\ InHand = 0)
=============================================================================
