---------------------------- MODULE JobHandling ----------------------------
(***************************************************************************)
(* What becomes of a job that a worker with an auto handler takes from the *)
(* broker: with_auto_handler (src/src/worker/builder.rs), the extractors   *)
(* (src/src/worker/auto_handler), the dispatcher, and the complete_job and *)
(* fail_job commands (src/src/job.rs).                                     *)
(*                                                                         *)
(* JobWorker counts jobs and keeps the order of messages; this module      *)
(* leaves both out and keeps the identity of each job instead.  A copy of  *)
(* a job is one delivery of it to the worker: the broker hands a job out   *)
(* again when its timeout has passed, so that several copies of one job    *)
(* may be in the worker at a time, each with a client of its own.          *)
(*                                                                         *)
(* The broker is external: its actions follow the contract that            *)
(* src/proto/gateway.proto states for the calls of the client.             *)
(***************************************************************************)
EXTENDS FiniteSets

CONSTANTS
  Job,         \* the jobs of the worker's type
  Malformed,   \* the jobs with variables that do not deserialize
  StateType,   \* the types a worker's state may have
  Param,       \* the parameters of the handler: "Client", "Job", "Data", or
               \* State<T> for a T in StateType, written as T
  Copy,        \* identities for the copies that are in the worker at once
  NoJob        \* what a free copy is a copy of

ASSUME JobAssumption == Malformed \subseteq Job /\ NoJob \notin Job

VARIABLES
  state,      \* the broker's state of each job
  copy,       \* for each identity, where that copy is
  requests,   \* the commands on their way to the broker
  data,       \* the types of state that with_state has given the worker
  dropped,    \* has the future of run() been dropped?
  succeeded,  \* the jobs for which a handler has returned Ok    (history)
  failed,     \* the jobs for which it has returned Err, or its parameters
              \* could not be built                              (history)
  lost        \* the activated jobs of which the worker, or the network, has
              \* lost a copy or an answer                        (history)

brokerVars == <<state, requests>>
historyVars == <<succeeded, failed, lost>>
vars == <<state, copy, requests, data, dropped, succeeded, failed, lost>>

(***************************************************************************)
(* pc: free; arriving, in the hand of an activation task; queued for the   *)
(* dispatcher; handling, its handler runs; completing and failing, its     *)
(* handler has the result and sends the command; awaiting the response.    *)
(* `key' is current_job_key of the client the handler is given; `inTime'   *)
(* says that the activation of this copy has not timed out.                *)
(***************************************************************************)
InWorker == {"queued", "handling", "completing", "failing", "awaiting"}

CopyAt(pc, job, key, inTime) == [pc |-> pc, job |-> job, key |-> key, inTime |-> inTime]

FreeCopy == CopyAt("free", NoJob, NoJob, FALSE)

Request == [command : {"complete", "fail"}, key : Job]

Init ==
  /\ state = [j \in Job |-> "activatable"]
  /\ copy = [c \in Copy |-> FreeCopy]
  /\ requests = {} /\ dropped = FALSE
  /\ data \in SUBSET StateType
  /\ succeeded = {} /\ failed = {} /\ lost = {}

Move(c, pc) == copy' = [copy EXCEPT ![c] = CopyAt(pc, @.job, @.key, @.inTime)]

Free(c) == copy' = [copy EXCEPT ![c] = FreeCopy]

(* The jobs that are lost with these copies: those of which they are current. *)
LostWith(C) == {copy[c].job : c \in {d \in C : copy[d].inTime}}

(***************************************************************************)
(* The parameters of the handler are built from its clone of the client,   *)
(* which carries the worker's state, and from the job: all of them, or the *)
(* handler is not called.                                                  *)
(***************************************************************************)
Extracts(p, j) ==
  /\ p = "Data" => j \notin Malformed
  /\ p \in StateType => p \in data

from_job(j) == \A p \in Param : Extracts(p, j)

-----------------------------------------------------------------------------
(***************************************************************************)
(* The broker.                                                             *)
(***************************************************************************)

(* ActivateJobs streams the job to an activation task of the worker, which *)
(* outlives the worker that is dropped.                                    *)
Activate(c, j) ==
  /\ state[j] = "activatable" /\ copy[c].pc = "free"
  /\ state' = [state EXCEPT ![j] = "activated"]
  /\ copy' = [copy EXCEPT ![c] = CopyAt("arriving", j, NoJob, TRUE)]
  /\ lost' = lost \ {j}
  /\ UNCHANGED <<requests, data, dropped, succeeded, failed>>

(* The job was not answered within its timeout: it can be handed out again. *)
JobTimesOut(j) ==
  /\ state[j] = "activated"
  /\ state' = [state EXCEPT ![j] = "activatable"]
  /\ copy' = [c \in Copy |->
       IF copy[c].job = j THEN CopyAt(copy[c].pc, j, copy[c].key, FALSE) ELSE copy[c]]
  /\ UNCHANGED <<requests, data, dropped, historyVars>>

(* A job is completed by its key, whoever it is activated for.             *)
ProcessComplete(j) ==
  /\ [command |-> "complete", key |-> j] \in requests
  /\ requests' = requests \ {[command |-> "complete", key |-> j]}
  /\ state' = IF state[j] \in {"activatable", "activated"}
                THEN [state EXCEPT ![j] = "completed"] ELSE state
  /\ UNCHANGED <<copy, data, dropped, historyVars>>

(* FailJob with retries = 0 raises an incident; the job must be activated. *)
ProcessFail(j) ==
  /\ [command |-> "fail", key |-> j] \in requests
  /\ requests' = requests \ {[command |-> "fail", key |-> j]}
  /\ state' = IF state[j] = "activated"
                THEN [state EXCEPT ![j] = "incident"] ELSE state
  /\ UNCHANGED <<copy, data, dropped, historyVars>>

(* A command does not reach the broker: the interceptor denies it, or the  *)
(* network loses it.  The handler does not look at the error.              *)
LoseRequest(r) ==
  /\ r \in requests
  /\ requests' = requests \ {r}
  /\ lost' = lost \cup {r.key}
  /\ UNCHANGED <<state, copy, data, dropped, succeeded, failed>>

Broker ==
  \/ \E c \in Copy, j \in Job : Activate(c, j)
  \/ \E j \in Job : JobTimesOut(j) \/ ProcessComplete(j) \/ ProcessFail(j)
  \/ \E r \in requests : LoseRequest(r)

-----------------------------------------------------------------------------
(***************************************************************************)
(* The worker.                                                             *)
(***************************************************************************)

(* The activation task sends the job to the dispatcher.                    *)
Enqueue(c) ==
  /\ ~dropped /\ copy[c].pc = "arriving"
  /\ Move(c, "queued")
  /\ UNCHANGED <<brokerVars, data, dropped, historyVars>>

(* The activation task times out, or finds the dispatcher dropped.         *)
LoseInTask(c) ==
  /\ copy[c].pc = "arriving"
  /\ Free(c)
  /\ lost' = lost \cup LostWith({c})
  /\ UNCHANGED <<brokerVars, data, dropped, succeeded, failed>>

(* Mutants of Dispatch: the client is not told the job's key; all handlers *)
(* share one client and its job key; a job whose parameters cannot be      *)
(* built is only logged.                                                   *)
DispatchForgetsKey(c) ==
  /\ copy[c].pc = "queued"
  /\ Move(c, IF ~from_job(copy[c].job) THEN "failing" ELSE "handling")
  /\ failed' = IF ~from_job(copy[c].job) THEN failed \cup {copy[c].job} ELSE failed
  /\ UNCHANGED <<brokerVars, data, dropped, succeeded, lost>>
DispatchSharedClient(c) ==
  /\ copy[c].pc = "queued"
  /\ copy' = [d \in Copy |->
       IF d = c
         THEN CopyAt(IF ~from_job(copy[c].job) THEN "failing" ELSE "handling",
                     copy[c].job, copy[c].job, copy[c].inTime)
       ELSE IF copy[d].pc \in InWorker
         THEN CopyAt(copy[d].pc, copy[d].job, copy[c].job, copy[d].inTime)
       ELSE copy[d]]
  /\ failed' = IF ~from_job(copy[c].job) THEN failed \cup {copy[c].job} ELSE failed
  /\ UNCHANGED <<brokerVars, data, dropped, succeeded, lost>>
DispatchLogsOnly(c) ==
  /\ copy[c].pc = "queued"
  /\ IF ~from_job(copy[c].job)
       THEN Free(c) /\ failed' = failed \cup {copy[c].job}
       ELSE /\ copy' = [copy EXCEPT ![c] =
                          CopyAt("handling", @.job, @.job, @.inTime)]
            /\ UNCHANGED failed
  /\ UNCHANGED <<brokerVars, data, dropped, succeeded, lost>>

(***************************************************************************)
(* The dispatcher clones the client, sets its job key and calls the auto   *)
(* handler, which builds the parameters before it calls the user's code.   *)
(***************************************************************************)
Dispatch(c) ==
  /\ copy[c].pc = "queued"
  /\ \/ /\ from_job(copy[c].job)
        /\ copy' = [copy EXCEPT ![c] = CopyAt("handling", @.job, @.job, @.inTime)]
        /\ UNCHANGED failed
     \/ /\ ~from_job(copy[c].job)
        /\ copy' = [copy EXCEPT ![c] = CopyAt("failing", @.job, @.job, @.inTime)]
        /\ failed' = failed \cup {copy[c].job}
  /\ UNCHANGED <<brokerVars, data, dropped, succeeded, lost>>

HandlerReturns(c) ==
  /\ copy[c].pc = "handling"
  /\ \/ /\ Move(c, "completing")
        /\ succeeded' = succeeded \cup {copy[c].job} /\ UNCHANGED failed
     \/ /\ Move(c, "failing")
        /\ failed' = failed \cup {copy[c].job} /\ UNCHANGED succeeded
  /\ UNCHANGED <<brokerVars, data, dropped, lost>>

(* complete_job and fail_job fall back on the key of their client.         *)
SendResult(c) ==
  /\ copy[c].pc \in {"completing", "failing"}
  /\ requests' = requests \cup
       {[command |-> IF copy[c].pc = "completing" THEN "complete" ELSE "fail",
         key |-> copy[c].key]}
  /\ Move(c, "awaiting")
  /\ UNCHANGED <<state, data, dropped, historyVars>>

(* A response, an error or the timeout of the call: all are ignored.       *)
Answered(c) ==
  /\ copy[c].pc = "awaiting"
  /\ Free(c)
  /\ UNCHANGED <<brokerVars, data, dropped, historyVars>>

Drop ==
  /\ ~dropped
  /\ dropped' = TRUE
  /\ copy' = [c \in Copy |-> IF copy[c].pc \in InWorker THEN FreeCopy ELSE copy[c]]
  /\ lost' = lost \cup LostWith({c \in Copy : copy[c].pc \in InWorker})
  /\ UNCHANGED <<brokerVars, data, succeeded, failed>>

WorkerStep(c) ==
  Enqueue(c) \/ LoseInTask(c) \/ Dispatch(c) \/ HandlerReturns(c)
    \/ SendResult(c) \/ Answered(c)

Next == Broker \/ (\E c \in Copy : WorkerStep(c)) \/ Drop

Spec == Init /\ [][Next]_vars

(***************************************************************************)
(* Until the worker is dropped its futures are polled, handlers return,    *)
(* and it keeps asking for jobs, which the broker then hands out; a job    *)
(* times out in any case.  Of the deliveries and commands of a job not all *)
(* are lost.                                                               *)
(***************************************************************************)
FairSpec ==
  /\ Spec
  /\ \A c \in Copy :
       WF_vars(Dispatch(c) \/ HandlerReturns(c) \/ SendResult(c) \/ Answered(c))
  /\ \A j \in Job :
       /\ SF_vars(~dropped /\ \E c \in Copy : Activate(c, j))
       /\ SF_vars(\E c \in Copy : copy[c].job = j /\ Enqueue(c))
       /\ WF_vars(JobTimesOut(j))
       /\ SF_vars(ProcessComplete(j) \/ ProcessFail(j))

-----------------------------------------------------------------------------
(* Every variable has its type.                                            *)
TypeOK ==
  /\ state \in [Job -> {"activatable", "activated", "completed", "incident"}]
  /\ copy \in [Copy -> [pc : {"free", "arriving"} \cup InWorker,
                        job : Job \cup {NoJob}, key : Job \cup {NoJob},
                        inTime : BOOLEAN]]
  /\ requests \subseteq Request
  /\ data \subseteq StateType /\ dropped \in BOOLEAN
  /\ succeeded \subseteq Job /\ failed \subseteq Job /\ lost \subseteq Job

(* The broker completes a job only if a handler has returned Ok for that   *)
(* very job, and raises an incident only if one has failed for it, however *)
(* many handlers run at the same time.                                     *)
OutcomeJustified ==
  /\ \A j \in Job : state[j] = "completed" => j \in succeeded
  /\ \A j \in Job : state[j] = "incident" => j \in failed

(* A job that the broker takes for activated is in the worker in time, or  *)
(* its answer is on the way, unless a copy or an answer of it was lost     *)
(* (timeout of the activation, drop, network): nothing is swallowed.       *)
NothingSwallowed ==
  \A j \in Job : state[j] = "activated" =>
    \/ j \in lost
    \/ \E c \in Copy : copy[c].job = j /\ copy[c].inTime
    \/ \E r \in requests : r.key = j

(***************************************************************************)
(* What the two invariants above rest on, step by step: who holds a key,   *)
(* why a command was sent, and where the answer of a finished copy is.     *)
(***************************************************************************)
Started == {"handling", "completing", "failing", "awaiting"}

KeyOfOwnJob == \A c \in Copy :
  /\ copy[c].inTime => copy[c].pc # "free"
  /\ copy[c].pc # "free" => copy[c].job \in Job
  /\ copy[c].pc \in Started => copy[c].key = copy[c].job

CommandJustified ==
  /\ \A c \in Copy :
       /\ copy[c].pc = "completing" => copy[c].job \in succeeded
       /\ copy[c].pc = "failing" => copy[c].job \in failed
  /\ \A r \in requests :
       /\ r.command = "complete" => r.key \in succeeded
       /\ r.command = "fail" => r.key \in failed

InTimeIsCurrent == \A c \in Copy :
  copy[c].inTime => state[copy[c].job] # "activatable"

AnswerUnderWay == \A c \in Copy :
  /\ copy[c].pc = "awaiting" /\ copy[c].inTime
  /\ state[copy[c].job] = "activated" /\ copy[c].job \notin lost
  => \E r \in requests : r.key = copy[c].job

TypeInv == TypeOK /\ KeyOfOwnJob

OutcomeInv == TypeInv /\ CommandJustified /\ OutcomeJustified

SwallowInv == TypeInv /\ InTimeIsCurrent /\ AnswerUnderWay /\ NothingSwallowed

(* A job times out although the worker holds it or its answer is on the way. *)
TimesOutInHand(j) ==
  /\ JobTimesOut(j)
  /\ \/ \E c \in Copy : copy[c].job = j /\ copy[c].inTime
     \/ \E r \in requests : r.key = j

(* Every job ends, completed or with an incident, even if copies and       *)
(* answers are lost and whatever its handler returns, provided that the    *)
(* worker is not dropped and that from some point on the timeout of the    *)
(* job is long enough for it.                                              *)
EveryJobEnds ==
  []~dropped /\ <>[][\A j \in Job : ~TimesOutInHand(j)]_vars =>
    \A j \in Job : <>(state[j] \in {"completed", "incident"})
=============================================================================
