--------------------------- MODULE JobDispatcher ---------------------------
(***************************************************************************)
(* The dispatcher of a job worker (src/src/worker/job_dispatcher.rs):      *)
(* for_each_concurrent over the job queue.  Every job it takes becomes a   *)
(* future that runs the handler and then tells the poller; the future      *)
(* occupies one of the `concurrency' places until that message is sent.    *)
(***************************************************************************)
EXTENDS WorkerChannels

CONSTANT Concurrency     \* with_concurrency; 0 means no limit

ASSUME ConcurrencyAssumption == Concurrency \in Nat

VARIABLES
  handling,   \* number of futures that await the handler
  reporting   \* number of futures that await room for JobFinished

dispatcherVars == <<handling, reporting>>

DispatcherInit == handling = 0 /\ reporting = 0

(* The limit of for_each_concurrent, which takes 0 for "no limit". *)
HasFreePlace == Concurrency > 0 => handling + reporting < Concurrency

Dispatch ==
  /\ ~dropped
  /\ job_queue > 0
  /\ HasFreePlace
  /\ job_queue' = job_queue - 1
  /\ handling' = handling + 1
  /\ UNCHANGED <<poll_queue, dropped, reporting>>

(* The handler is user code: its future resolves, or never does. *)
HandlerReturns ==
  /\ ~dropped
  /\ handling > 0
  /\ handling' = handling - 1
  /\ reporting' = reporting + 1
  /\ UNCHANGED <<job_queue, poll_queue, dropped>>

ReportJobFinished ==
  /\ ~dropped
  /\ reporting > 0
  /\ SendMessage(JobFinished)
  /\ reporting' = reporting - 1
  /\ UNCHANGED <<job_queue, dropped, handling>>

DispatcherStep == Dispatch \/ HandlerReturns \/ ReportJobFinished

DispatcherTypeOK ==
  /\ handling \in Nat
  /\ reporting \in Nat
  /\ Concurrency > 0 => handling + reporting <= Concurrency
=============================================================================
