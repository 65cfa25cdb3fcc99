----------------------------- MODULE FetchCycle -----------------------------
(***************************************************************************)
(* What the poller of a job worker promises, without queues, messages or   *)
(* tasks: it fetches in cycles.  A cycle is opened when few jobs are       *)
(* counted, is settled once, when its jobs are counted or given up, and is *)
(* closed before the next one is opened.  JobWorker implements it, see     *)
(* ImplementsFetchCycle there.                                             *)
(***************************************************************************)
EXTENDS Naturals

CONSTANTS
  MaxJobsActive,  \* with_max_jobs_active
  Threshold       \* a cycle is opened at this count or below it

VARIABLES
  counted,     \* the jobs that the poller counts
  phase        \* "idle", "open", "settled"; "stopped" once run() is dropped

cycleVars == <<counted, phase>>

Init == counted = 0 /\ phase = "idle"

Open ==
  /\ phase = "idle" /\ counted <= Threshold
  /\ phase' = "open"
  /\ UNCHANGED counted

(* The one step of a cycle that adds to the count: never above the         *)
(* maximum, and by 0 for a request that failed or timed out.               *)
Settle ==
  /\ phase = "open"
  /\ phase' = "settled"
  /\ \E k \in 0..(MaxJobsActive - counted) : counted' = counted + k

Close ==
  /\ phase = "settled"
  /\ phase' = "idle"
  /\ UNCHANGED counted

(* A job is finished, at any point of a cycle.                             *)
Finish ==
  /\ phase # "stopped" /\ counted > 0
  /\ counted' = counted - 1
  /\ UNCHANGED phase

Stop ==
  /\ phase # "stopped"
  /\ phase' = "stopped"
  /\ UNCHANGED counted

Next == Open \/ Settle \/ Close \/ Finish \/ Stop

Spec == Init /\ [][Next]_cycleVars

(* A cycle that can be opened, settled or closed is, whatever the gateway  *)
(* and the handlers do.                                                    *)
FairSpec ==
  /\ Spec
  /\ WF_cycleVars(Open) /\ WF_cycleVars(Settle) /\ WF_cycleVars(Close)
=============================================================================
