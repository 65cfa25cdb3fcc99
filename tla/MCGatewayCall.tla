---------------------------- MODULE MCGatewayCall ----------------------------
(***************************************************************************)
(* Instances of GatewayCall for TLC.                                       *)
(***************************************************************************)
EXTENDS GatewayCall, FiniteSets

CONSTANTS handler, outside, k1, k2

(* One caller is a job handler, the other one is not. *)
TwoCallers == {handler, outside}
MCKeys == [c \in Caller |-> IF c = handler THEN k1 ELSE NoValue]
OneOutside == {outside}
OneHandler == {handler}

MCKey == {k1, k2}

AllCommands == DOMAIN CommandOf
DeployAndComplete == {"deploy_process", "complete_job"}
(* One of the callers makes its call, the other one none: for the run that *)
(* asks what requests carry, and not how calls interleave.                 *)
OneCaller == Cardinality({c \in Caller : call[c] # NoCall \/ outcome[c] # <<>>}) <= 1

RetriesCommands == {"fail_job", "update_job_retries"}
=============================================================================
