------------------------------ MODULE Commands ------------------------------
(***************************************************************************)
(* The commands a client can send to the gateway: their builders, what a   *)
(* builder must have been given before it can be sent, and the request it  *)
(* becomes (src/src/job.rs, process.rs, util.rs, topology.rs).             *)
(*                                                                         *)
(* A builder is a function from the fields of its command to what the      *)
(* setters have put there.  Texts and JSON documents are members of a      *)
(* small set; numbers keep their width, scaled down to Width bits.         *)
(***************************************************************************)
EXTENDS Integers, Sequences

CONSTANTS
  Width,    \* the bits of u32 and i32, u64 and i64
  Text,     \* texts and JSON documents other than the empty ones
  Key,      \* the keys of jobs, processes, instances and incidents
  File,     \* paths of resource files
  NoValue,  \* None, in a builder
  Empty     \* the empty text, list or document, in a request

(* What the sign bit of an i32 or an i64 counts for.                       *)
SignBit == 2^(Width - 1)

(* The second part follows from the first one, for readers that do not     *)
(* know powers.                                                            *)
ASSUME WidthAssumption == Width \in Nat \ {0} /\ SignBit \in Nat \ {0}

Unsigned == 0..(2 * SignBit - 1)
Signed == (-SignBit)..(SignBit - 1)

(* Mutant of AsSigned: the number goes out as it is. *)
AsItIs(n) == n

(* `n as i32', `n as i64'                                                  *)
AsSigned(n) == IF n < SignBit THEN n ELSE n - 2 * SignBit

LatestVersion == -1

(* None is no value that a request can carry.                              *)
ASSUME NoValueAssumption ==
  /\ NoValue \notin Signed /\ NoValue # LatestVersion
  /\ NoValue # Empty /\ NoValue # FALSE /\ NoValue # <<>>

-----------------------------------------------------------------------------
(***************************************************************************)
(* A command: the fields of its request with their defaults, and sets of   *)
(* fields of each of which send() demands at least one.                    *)
(***************************************************************************)
Command(required, default) == [required |-> required, default |-> default]

CompleteJob == Command({{"job_key"}}, [job_key |-> NoValue, variables |-> Empty])

FailJob ==
  Command({{"job_key"}}, [job_key |-> NoValue, retries |-> 0, error_message |-> Empty])

ThrowError ==
  Command({{"job_key"}},
          [job_key |-> NoValue, error_code |-> Empty, error_message |-> Empty])

UpdateJobRetries ==
  Command({{"job_key"}, {"retries"}}, [job_key |-> NoValue, retries |-> 0])

CreateProcessInstance ==
  Command({{"process_definition_key", "bpmn_process_id"}},
          [process_definition_key |-> 0, bpmn_process_id |-> Empty,
           version |-> LatestVersion, variables |-> Empty])

CreateProcessInstanceWithResult ==
  Command({{"process_definition_key", "bpmn_process_id"}},
          [process_definition_key |-> 0, bpmn_process_id |-> Empty,
           version |-> LatestVersion, variables |-> Empty,
           request_timeout |-> 0, fetch_variables |-> Empty])

CancelProcessInstance ==
  Command({{"process_instance_key"}}, [process_instance_key |-> NoValue])

SetVariables ==
  Command({{"element_instance_key"}},
          [element_instance_key |-> NoValue, variables |-> Empty, local |-> FALSE])

PublishMessage ==
  Command({{"name"}},
          [name |-> NoValue, correlation_key |-> Empty, time_to_live |-> 0,
           message_id |-> Empty, variables |-> Empty])

ResolveIncident == Command({{"incident_key"}}, [incident_key |-> NoValue])

DeployProcess == Command({}, [resource_files |-> <<>>])

Topology == Command({}, [f \in {} |-> Empty])

CommandOf ==
  [complete_job |-> CompleteJob, fail_job |-> FailJob, throw_error |-> ThrowError,
   update_job_retries |-> UpdateJobRetries,
   create_process_instance |-> CreateProcessInstance,
   create_process_instance_with_result |-> CreateProcessInstanceWithResult,
   cancel_process_instance |-> CancelProcessInstance, set_variables |-> SetVariables,
   publish_message |-> PublishMessage, resolve_incident |-> ResolveIncident,
   deploy_process |-> DeployProcess, topology |-> Topology]

FieldsOf(command) == DOMAIN CommandOf[command].default

-----------------------------------------------------------------------------
NumberFields == {"retries", "time_to_live", "request_timeout"}

KeyFields ==
  {"job_key", "process_definition_key", "process_instance_key",
   "element_instance_key", "incident_key"}

(* What the setters of a field take; a list of files has at most two.      *)
SetterValues(field) ==
  CASE field \in NumberFields -> Unsigned
    [] field \in KeyFields -> Key
    [] field = "version" -> {LatestVersion, 1}
    [] field = "local" -> BOOLEAN
    [] field = "resource_files" -> {<<f>> : f \in File} \cup (File \X File)
    [] OTHER -> Text

NewBuilder(command) == [field \in FieldsOf(command) |-> NoValue]

(* Each setter replaces what was there.                                    *)
With(builder, field, value) == [builder EXCEPT ![field] = value]

(* The key of a job command is its own, or that of the client's job.       *)
IsGiven(builder, field, current_job_key) ==
  \/ builder[field] # NoValue
  \/ field = "job_key" /\ current_job_key # NoValue

(* Mutant of IsSendable: nothing is demanded. *)
SendableAnyway(command, builder, current_job_key) == TRUE

IsSendable(command, builder, current_job_key) ==
  \A fields \in CommandOf[command].required :
    \E field \in fields : IsGiven(builder, field, current_job_key)

(* Mutant of JobKeyOf: current_job_key.or(job_key). *)
ClientKeyFirst(builder, current_job_key) ==
  IF current_job_key # NoValue THEN current_job_key ELSE builder.job_key

(* job_key.or(current_job_key)                                             *)
JobKeyOf(builder, current_job_key) ==
  IF builder.job_key # NoValue THEN builder.job_key ELSE current_job_key

RequestOf(command, builder, current_job_key) ==
  [field \in FieldsOf(command) |->
     IF field = "job_key" THEN JobKeyOf(builder, current_job_key)
     ELSE IF builder[field] = NoValue THEN CommandOf[command].default[field]
     ELSE IF field \in NumberFields THEN AsSigned(builder[field])
     ELSE builder[field]]
=============================================================================
