-------------------------- MODULE JobWorkerBuilder --------------------------
(***************************************************************************)
(* JobWorkerBuilder (src/src/worker/builder.rs): the settings that decide  *)
(* how a worker runs, and run(), which refuses them, panics, or starts.    *)
(*                                                                         *)
(* Numbers of jobs have Width bits.  Setters that only store a value which *)
(* no property looks at (name, job timeout, variables) are left out.       *)
(***************************************************************************)
EXTENDS Integers

CONSTANTS
  Width,                 \* bits of an integer: 32
  DefaultMaxJobsActive,  \* DEFAULT_JOB_WORKER_MAX_JOB_ACTIVE
  DefaultRequestTimeout, \* DEFAULT_REQUEST_TIMEOUT: 10 s
  RequestTimeoutOffset,  \* REQUEST_TIMEOUT_OFFSET: 10 s
  AskedTimeouts          \* what with_request_timeout may be called with

(* What the sign bit of an i32 counts for.                                 *)
SignBit == 2^(Width - 1)

Unsigned == 0..(2 * SignBit - 1)
Signed == (-SignBit)..(SignBit - 1)

ASSUME BuilderAssumption ==
  /\ Width \in Nat \ {0}
  /\ DefaultMaxJobsActive \in Unsigned
  /\ DefaultRequestTimeout \in Nat /\ RequestTimeoutOffset \in Nat
  /\ AskedTimeouts \subseteq Nat

VARIABLES
  builder,   \* the fields of the builder
  asked,     \* the max_jobs_active that was last asked for       (history)
  outcome    \* of run(): "building", "invalid", "panicked" or "running"

builderVars == <<builder, asked, outcome>>

(* `as i32' of a u32, and `as usize' or `as u32' of an i32. *)
AsI32(n) == IF n < SignBit THEN n ELSE n - 2 * SignBit
AsU32(n) == IF n < 0 THEN n + 2 * SignBit ELSE n

(* JobWorkerBuilder::new *)
NewBuilder ==
  [job_type |-> FALSE, handler |-> FALSE,
   max_jobs_to_activate |-> AsI32(DefaultMaxJobsActive),
   request_timeout |-> DefaultRequestTimeout + RequestTimeoutOffset]

BuilderInit ==
  /\ builder = NewBuilder
  /\ asked = DefaultMaxJobsActive
  /\ outcome = "building"

-----------------------------------------------------------------------------
Building == outcome = "building" /\ UNCHANGED outcome

(* The type may be the empty string, which run() takes for none. *)
with_job_type ==
  /\ Building
  /\ \E given \in BOOLEAN : builder' = [builder EXCEPT !.job_type = given]
  /\ UNCHANGED asked

with_handler ==
  /\ Building
  /\ builder' = [builder EXCEPT !.handler = TRUE]
  /\ UNCHANGED asked

with_max_jobs_active ==
  /\ Building
  /\ \E n \in Unsigned :
       /\ builder' = [builder EXCEPT !.max_jobs_to_activate = AsI32(n)]
       /\ asked' = n

(* The request_timeout of the request is set here, too, but the poller     *)
(* overwrites it before the first request.                                 *)
with_request_timeout ==
  /\ Building
  /\ \E d \in AskedTimeouts :
       builder' = [builder EXCEPT !.request_timeout = d + RequestTimeoutOffset]
  /\ UNCHANGED asked

IsComplete == builder.job_type /\ builder.handler

(* mpsc::channel panics without capacity; a negative i32 is too large a    *)
(* usize.                                                                  *)
CanBeCapacity(n) == n > 0

(* Mutant of run: a queue that can always be created. *)
RunWithQueueForOne ==
  /\ outcome = "building"
  /\ outcome' = IF IsComplete THEN "running" ELSE "invalid"
  /\ UNCHANGED <<builder, asked>>

run ==
  /\ outcome = "building"
  /\ outcome' = IF ~IsComplete THEN "invalid"
                ELSE IF CanBeCapacity(builder.max_jobs_to_activate) THEN "running"
                ELSE "panicked"
  /\ UNCHANGED <<builder, asked>>

BuilderNext ==
  with_job_type \/ with_handler \/ with_max_jobs_active \/ with_request_timeout \/ run

(* What JobPoller's max_jobs_active is of a worker that runs. *)
MaxJobsActiveOfPoller == AsU32(builder.max_jobs_to_activate)

-----------------------------------------------------------------------------
BuilderTypeOK ==
  /\ builder \in [job_type : BOOLEAN, handler : BOOLEAN,
                  max_jobs_to_activate : Signed, request_timeout : Nat]
  /\ asked \in Unsigned
  /\ outcome \in {"building", "invalid", "panicked", "running"}

(* A worker that runs has a job type and a handler, and the casts from u32 *)
(* to i32 and back leave it with the max_jobs_active that was asked for,   *)
(* which is the capacity of its queue and the size of its first request:   *)
(* what does not survive them never gets as far as a request.              *)
RunsAsAsked ==
  outcome = "running" =>
    /\ builder.job_type /\ builder.handler
    /\ MaxJobsActiveOfPoller = asked
    /\ AsI32(MaxJobsActiveOfPoller) > 0

(* The inductive invariant: the field is always what was asked for, cast,  *)
(* and only settings with which a worker can run get past run().           *)
BuilderInv ==
  /\ BuilderTypeOK
  /\ builder.max_jobs_to_activate = AsI32(asked)
  /\ outcome = "running" => IsComplete /\ CanBeCapacity(builder.max_jobs_to_activate)
=============================================================================
