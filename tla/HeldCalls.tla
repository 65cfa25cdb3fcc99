----------------------------- MODULE HeldCalls -----------------------------
(***************************************************************************)
(* Calls that the gateway holds until it has something to say: the long    *)
(* polling of a worker, ActivateJobs, and a process instance that is       *)
(* created with its result.  How long the gateway holds the call, how long *)
(* the worker's task waits and how long the channel waits are set in three *)
(* places; this module runs them in one time.                              *)
(*                                                                         *)
(* Time is discrete.  A message to or from the gateway takes 0 to Latency. *)
(* The timeout of the channel covers a call until the headers of its       *)
(* response, which the gateway sends with the first message; JobPoller and *)
(* GatewayCall say what a task or a caller does with the outcome.          *)
(***************************************************************************)
EXTENDS JobWorkerBuilder

CONSTANTS
  ChannelTimeout,      \* DEFAULT_REQUEST_TIMEOUT of the channel: 15 s
  LongPollingMax,      \* LONG_POLLING_MAX_DURATION: 10 s
  ResultTimeouts,      \* request_timeout of CreateProcessInstanceWithResult
  GatewayTimeout,      \* what the gateway takes for a request_timeout of 0
  Latency              \* of a message; the only number not in the code

ASSUME HeldAssumption ==
  /\ ChannelTimeout \in Nat \ {0} /\ LongPollingMax \in Nat
  /\ ResultTimeouts \subseteq Nat /\ GatewayTimeout \in Nat
  /\ Latency \in Nat /\ Latency < ChannelTimeout
  /\ Latency < RequestTimeoutOffset

VARIABLES
  method,      \* of the call: "activate_jobs", "with_result", or "none" yet
  pc,          \* the client: "none", "waiting", "answered" or "gaveup"
  age,         \* time since the call was sent
  limit,       \* the timeout around the call
  hold,        \* requestTimeout of the request
  gate,        \* the gateway: "none", "holding" or "done"
  held,        \* how long it has been holding the call
  toGateway,   \* the message on its way to the gateway
  toClient,    \* the message on its way to the client
  handedAt,    \* the age at which the gateway handed out jobs or a result,
               \* or Never                                        (history)
  endedAt      \* the age at which the call ended for the client  (history)

sentVars == <<method, limit, hold>>
clientVars == <<pc, endedAt>>
gatewayVars == <<gate, held, handedAt>>
wireVars == <<toGateway, toClient>>
callVars == <<sentVars, clientVars, gatewayVars, wireVars, age>>
vars == <<builderVars, callVars>>

Never == -1

Message(what, since) == [what |-> what, since |-> since]
Nothing == Message("none", 0)

Init ==
  /\ BuilderInit
  /\ method = "none" /\ limit = 0 /\ hold = 0
  /\ pc = "none" /\ age = 0
  /\ gate = "none" /\ held = 0
  /\ toGateway = Nothing /\ toClient = Nothing
  /\ handedAt = Never /\ endedAt = Never

Lesser(a, b) == IF a <= b THEN a ELSE b

(* Mutant of get_long_polling_millis: polls as long as the task waits. *)
PollToTheEnd(timeout) == timeout

(* The timeout less a tenth of it, at most LongPollingMax, and floored.    *)
get_long_polling_millis(timeout) ==
  timeout - Lesser(timeout - (9 * timeout) \div 10, LongPollingMax)

-----------------------------------------------------------------------------
(***************************************************************************)
(* The client.                                                             *)
(***************************************************************************)
SendRequest ==
  /\ pc' = "waiting"
  /\ toGateway' = Message("request", 0)
  /\ UNCHANGED <<age, gatewayVars, toClient, endedAt, builderVars>>

(* JobPoller::activate_jobs, of a worker that runs. *)
activate_jobs ==
  /\ pc = "none" /\ outcome = "running"
  /\ method' = "activate_jobs"
  /\ hold' = get_long_polling_millis(builder.request_timeout)
  /\ limit' = builder.request_timeout
  /\ SendRequest

(* CreateProcessInstanceWithResultBuilder::send: only the channel limits   *)
(* the call.                                                               *)
create_process_instance_with_result ==
  /\ pc = "none"
  /\ method' = "with_result"
  /\ \E d \in ResultTimeouts : hold' = IF d = 0 THEN GatewayTimeout ELSE d
  /\ limit' = ChannelTimeout
  /\ SendRequest

ReceiveAnswer ==
  /\ toClient.what # "none"
  /\ toClient' = Nothing
  /\ \/ /\ pc = "waiting"
        /\ pc' = "answered" /\ endedAt' = age
     \/ /\ pc = "gaveup"
        /\ UNCHANGED <<pc, endedAt>>
  /\ UNCHANGED <<age, sentVars, gatewayVars, toGateway, builderVars>>

(* Mutant of GiveUp: the gateway is not told. *)
GiveUpSilently ==
  /\ pc = "waiting" /\ age >= Lesser(limit, ChannelTimeout)
  /\ pc' = "gaveup" /\ endedAt' = age
  /\ UNCHANGED <<age, sentVars, gatewayVars, wireVars, builderVars>>

(* timeout(request_timeout, ...) or the timeout of the channel: the future *)
(* of the call is dropped, which resets its stream.                        *)
GiveUp ==
  /\ pc = "waiting" /\ age >= Lesser(limit, ChannelTimeout)
  /\ pc' = "gaveup" /\ endedAt' = age
  /\ toGateway' = Message("cancel", 0)
  /\ UNCHANGED <<age, sentVars, gatewayVars, toClient, builderVars>>

-----------------------------------------------------------------------------
(***************************************************************************)
(* The gateway, as src/proto/gateway.proto describes it.                   *)
(***************************************************************************)
AcceptRequest ==
  /\ toGateway.what = "request"
  /\ toGateway' = Nothing
  /\ gate' = "holding"
  /\ UNCHANGED <<age, sentVars, clientVars, held, handedAt, toClient, builderVars>>

(* At least one job is activated, or the process has completed. *)
HandOut ==
  /\ gate = "holding"
  /\ gate' = "done"
  /\ toClient' = Message("jobs", 0)
  /\ handedAt' = age
  /\ UNCHANGED <<age, sentVars, clientVars, held, toGateway, builderVars>>

(* "... or after the requestTimeout" *)
CompleteEmpty ==
  /\ gate = "holding" /\ held >= hold
  /\ gate' = "done"
  /\ toClient' = Message("empty", 0)
  /\ UNCHANGED <<age, sentVars, clientVars, held, handedAt, toGateway, builderVars>>

AcceptCancel ==
  /\ toGateway.what = "cancel"
  /\ toGateway' = Nothing
  /\ gate' = "done"
  /\ UNCHANGED <<age, sentVars, clientVars, held, handedAt, toClient, builderVars>>

-----------------------------------------------------------------------------
(* Nothing is overdue: timers fire, messages arrive, the gateway answers.  *)
Older(m) == IF m.what = "none" THEN m ELSE Message(m.what, m.since + 1)

Elapse ==
  /\ pc = "waiting" \/ gate = "holding" \/ toGateway.what # "none" \/ toClient.what # "none"
  /\ pc = "waiting" => age < Lesser(limit, ChannelTimeout)
  /\ toGateway.what # "none" => toGateway.since < Latency
  /\ toClient.what # "none" => toClient.since < Latency
  /\ gate = "holding" => held < hold
  /\ age' = age + 1
  /\ held' = IF gate = "holding" THEN held + 1 ELSE held
  /\ toGateway' = Older(toGateway) /\ toClient' = Older(toClient)
  /\ UNCHANGED <<sentVars, clientVars, gate, handedAt, builderVars>>

CallNext ==
  \/ activate_jobs \/ create_process_instance_with_result
  \/ ReceiveAnswer \/ GiveUp
  \/ AcceptRequest \/ HandOut \/ CompleteEmpty \/ AcceptCancel
  \/ Elapse

Next ==
  \/ BuilderNext /\ UNCHANGED callVars
  \/ CallNext

Spec == Init /\ [][Next]_vars

-----------------------------------------------------------------------------
(* Every variable has its type; nothing of a call is under way for longer  *)
(* than the channel's timeout, the latency of its cancellation and that of *)
(* an answer that crosses it.                                              *)
TypeOK ==
  /\ BuilderTypeOK
  /\ pc \in {"none", "waiting", "answered", "gaveup"}
  /\ method \in {"none", "activate_jobs", "with_result"}
  /\ age \in 0..(ChannelTimeout + 2 * Latency)
  /\ limit \in Nat /\ hold \in Nat
  /\ gate \in {"none", "holding", "done"} /\ held \in 0..hold
  /\ toGateway \in [what : {"none", "request", "cancel"}, since : 0..Latency]
  /\ toClient \in [what : {"none", "jobs", "empty"}, since : 0..Latency]
  /\ handedAt \in 0..age \cup {Never} /\ endedAt \in 0..age \cup {Never}

(* The time for which the gateway holds the call fits, with the way there  *)
(* and back, into the channel's timeout.  For the worker's own timeout it  *)
(* is enough that a message is faster than a twentieth of it: that is the  *)
(* margin that get_long_polling_millis leaves.                             *)
Fits ==
  /\ hold + 2 * Latency < ChannelTimeout
  /\ method = "activate_jobs" =>
       20 * Latency < limit /\ 2 * Latency < LongPollingMax

(* If it fits, the client never gives up on a call: it always hears from   *)
(* the gateway, and no job is handed out in vain, whatever timeout was     *)
(* asked for.                                                              *)
AnsweredInTime == pc = "gaveup" => ~Fits

(* Jobs are lost with a call that was given up only if they were handed    *)
(* out while the client gave up, within the latency of a message: the      *)
(* gateway does not go on to hand out jobs to nobody.                      *)
LossWindow ==
  pc = "gaveup" /\ handedAt # Never =>
    /\ endedAt - handedAt <= Latency
    /\ handedAt - endedAt <= Latency

(* "The request will be completed when at least one job is activated or    *)
(* after the requestTimeout": the client stays with the call so long.      *)
HeldUntilRequestTimeout == pc = "gaveup" => endedAt >= hold

(***************************************************************************)
(* The inductive invariant: at each stage of a call, how old it is.        *)
(***************************************************************************)
Numbers ==
  /\ DOMAIN builder = {"job_type", "handler", "max_jobs_to_activate", "request_timeout"}
  /\ builder.request_timeout \in Nat /\ builder.request_timeout >= RequestTimeoutOffset
  /\ limit \in Nat /\ hold \in Nat /\ age \in Nat /\ held \in Nat
  /\ toGateway.since \in 0..Latency /\ toClient.since \in 0..Latency
  /\ handedAt \in Int /\ endedAt \in Int

Durations ==
  /\ pc # "none" => limit > Latency
  /\ method = "activate_jobs" => hold = get_long_polling_millis(limit)
  /\ method # "activate_jobs" /\ pc # "none" => limit = ChannelTimeout

Stages ==
  /\ gate \in {"none", "holding", "done"}
  /\ pc = "none" => gate = "none" /\ age = 0 /\ toGateway.what = "none"
  /\ gate = "none" => held = 0 /\ toClient.what = "none" /\ handedAt = Never
  /\ gate = "none" /\ pc # "none" =>
       pc = "waiting" /\ toGateway.what = "request" /\ age = toGateway.since
  /\ toGateway.what = "request" => gate = "none" /\ pc = "waiting"
  /\ toGateway.what = "cancel" => pc = "gaveup" /\ age = endedAt + toGateway.since
  /\ gate = "holding" =>
       /\ toClient.what = "none" /\ handedAt = Never
       /\ held <= hold
       /\ age <= held + Latency
       /\ \/ pc = "waiting"
          \/ pc = "gaveup" /\ toGateway.what = "cancel"
  /\ gate = "done" /\ pc = "waiting" =>
       toClient.what # "none" /\ age <= hold + Latency + toClient.since
  /\ toClient.what # "none" => gate = "done"
  /\ toClient.what # "none" /\ handedAt # Never => age = handedAt + toClient.since
  /\ pc = "waiting" /\ handedAt # Never => age = handedAt + toClient.since

(* After its end a call is only waited for by its cancellation and by an   *)
(* answer that crosses it.                                                 *)
Ages ==
  /\ endedAt <= ChannelTimeout
  /\ pc = "waiting" => age <= ChannelTimeout
  /\ pc = "answered" => gate = "done" /\ toClient.what = "none"
                        /\ age <= ChannelTimeout
  /\ pc = "gaveup" =>
       /\ age <= ChannelTimeout + 2 * Latency
       /\ toClient.what # "none" => age <= ChannelTimeout + Latency + toClient.since

CallInv == Numbers /\ Durations /\ Stages /\ AnsweredInTime /\ LossWindow
=============================================================================
