--------------------------- MODULE SettingsProofs ---------------------------
(***************************************************************************)
(* Proofs about the settings of a worker and of a client: HeldCalls, with  *)
(* its JobWorkerBuilder, for every width of an integer, timeout, offset,   *)
(* latency and set of timeouts that may be asked for, and ClientConfig.    *)
(***************************************************************************)
EXTENDS HeldCalls, ClientConfig, TLAPS

-----------------------------------------------------------------------------
(***************************************************************************)
(* The calls: CallInv, which says how old a call is at each of its stages, *)
(* is an inductive invariant.                                              *)
(***************************************************************************)

(* The tenth that get_long_polling_millis leaves free.                     *)
LEMMA LongPollingLeavesTime ==
  ASSUME NEW t \in Nat
  PROVE  /\ get_long_polling_millis(t) \in Nat
         /\ 20 * Latency < t /\ 2 * Latency < LongPollingMax =>
              get_long_polling_millis(t) + 2 * Latency < t
<1> DEFINE n == (9 * t) \div 10
<1>1. n \in Nat /\ 10 * n <= 9 * t
  OBVIOUS
<1>2. Latency \in Nat /\ LongPollingMax \in Nat
  BY HeldAssumption
<1> HIDE DEF n
<1>3. get_long_polling_millis(t) = t - Lesser(t - n, LongPollingMax)
  BY DEF get_long_polling_millis, n
<1>4. CASE t - n <= LongPollingMax
  BY <1>1, <1>2, <1>3, <1>4 DEF Lesser
<1>5. CASE ~(t - n <= LongPollingMax)
  BY <1>1, <1>2, <1>3, <1>5 DEF Lesser
<1>6. QED
  BY <1>4, <1>5

LEMMA InitCalls == Init => CallInv
BY BuilderAssumption, HeldAssumption
DEF Init, BuilderInit, NewBuilder, CallInv, Numbers, Durations, Stages, AnsweredInTime,
    LossWindow, Nothing, Message, Never

(* The setters of the builder keep its fields, and request_timeout at or   *)
(* above the offset; run() leaves the builder as it is.                    *)
LEMMA BuilderKeepsInv ==
  ASSUME CallInv, BuilderNext, UNCHANGED callVars
  PROVE  CallInv'
<1>1. DOMAIN builder' = {"job_type", "handler", "max_jobs_to_activate", "request_timeout"}
  BY DEF CallInv, Numbers, BuilderNext, with_job_type, with_handler, with_max_jobs_active,
         with_request_timeout, run
<1>2. builder'.request_timeout \in Nat /\ builder'.request_timeout >= RequestTimeoutOffset
  <2>1. CASE with_request_timeout
    <3>1. PICK d \in AskedTimeouts :
            builder' = [builder EXCEPT !.request_timeout = d + RequestTimeoutOffset]
      BY <2>1 DEF with_request_timeout
    <3>2. builder'.request_timeout = d + RequestTimeoutOffset
      BY <3>1 DEF CallInv, Numbers
    <3>3. d \in Nat /\ RequestTimeoutOffset \in Nat
      BY BuilderAssumption
    <3>4. QED
      BY <3>2, <3>3
  <2>2. CASE with_job_type \/ with_handler \/ with_max_jobs_active \/ run
    <3>1. builder'.request_timeout = builder.request_timeout
      BY <2>2 DEF CallInv, Numbers, with_job_type, with_handler, with_max_jobs_active, run
    <3>2. QED
      BY <3>1 DEF CallInv, Numbers
  <2>3. QED
    BY <2>1, <2>2 DEF BuilderNext
<1>3. QED
  BY <1>1, <1>2
  DEF CallInv, Numbers, Durations, Stages, AnsweredInTime, LossWindow, Fits, callVars,
      sentVars, clientVars, gatewayVars, wireVars

(* A call is sent with a limit above the latency of a message.             *)
LEMMA SendKeepsInv ==
  ASSUME CallInv, activate_jobs \/ create_process_instance_with_result
  PROVE  CallInv'
<1>1. /\ pc = "none" /\ pc' = "waiting" /\ toGateway' = Message("request", 0)
      /\ UNCHANGED <<age, gate, held, handedAt, toClient, endedAt, builder>>
  BY DEF activate_jobs, create_process_instance_with_result, SendRequest, gatewayVars,
         builderVars
<1>2. hold' \in Nat /\ limit' \in Nat /\ limit' > Latency /\ Durations'
  <2>1. CASE activate_jobs
    <3>1. /\ hold' = get_long_polling_millis(limit')
          /\ limit' = builder.request_timeout
          /\ method' = "activate_jobs"
      BY <2>1 DEF activate_jobs
    <3>2. limit' \in Nat /\ limit' > Latency
      BY <3>1, HeldAssumption, BuilderAssumption DEF CallInv, Numbers
    <3>3. QED
      BY <3>1, <3>2, LongPollingLeavesTime DEF Durations, get_long_polling_millis
  <2>2. CASE create_process_instance_with_result
    <3>1. method' = "with_result" /\ limit' = ChannelTimeout
      BY <2>2 DEF create_process_instance_with_result
    <3>2. hold' \in Nat
      BY <2>2, HeldAssumption DEF create_process_instance_with_result
    <3>3. limit' \in Nat /\ limit' > Latency
      BY <3>1, HeldAssumption
    <3>4. QED
      BY <3>1, <3>2, <3>3 DEF Durations
  <2>3. QED
    BY <2>1, <2>2
<1>3. Numbers'
  BY <1>1, <1>2, HeldAssumption DEF CallInv, Numbers, Message
<1>4. Stages'
  BY <1>1, <1>2 DEF CallInv, Numbers, Stages, Message
<1>5. AnsweredInTime' /\ LossWindow'
  BY <1>1 DEF AnsweredInTime, LossWindow
<1>6. QED
  BY <1>2, <1>3, <1>4, <1>5 DEF CallInv

(* While the client waits, the call is at most hold + 2 * Latency old.     *)
LEMMA AgeOfCall ==
  ASSUME CallInv, pc = "waiting"
  PROVE  age <= hold + 2 * Latency
<1>1. CASE gate = "none"
  BY <1>1, HeldAssumption DEF CallInv, Numbers, Stages
<1>2. CASE gate = "holding"
  BY <1>2, HeldAssumption DEF CallInv, Numbers, Stages
<1>3. CASE gate # "none" /\ gate # "holding"
  <2>1. gate = "done"
    BY <1>3 DEF CallInv, Stages
  <2>2. QED
    BY <2>1, HeldAssumption DEF CallInv, Numbers, Stages
<1>4. QED
  BY <1>1, <1>2, <1>3

(* The client gives up on what does not fit only, and an answer that       *)
(* crosses the cancellation was sent within Latency.                       *)
LEMMA GiveUpKeepsInv == ASSUME CallInv, GiveUp PROVE CallInv'
<1>1. /\ pc = "waiting" /\ pc' = "gaveup" /\ endedAt' = age
      /\ age >= Lesser(limit, ChannelTimeout)
      /\ toGateway' = Message("cancel", 0)
      /\ UNCHANGED <<age, method, limit, hold, gate, held, handedAt, toClient, builder>>
  BY DEF GiveUp, sentVars, gatewayVars, builderVars
<1>2. Numbers' /\ Durations'
  BY <1>1, HeldAssumption DEF CallInv, Numbers, Durations, Message
<1>3. gate # "none"
  <2>1. SUFFICES ASSUME gate = "none" PROVE FALSE
    OBVIOUS
  <2>2. age <= Latency /\ limit > Latency /\ ChannelTimeout > Latency
    BY <1>1, <2>1, HeldAssumption DEF CallInv, Numbers, Stages, Durations
  <2>3. QED
    BY <1>1, <2>2, HeldAssumption DEF Lesser, CallInv, Numbers
<1>4. Stages'
  BY <1>1, <1>3, HeldAssumption DEF CallInv, Numbers, Stages, Message
<1>5. AnsweredInTime'
  <2>1. age <= hold + 2 * Latency
    BY <1>1, AgeOfCall
  <2>2. SUFFICES ASSUME Fits PROVE FALSE
    BY <1>1 DEF AnsweredInTime, Fits
  <2>3. hold + 2 * Latency < ChannelTimeout
    BY <2>2 DEF Fits
  <2>4. hold + 2 * Latency < limit
    <3>1. CASE method = "activate_jobs"
      BY <3>1, <2>2, <1>1, LongPollingLeavesTime DEF Fits, CallInv, Numbers, Durations
    <3>2. CASE method # "activate_jobs"
      BY <3>2, <2>3, <1>1 DEF CallInv, Durations
    <3>3. QED
      BY <3>1, <3>2
  <2>5. QED
    BY <1>1, <2>1, <2>3, <2>4, HeldAssumption DEF Lesser, CallInv, Numbers
<1>6. LossWindow'
  BY <1>1, HeldAssumption DEF CallInv, Numbers, Stages, LossWindow
<1>7. QED
  BY <1>2, <1>4, <1>5, <1>6 DEF CallInv

(* A message arrives, or the gateway answers.                              *)
LEMMA MessageKeepsInv ==
  ASSUME CallInv,
         ReceiveAnswer \/ AcceptRequest \/ HandOut \/ CompleteEmpty \/ AcceptCancel
  PROVE  CallInv'
<1>1. UNCHANGED <<age, method, limit, hold, held, builder>>
  BY DEF ReceiveAnswer, AcceptRequest, HandOut, CompleteEmpty, AcceptCancel, sentVars,
         gatewayVars, builderVars
<1>2. CASE ReceiveAnswer
  <2>1. /\ toClient.what # "none" /\ toClient' = Nothing
        /\ \/ pc = "waiting" /\ pc' = "answered" /\ endedAt' = age
           \/ pc = "gaveup" /\ UNCHANGED <<pc, endedAt>>
        /\ UNCHANGED <<gate, handedAt, toGateway>>
    BY <1>2 DEF ReceiveAnswer, gatewayVars
  <2>2. Numbers' /\ Durations'
    BY <1>1, <2>1, HeldAssumption DEF CallInv, Numbers, Durations, Nothing, Message
  <2>3. Stages'
    BY <1>1, <2>1 DEF CallInv, Numbers, Stages, Nothing, Message
  <2>4. AnsweredInTime' /\ LossWindow'
    BY <1>1, <2>1 DEF CallInv, AnsweredInTime, Fits, LossWindow
  <2>5. QED
    BY <2>2, <2>3, <2>4 DEF CallInv
<1>3. CASE AcceptRequest
  <2>1. /\ toGateway.what = "request" /\ toGateway' = Nothing /\ gate' = "holding"
        /\ UNCHANGED <<pc, endedAt, handedAt, toClient>>
    BY <1>3 DEF AcceptRequest, clientVars
  <2>2. Numbers' /\ Durations'
    BY <1>1, <2>1, HeldAssumption DEF CallInv, Numbers, Durations, Nothing, Message
  <2>3. Stages'
    BY <1>1, <2>1, HeldAssumption DEF CallInv, Numbers, Stages, Nothing, Message
  <2>4. AnsweredInTime' /\ LossWindow'
    BY <1>1, <2>1 DEF CallInv, AnsweredInTime, Fits, LossWindow
  <2>5. QED
    BY <2>2, <2>3, <2>4 DEF CallInv
<1>4. CASE HandOut
  <2>1. /\ gate = "holding" /\ gate' = "done"
        /\ toClient' = Message("jobs", 0) /\ handedAt' = age
        /\ UNCHANGED <<pc, endedAt, toGateway>>
    BY <1>4 DEF HandOut, clientVars
  <2>2. Numbers' /\ Durations'
    BY <1>1, <2>1, HeldAssumption DEF CallInv, Numbers, Durations, Message
  <2>3. Stages'
    BY <1>1, <2>1, HeldAssumption DEF CallInv, Numbers, Stages, Message
  <2>4. AnsweredInTime'
    BY <1>1, <2>1 DEF CallInv, AnsweredInTime, Fits
  <2>5. LossWindow'
    BY <1>1, <2>1, HeldAssumption DEF CallInv, Numbers, Stages, LossWindow
  <2>6. QED
    BY <2>2, <2>3, <2>4, <2>5 DEF CallInv
<1>5. CASE CompleteEmpty
  <2>1. /\ gate = "holding" /\ gate' = "done"
        /\ toClient' = Message("empty", 0)
        /\ UNCHANGED <<pc, endedAt, handedAt, toGateway>>
    BY <1>5 DEF CompleteEmpty, clientVars
  <2>2. Numbers' /\ Durations'
    BY <1>1, <2>1, HeldAssumption DEF CallInv, Numbers, Durations, Message
  <2>3. Stages'
    BY <1>1, <2>1, HeldAssumption DEF CallInv, Numbers, Stages, Message
  <2>4. AnsweredInTime' /\ LossWindow'
    BY <1>1, <2>1 DEF CallInv, AnsweredInTime, Fits, LossWindow
  <2>5. QED
    BY <2>2, <2>3, <2>4 DEF CallInv
<1>6. CASE AcceptCancel
  <2>1. /\ toGateway.what = "cancel" /\ toGateway' = Nothing /\ gate' = "done"
        /\ UNCHANGED <<pc, endedAt, handedAt, toClient>>
    BY <1>6 DEF AcceptCancel, clientVars
  <2>2. Numbers' /\ Durations'
    BY <1>1, <2>1, HeldAssumption DEF CallInv, Numbers, Durations, Nothing, Message
  <2>3. Stages'
    BY <1>1, <2>1 DEF CallInv, Numbers, Stages, Nothing, Message
  <2>4. AnsweredInTime' /\ LossWindow'
    BY <1>1, <2>1 DEF CallInv, AnsweredInTime, Fits, LossWindow
  <2>5. QED
    BY <2>2, <2>3, <2>4 DEF CallInv
<1>7. QED
  BY <1>2, <1>3, <1>4, <1>5, <1>6

(* Time passes only while nothing is overdue.                              *)
LEMMA ElapseKeepsInv == ASSUME CallInv, Elapse PROVE CallInv'
<1>1. /\ pc = "waiting" \/ gate = "holding" \/ toGateway.what # "none"
                        \/ toClient.what # "none"
      /\ toGateway.what # "none" => toGateway.since < Latency
      /\ toClient.what # "none" => toClient.since < Latency
      /\ gate = "holding" => held < hold
      /\ age' = age + 1
      /\ held' = IF gate = "holding" THEN held + 1 ELSE held
      /\ UNCHANGED <<method, limit, hold, pc, endedAt, gate, handedAt, builder>>
  BY DEF Elapse, sentVars, clientVars, builderVars
<1>2. /\ toGateway'.what = toGateway.what /\ toClient'.what = toClient.what
      /\ toGateway.what # "none" => toGateway'.since = toGateway.since + 1
      /\ toClient.what # "none" => toClient'.since = toClient.since + 1
      /\ toGateway.what = "none" => toGateway' = toGateway
      /\ toClient.what = "none" => toClient' = toClient
  BY DEF Elapse, Older, Message
<1>3. Numbers' /\ Durations'
  <2>1. toGateway'.since \in 0..Latency /\ toClient'.since \in 0..Latency
    BY <1>1, <1>2, HeldAssumption DEF CallInv, Numbers
  <2>2. QED
    BY <1>1, <2>1 DEF CallInv, Numbers, Durations
<1>4. Stages'
  BY <1>1, <1>2, HeldAssumption DEF CallInv, Numbers, Stages
<1>5. AnsweredInTime' /\ LossWindow'
  BY <1>1 DEF CallInv, AnsweredInTime, Fits, LossWindow
<1>6. QED
  BY <1>3, <1>4, <1>5 DEF CallInv

LEMMA StepKeepsCallInv == CallInv /\ [Next]_vars => CallInv'
<1> SUFFICES ASSUME CallInv, [Next]_vars PROVE CallInv'
  OBVIOUS
<1>1. CASE UNCHANGED vars
  BY <1>1 DEF CallInv, Numbers, Durations, Stages, AnsweredInTime, LossWindow, Fits,
              vars, builderVars, callVars, sentVars, clientVars, gatewayVars, wireVars
<1>2. QED
  BY <1>1, BuilderKeepsInv, SendKeepsInv, GiveUpKeepsInv, MessageKeepsInv, ElapseKeepsInv
  DEF Next, CallNext

LEMMA CallInvHolds == Spec => []CallInv
<1>1. QED
  BY InitCalls, StepKeepsCallInv, PTL DEF Spec

(* A call that the gateway holds for a time that fits into the timeouts is *)
(* never given up, for every timeout that a worker may be given.           *)
THEOREM HeardInTime == Spec => []AnsweredInTime
<1>1. CallInv => AnsweredInTime
  BY DEF CallInv
<1>2. QED
  BY <1>1, CallInvHolds, PTL

(* Jobs are handed out in vain only while the client is giving up.         *)
THEOREM LostOnlyInWindow == Spec => []LossWindow
<1>1. CallInv => LossWindow
  BY DEF CallInv
<1>2. QED
  BY <1>1, CallInvHolds, PTL

-----------------------------------------------------------------------------
(***************************************************************************)
(* The builder.                                                            *)
(***************************************************************************)

(* The casts from u32 to i32 and back lose nothing, and only a number that *)
(* an i32 can hold stays positive.                                         *)
LEMMA CastsRoundTrip ==
  ASSUME NEW n \in Unsigned
  PROVE  AsI32(n) \in Signed /\ AsU32(AsI32(n)) = n
<1>1. Width - 1 \in Nat
  BY BuilderAssumption
<1>2. SignBit \in Int
  <2>1. \A k \in Nat : 2^k \in Int
    OBVIOUS
  <2>2. QED
    BY <1>1, <2>1 DEF SignBit
<1>3. n \in 0..(2 * SignBit - 1)
  BY DEF Unsigned
<1> DEFINE S == SignBit
<1>4. S \in Int /\ n \in 0..(2 * S - 1)
  BY <1>2, <1>3
<1>5. /\ (IF n < S THEN n ELSE n - 2 * S) \in (-S)..(S - 1)
      /\ n < S => ~(n < 0)
      /\ ~(n < S) => n - 2 * S < 0 /\ (n - 2 * S) + 2 * S = n
  <2> HIDE DEF S
  <2>1. QED
    BY <1>4
<1>6. QED
  BY <1>5 DEF AsI32, AsU32, Signed

(* A new builder, and every setter.                                        *)
LEMMA InitBuilder == BuilderInit => BuilderInv
<1> SUFFICES ASSUME BuilderInit PROVE BuilderInv
  OBVIOUS
<1>1. /\ AsI32(DefaultMaxJobsActive) \in Signed
      /\ DefaultRequestTimeout + RequestTimeoutOffset \in Nat
  BY BuilderAssumption, CastsRoundTrip
<1>2. QED
  BY <1>1, BuilderAssumption
  DEF BuilderInit, NewBuilder, BuilderInv, BuilderTypeOK

LEMMA BuilderStepKeepsInv == ASSUME BuilderInv, BuilderNext PROVE BuilderInv'
<1> DEFINE Builder == [job_type : BOOLEAN, handler : BOOLEAN,
                       max_jobs_to_activate : Signed, request_timeout : Nat]
<1>1. /\ builder \in Builder /\ asked \in Unsigned
      /\ outcome \in {"building", "invalid", "panicked", "running"}
      /\ builder.max_jobs_to_activate = AsI32(asked)
  BY DEF BuilderInv, BuilderTypeOK
<1>2. ASSUME outcome = "building", outcome' = outcome, builder' \in Builder,
             asked' \in Unsigned, builder'.max_jobs_to_activate = AsI32(asked')
      PROVE  BuilderInv'
  BY <1>2 DEF BuilderInv, BuilderTypeOK
<1>3. CASE with_job_type
  <2>1. PICK given \in BOOLEAN : builder' = [builder EXCEPT !.job_type = given]
    BY <1>3 DEF with_job_type
  <2>2. builder' \in Builder /\ builder'.max_jobs_to_activate = builder.max_jobs_to_activate
    BY <1>1, <2>1
  <2>3. QED
    BY <1>1, <1>2, <1>3, <2>2 DEF with_job_type, Building
<1>4. CASE with_handler
  <2>1. builder' \in Builder /\ builder'.max_jobs_to_activate = builder.max_jobs_to_activate
    BY <1>1, <1>4 DEF with_handler
  <2>2. QED
    BY <1>1, <1>2, <1>4, <2>1 DEF with_handler, Building
<1>5. CASE with_max_jobs_active
  <2>1. PICK n \in Unsigned :
          builder' = [builder EXCEPT !.max_jobs_to_activate = AsI32(n)] /\ asked' = n
    BY <1>5 DEF with_max_jobs_active
  <2>2. AsI32(n) \in Signed
    BY CastsRoundTrip
  <2>3. builder' \in Builder /\ builder'.max_jobs_to_activate = AsI32(n)
    BY <1>1, <2>1, <2>2
  <2>4. QED
    BY <1>2, <1>5, <2>1, <2>3 DEF with_max_jobs_active, Building
<1>6. CASE with_request_timeout
  <2>1. PICK d \in AskedTimeouts :
          builder' = [builder EXCEPT !.request_timeout = d + RequestTimeoutOffset]
    BY <1>6 DEF with_request_timeout
  <2>2. d + RequestTimeoutOffset \in Nat
    BY BuilderAssumption
  <2>3. builder' \in Builder /\ builder'.max_jobs_to_activate = builder.max_jobs_to_activate
    BY <1>1, <2>1, <2>2
  <2>4. QED
    BY <1>1, <1>2, <1>6, <2>3 DEF with_request_timeout, Building
<1>7. CASE run
  BY <1>1, <1>7 DEF run, BuilderInv, BuilderTypeOK, IsComplete
<1>8. QED
  BY <1>3, <1>4, <1>5, <1>6, <1>7 DEF BuilderNext

(* Only the builder's own steps change it.                                 *)
LEMMA CallsLeaveBuilder == CallNext => UNCHANGED builderVars
BY DEF CallNext, activate_jobs, create_process_instance_with_result, SendRequest,
       ReceiveAnswer, GiveUp, AcceptRequest, HandOut, CompleteEmpty, AcceptCancel, Elapse

LEMMA StepKeepsBuilderInv == BuilderInv /\ [Next]_vars => BuilderInv'
<1>1. BuilderInv /\ UNCHANGED builderVars => BuilderInv'
  BY DEF builderVars, BuilderInv, BuilderTypeOK, IsComplete
<1>2. UNCHANGED vars => UNCHANGED builderVars
  BY DEF vars
<1>3. QED
  BY <1>1, <1>2, BuilderStepKeepsInv, CallsLeaveBuilder DEF Next

LEMMA BuilderInvHolds == Spec => []BuilderInv
<1>1. Init => BuilderInv
  BY InitBuilder DEF Init
<1>2. QED
  BY <1>1, StepKeepsBuilderInv, PTL DEF Spec

(* A worker that runs asks for exactly the max_jobs_active it was given,   *)
(* for every width: what a cast would change never gets past run().        *)
THEOREM WorkerRunsAsAsked == Spec => []RunsAsAsked
<1>1. ASSUME BuilderInv PROVE RunsAsAsked
  <2>1. SUFFICES ASSUME outcome = "running"
                 PROVE  /\ builder.job_type /\ builder.handler
                        /\ MaxJobsActiveOfPoller = asked
                        /\ AsI32(MaxJobsActiveOfPoller) > 0
    BY DEF RunsAsAsked
  <2>2. /\ asked \in Unsigned
        /\ builder.max_jobs_to_activate = AsI32(asked)
        /\ builder.job_type /\ builder.handler
        /\ builder.max_jobs_to_activate > 0
    BY <1>1, <2>1 DEF BuilderInv, BuilderTypeOK, IsComplete, CanBeCapacity
  <2>3. MaxJobsActiveOfPoller = asked
    BY <2>2, CastsRoundTrip DEF MaxJobsActiveOfPoller
  <2>4. QED
    BY <2>2, <2>3
<1>2. QED
  BY <1>1, BuilderInvHolds, PTL

-----------------------------------------------------------------------------
(***************************************************************************)
(* The types of a call, and how old it can get.                            *)
(***************************************************************************)
CallTypeOK ==
  /\ pc \in {"none", "waiting", "answered", "gaveup"}
  /\ method \in {"none", "activate_jobs", "with_result"}
  /\ toGateway \in [what : {"none", "request", "cancel"}, since : 0..Latency]
  /\ toClient \in [what : {"none", "jobs", "empty"}, since : 0..Latency]
  /\ held <= hold
  /\ handedAt \in 0..age \cup {Never} /\ endedAt \in 0..age \cup {Never}

(* The invariants say all of TypeOK: a call under way is at most as old as *)
(* the timeout of the channel and two messages after it.                   *)
LEMMA TypesFromParts ==
  ASSUME BuilderInv, CallInv, CallTypeOK, Ages
  PROVE  TypeOK
<1>1. age <= ChannelTimeout + 2 * Latency
  <2>1. age \in Nat
    BY DEF CallInv, Numbers
  <2>2. CASE pc = "none"
    BY <2>2, HeldAssumption DEF CallInv, Stages
  <2>3. CASE pc = "waiting" \/ pc = "answered"
    BY <2>1, <2>3, HeldAssumption DEF Ages
  <2>4. CASE pc = "gaveup"
    BY <2>4 DEF Ages
  <2>5. QED
    BY <2>2, <2>3, <2>4 DEF CallTypeOK
<1>2. age \in Nat /\ limit \in Nat /\ hold \in Nat /\ held \in Nat
      /\ gate \in {"none", "holding", "done"}
  BY DEF CallInv, Numbers, Stages
<1>3. QED
  BY <1>1, <1>2, HeldAssumption DEF BuilderInv, CallTypeOK, TypeOK

LEMMA InitCallTypes == Init => CallTypeOK /\ Ages
BY HeldAssumption DEF Init, CallTypeOK, Ages, Nothing, Message, Never

LEMMA StepKeepsCallTypes ==
  CallInv /\ CallTypeOK /\ Ages /\ [Next]_vars => CallTypeOK' /\ Ages'
<1> SUFFICES ASSUME CallInv, CallTypeOK, Ages, [Next]_vars PROVE CallTypeOK' /\ Ages'
  OBVIOUS
<1>1. /\ age \in Nat /\ hold \in Nat /\ held \in Nat /\ limit \in Nat
      /\ handedAt \in 0..age \cup {Never} /\ endedAt \in 0..age \cup {Never}
      /\ ChannelTimeout \in Nat /\ Latency \in Nat
      /\ 0 \in 0..Latency
  BY HeldAssumption DEF CallInv, Numbers, CallTypeOK
<1>2. CASE UNCHANGED callVars
  BY <1>2 DEF callVars, sentVars, clientVars, gatewayVars, wireVars, CallTypeOK, Ages
<1>3. CASE activate_jobs \/ create_process_instance_with_result
  <2>1. /\ pc = "none" /\ pc' = "waiting" /\ toGateway' = Message("request", 0)
        /\ UNCHANGED <<age, gate, held, handedAt, toClient, endedAt>>
        /\ method' \in {"activate_jobs", "with_result"}
    BY <1>3 DEF activate_jobs, create_process_instance_with_result, SendRequest, gatewayVars
  <2>2. hold' \in Nat
    BY <1>3, SendKeepsInv DEF CallInv, Numbers
  <2>3. age = 0 /\ held = 0 /\ gate = "none"
    BY <2>1 DEF CallInv, Stages
  <2>4. QED
    BY <1>1, <2>1, <2>2, <2>3 DEF CallTypeOK, Ages, Message
<1>4. CASE ReceiveAnswer
  <2>1. /\ toClient.what # "none" /\ toClient' = Nothing
        /\ \/ pc = "waiting" /\ pc' = "answered" /\ endedAt' = age
           \/ pc = "gaveup" /\ UNCHANGED <<pc, endedAt>>
        /\ UNCHANGED <<age, method, limit, hold, gate, held, handedAt, toGateway>>
    BY <1>4 DEF ReceiveAnswer, sentVars, gatewayVars
  <2>2. gate = "done"
    BY <2>1 DEF CallInv, Stages
  <2>3. QED
    BY <1>1, <2>1, <2>2 DEF CallTypeOK, Ages, Nothing, Message
<1>5. CASE GiveUp
  <2>1. /\ pc = "waiting" /\ pc' = "gaveup" /\ endedAt' = age
        /\ toGateway' = Message("cancel", 0)
        /\ UNCHANGED <<age, method, limit, hold, gate, held, handedAt, toClient>>
    BY <1>5 DEF GiveUp, sentVars, gatewayVars
  <2>2. toClient.since \in 0..Latency
    BY DEF CallTypeOK
  <2>3. QED
    BY <1>1, <2>1, <2>2 DEF CallTypeOK, Ages, Message
<1>6. CASE AcceptRequest
  <2>1. /\ toGateway.what = "request" /\ toGateway' = Nothing /\ gate' = "holding"
        /\ UNCHANGED <<age, method, limit, hold, pc, held, endedAt, handedAt, toClient>>
    BY <1>6 DEF AcceptRequest, sentVars, clientVars
  <2>2. pc = "waiting"
    BY <2>1 DEF CallInv, Stages
  <2>3. QED
    BY <1>1, <2>1, <2>2 DEF CallTypeOK, Ages, Nothing, Message
<1>7. CASE HandOut \/ CompleteEmpty
  <2>1. /\ gate = "holding" /\ gate' = "done"
        /\ toClient' = Message("jobs", 0) \/ toClient' = Message("empty", 0)
        /\ handedAt' = age \/ handedAt' = handedAt
        /\ UNCHANGED <<age, method, limit, hold, held, pc, endedAt, toGateway>>
    BY <1>7 DEF HandOut, CompleteEmpty, sentVars, clientVars
  <2>2. pc = "waiting" \/ (pc = "gaveup" /\ age <= ChannelTimeout + Latency)
    <3>1. pc = "waiting" \/ (pc = "gaveup" /\ toGateway.what = "cancel")
      BY <2>1 DEF CallInv, Stages
    <3>2. CASE pc = "gaveup" /\ toGateway.what = "cancel"
      <4>1. age = endedAt + toGateway.since /\ toGateway.since \in 0..Latency
        BY <3>2 DEF CallInv, Stages, CallTypeOK
      <4>2. endedAt <= ChannelTimeout /\ endedAt \in Int
        BY DEF Ages, CallInv, Numbers
      <4>3. QED
        BY <1>1, <3>2, <4>1, <4>2
    <3>3. QED
      BY <3>1, <3>2
  <2>3. toClient' \in [what : {"none", "jobs", "empty"}, since : 0..Latency]
        /\ toClient'.since = 0
    BY <1>1, <2>1 DEF Message
  <2>4. QED
    BY <1>1, <2>1, <2>2, <2>3 DEF CallTypeOK, Ages
<1>8. CASE AcceptCancel
  <2>1. /\ toGateway.what = "cancel" /\ toGateway' = Nothing /\ gate' = "done"
        /\ UNCHANGED <<age, method, limit, hold, pc, held, endedAt, handedAt, toClient>>
    BY <1>8 DEF AcceptCancel, sentVars, clientVars
  <2>2. QED
    BY <1>1, <2>1 DEF CallTypeOK, Ages, Nothing, Message
<1>9. CASE Elapse
  <2>1. /\ pc = "waiting" \/ gate = "holding" \/ toGateway.what # "none"
                          \/ toClient.what # "none"
        /\ pc = "waiting" => age < Lesser(limit, ChannelTimeout)
        /\ toGateway.what # "none" => toGateway.since < Latency
        /\ toClient.what # "none" => toClient.since < Latency
        /\ gate = "holding" => held < hold
        /\ age' = age + 1
        /\ held' = IF gate = "holding" THEN held + 1 ELSE held
        /\ toGateway' = Older(toGateway) /\ toClient' = Older(toClient)
        /\ UNCHANGED <<method, limit, hold, pc, endedAt, gate, handedAt>>
    BY <1>9 DEF Elapse, sentVars, clientVars
  <2>2. ASSUME NEW K, NEW m \in [what : K, since : 0..Latency],
               m.what # "none" => m.since < Latency
        PROVE  /\ Older(m) \in [what : K, since : 0..Latency]
               /\ Older(m).what = m.what
               /\ m.what # "none" => Older(m).since = m.since + 1
    <3>1. CASE m.what = "none"
      BY <3>1 DEF Older
    <3>2. CASE m.what # "none"
      <4>1. m.since + 1 \in 0..Latency /\ m.what \in K
        BY <1>1, <2>2, <3>2
      <4>2. Older(m) = [what |-> m.what, since |-> m.since + 1]
        BY <3>2 DEF Older, Message
      <4>3. QED
        BY <4>1, <4>2
    <3>3. QED
      BY <3>1, <3>2
  <2>3. /\ toGateway \in [what : {"none", "request", "cancel"}, since : 0..Latency]
        /\ toClient \in [what : {"none", "jobs", "empty"}, since : 0..Latency]
    BY DEF CallTypeOK
  <2>4. /\ toGateway' \in [what : {"none", "request", "cancel"}, since : 0..Latency]
        /\ toGateway'.what = toGateway.what
        /\ toGateway.what # "none" => toGateway'.since = toGateway.since + 1
        /\ toClient' \in [what : {"none", "jobs", "empty"}, since : 0..Latency]
        /\ toClient'.what = toClient.what
        /\ toClient.what # "none" => toClient'.since = toClient.since + 1
    BY <2>1, <2>2, <2>3
  <2>5. CallTypeOK'
    <3>1. held' <= hold'
      BY <1>1, <2>1 DEF CallTypeOK
    <3>2. handedAt' \in 0..age' \cup {Never} /\ endedAt' \in 0..age' \cup {Never}
      BY <1>1, <2>1
    <3>3. QED
      BY <2>1, <2>4, <3>1, <3>2 DEF CallTypeOK
  <2>6. pc = "waiting" => age' <= ChannelTimeout
    BY <1>1, <2>1 DEF Lesser
  <2>7. pc # "answered"
    <3>1. ASSUME pc = "answered" PROVE FALSE
      BY <2>1, <3>1 DEF Ages, CallInv, Stages, CallTypeOK
    <3>2. QED
      BY <3>1
  <2>8. ASSUME pc = "gaveup"
        PROVE  /\ age' <= ChannelTimeout + 2 * Latency
               /\ toClient.what # "none" =>
                    age' <= ChannelTimeout + Latency + toClient'.since
    <3>1. CASE toClient.what # "none"
      <4>1. age <= ChannelTimeout + Latency + toClient.since
        BY <2>8, <3>1 DEF Ages
      <4>2. toClient'.since = toClient.since + 1 /\ toClient.since \in 0..Latency
            /\ toClient.since < Latency
        BY <2>1, <2>3, <2>4, <3>1
      <4>3. QED
        BY <1>1, <2>1, <4>1, <4>2
    <3>2. CASE toClient.what = "none"
      <4>1. toGateway.what = "cancel"
        BY <2>1, <2>8, <3>2 DEF CallInv, Stages, CallTypeOK
      <4>2. age = endedAt + toGateway.since /\ endedAt <= ChannelTimeout /\ endedAt \in Int
            /\ toGateway.since \in 0..Latency /\ toGateway.since < Latency
        BY <2>1, <2>3, <4>1 DEF CallInv, Stages, Numbers, Ages
      <4>3. QED
        BY <1>1, <2>1, <3>2, <4>2
    <3>3. QED
      BY <3>1, <3>2
  <2>9. Ages'
    BY <2>1, <2>4, <2>6, <2>7, <2>8 DEF Ages
  <2>10. QED
    BY <2>5, <2>9
<1>10. QED
  BY <1>2, <1>3, <1>4, <1>5, <1>6, <1>7, <1>8, <1>9 DEF Next, CallNext, vars

(* Type correctness; and nothing of a call is under way for longer than    *)
(* the channel's timeout, the latency of its cancellation and that of an   *)
(* answer that crosses it.                                                 *)
THEOREM HeldTypeCorrect == Spec => []TypeOK
<1>1. BuilderInv /\ CallInv /\ CallTypeOK /\ Ages => TypeOK
  BY TypesFromParts
<1>2. Spec => [](CallTypeOK /\ Ages)
  BY InitCallTypes, StepKeepsCallTypes, CallInvHolds, PTL DEF Spec
<1>3. QED
  BY <1>1, <1>2, BuilderInvHolds, CallInvHolds, PTL

-----------------------------------------------------------------------------
(***************************************************************************)
(* The configuration of a client.                                          *)
(***************************************************************************)

(* What from_env returned stays true of the environment: nothing is set    *)
(* any more once it has returned.                                          *)
LEMMA ConfigInvHolds == ConfigSpec => []ConfigInv
<1>1. ConfigInit => ConfigInv
  BY DEF ConfigInit, ConfigInv, Value
<1>2. ASSUME ConfigInv, [ConfigNext]_configVars PROVE ConfigInv'
  <2>1. ASSUME NEW v \in Var, SetVariable(v) PROVE ConfigInv'
    <3>1. PICK x \in Value(v) : env' = [env EXCEPT ![v] = x]
      BY <2>1 DEF SetVariable
    <3>2. x \in {"unset", "good", "bad"}
      BY DEF Value
    <3>3. client' = None
      BY <2>1 DEF SetVariable
    <3>4. QED
      BY <1>2, <3>1, <3>2, <3>3 DEF ConfigInv, None
  <2>2. CASE CreateClient
    <3>1. client' = from_env /\ env' = env
      BY <2>2 DEF CreateClient
    <3>2. from_env' = from_env
      BY <3>1 DEF from_env, IsBad, IsSet, SetAmong, address, EndpointIsUri, AuthSources,
                  should_use_env_config, CredentialMissing
    <3>3. QED
      BY <1>2, <3>1, <3>2 DEF ConfigInv
  <2>3. CASE UNCHANGED configVars
    BY <1>2, <2>3
    DEF configVars, ConfigInv, from_env, IsBad, IsSet, SetAmong, address, EndpointIsUri,
        AuthSources, should_use_env_config, CredentialMissing, None
  <2>4. QED
    BY <1>2, <2>1, <2>2, <2>3 DEF ConfigNext
<1>3. QED
  BY <1>1, <1>2, PTL DEF ConfigSpec

(* What a client is made of.                                               *)
LEMMA MadeOf ==
  ASSUME ConfigInv, client.kind = "client"
  PROVE  /\ ~IsBad("CA") /\ EndpointIsUri
         /\ should_use_env_config => ~CredentialMissing /\ ~IsBad("URL")
         /\ client.endpoint = address
         /\ client.tls = SetAmong({"CA"})
         /\ client.auth = IF should_use_env_config THEN AuthSources ELSE {}
<1>1. client = from_env
  BY DEF ConfigInv, None
<1>2. Failed("error").kind = "error" /\ Failed("panic").kind = "panic"
  BY DEF Failed, None
<1>3. /\ ~(IsBad("CA") \/ (should_use_env_config /\ CredentialMissing) \/ ~EndpointIsUri)
      /\ ~(should_use_env_config /\ IsBad("URL"))
      /\ client = Made(address, SetAmong({"CA"}),
                       IF should_use_env_config THEN AuthSources ELSE {})
  BY <1>1, <1>2 DEF from_env
<1>4. QED
  BY <1>3 DEF Made

(* For every environment: what is set is used, or overridden in one of the *)
(* three ways that the code documents, or there is no client.              *)
THEOREM SettingsAreKept == ConfigSpec => []NoSettingLost
<1>1. ASSUME ConfigInv, client.kind = "client", NEW v \in Var, IsSet(v)
      PROVE  v \in Sources \cup Overridden
  <2>1. /\ client.endpoint = address
        /\ client.tls = SetAmong({"CA"})
        /\ client.auth = IF should_use_env_config THEN AuthSources ELSE {}
    BY <1>1, MadeOf
  <2>2. CASE v = "CA"
    BY <1>1, <2>1, <2>2 DEF Sources, SetAmong
  <2>3. CASE v \in EndpointVar
    BY <1>1, <2>1, <2>3 DEF Sources, Overridden, address, SetAmong, EndpointVar
  <2>4. CASE v \in AuthVar
    <3>1. CASE should_use_env_config
      BY <1>1, <2>1, <2>4, <3>1 DEF Sources, Overridden, AuthSources, SetAmong
    <3>2. CASE ~should_use_env_config
      BY <1>1, <2>4, <3>2 DEF Overridden, should_use_env_config, CredentialVar
    <3>3. QED
      BY <3>1, <3>2
  <2>5. QED
    BY <2>2, <2>3, <2>4 DEF Var
<1>2. ConfigInv => NoSettingLost
  BY <1>1 DEF NoSettingLost
<1>3. QED
  BY <1>2, ConfigInvHolds, PTL

(* For every environment: a client is made of usable settings only, and    *)
(* logs in with both credentials or not at all.                            *)
THEOREM ClientsAreUsable == ConfigSpec => []ClientIsUsable
<1>1. ASSUME ConfigInv, client.kind = "client"
      PROVE  /\ \A v \in Sources : IsSet(v) /\ ~IsBad(v)
             /\ client.auth # {} => CredentialVar \subseteq client.auth
  <2>1. /\ ~IsBad("CA") /\ EndpointIsUri
        /\ should_use_env_config => ~CredentialMissing /\ ~IsBad("URL")
        /\ client.endpoint = address
        /\ client.tls = SetAmong({"CA"})
        /\ client.auth = IF should_use_env_config THEN AuthSources ELSE {}
    BY <1>1, MadeOf
  <2>2. \A v \in client.tls : IsSet(v) /\ ~IsBad(v)
    BY <2>1 DEF SetAmong
  <2>3. \A v \in client.endpoint : IsSet(v) /\ ~IsBad(v)
    BY <2>1 DEF EndpointIsUri, address, SetAmong
  <2>4. ASSUME NEW v \in client.auth PROVE IsSet(v) /\ ~IsBad(v)
    <3>1. /\ should_use_env_config /\ v \in AuthVar /\ IsSet(v)
          /\ v = "TIMEOUT" => ~IsBad(v)
      BY <2>1, <2>4 DEF AuthSources, SetAmong
    <3>2. CASE v = "URL" \/ v = "TIMEOUT"
      BY <2>1, <3>1, <3>2
    <3>3. CASE v \in CredentialVar \cup {"AUDIENCE"}
      <4>1. v \in Var /\ env[v] \in Value(v)
        BY <1>1, <3>1 DEF ConfigInv, Var
      <4>2. env[v] # "bad"
        BY <3>3, <4>1 DEF Value
      <4>3. QED
        BY <3>1, <4>2 DEF IsBad
    <3>4. QED
      BY <3>1, <3>2, <3>3 DEF AuthVar
  <2>5. ASSUME client.auth # {} PROVE CredentialVar \subseteq client.auth
    <3>1. client.auth = AuthSources /\ ~CredentialMissing
      BY <2>1, <2>5
    <3>2. QED
      BY <3>1 DEF CredentialMissing, AuthSources, SetAmong, AuthVar, CredentialVar
  <2>6. QED
    BY <2>2, <2>3, <2>4, <2>5 DEF Sources
<1>2. ConfigInv => ClientIsUsable
  BY <1>1 DEF ClientIsUsable
<1>3. QED
  BY <1>2, ConfigInvHolds, PTL
=============================================================================
