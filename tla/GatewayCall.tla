----------------------------- MODULE GatewayCall -----------------------------
(***************************************************************************)
(* A command from its builder to its outcome: the send() of a builder      *)
(* (src/src/job.rs, process.rs, util.rs), the interceptor (oauth.rs) and   *)
(* the channel with its timeout (client.rs).  Callers run concurrently,    *)
(* each with a clone of the client, and make one call after the other.     *)
(*                                                                         *)
(* The gateway, the connection to it and the disk are external.  A request *)
(* is executed once, rejected, or lost, and so is its response.            *)
(***************************************************************************)
EXTENDS Commands

CONSTANTS
  Caller,           \* tasks that use a clone of the client
  current_job_key,  \* for each, the job its clone stands for, or NoValue
  Sent,             \* the commands that are sent
  HasAuth,          \* is an OAuth provider configured?
  MaxCalls          \* bound on the calls of a caller

ASSUME CallerAssumption ==
  /\ current_job_key \in [Caller -> Key \cup {NoValue}]
  /\ Sent \subseteq DOMAIN CommandOf
  /\ HasAuth \in BOOLEAN /\ MaxCalls \in Nat

VARIABLES
  call,      \* for each caller, the call it is making
  outcome,   \* for each caller, what its calls have returned
  token,     \* has the token provider cached a token? (never undone)
  readable,  \* the resource files that can be read
  requests,  \* on their way to the gateway
  responses, \* on their way back
  executed   \* the requests the gateway has executed

wireVars == <<requests, responses, executed>>
vars == <<call, outcome, token, readable, wireVars>>

(***************************************************************************)
(* pc: idle; building; reading the files `todo', of which those in `read'  *)
(* are done; connecting, the request waits for a connection; awaiting the  *)
(* response.                                                               *)
(***************************************************************************)
Call(pc, command, builder, todo, read) ==
  [pc |-> pc, command |-> command, builder |-> builder, todo |-> todo, read |-> read]

NoCall == Call("idle", NoValue, NoValue, <<>>, <<>>)

Init ==
  /\ call = [c \in Caller |-> NoCall]
  /\ outcome = [c \in Caller |-> <<>>]
  /\ token = FALSE /\ readable = File
  /\ requests = {} /\ responses = {} /\ executed = {}

Update(c, new) == call' = [call EXCEPT ![c] = new]

Goto(c, pc) ==
  Update(c, Call(pc, call[c].command, call[c].builder, call[c].todo, call[c].read))

Return(c, result) ==
  /\ outcome' = [outcome EXCEPT ![c] = Append(@, result)]
  /\ call' = [call EXCEPT ![c] = NoCall]

Number(c) == Len(outcome[c]) + 1

Files(command, builder) ==
  IF command = "deploy_process" /\ builder.resource_files # NoValue
    THEN builder.resource_files ELSE <<>>

-----------------------------------------------------------------------------
(***************************************************************************)
(* The caller.                                                             *)
(***************************************************************************)
NewCall(c) ==
  /\ call[c].pc = "idle" /\ Len(outcome[c]) < MaxCalls
  /\ \E command \in Sent :
       Update(c, Call("building", command, NewBuilder(command), <<>>, <<>>))
  /\ UNCHANGED <<outcome, token, readable, wireVars>>

SetField(c) ==
  /\ call[c].pc = "building"
  /\ \E field \in DOMAIN call[c].builder : \E value \in SetterValues(field) :
       Update(c, Call("building", call[c].command, With(call[c].builder, field, value),
                      <<>>, <<>>))
  /\ UNCHANGED <<outcome, token, readable, wireVars>>

Send(c) ==
  /\ call[c].pc = "building"
  /\ LET command == call[c].command
         builder == call[c].builder IN
       \/ /\ ~IsSendable(command, builder, current_job_key[c])
          /\ Return(c, "invalid")
       \/ /\ IsSendable(command, builder, current_job_key[c])
          /\ Update(c, Call("reading", command, builder, Files(command, builder), <<>>))
          /\ UNCHANGED outcome
  /\ UNCHANGED <<token, readable, wireVars>>

(* Mutant of ReadFile: a file that cannot be read is left out. *)
ReadFileOrSkip(c) ==
  /\ call[c].pc = "reading" /\ call[c].todo # <<>>
  /\ LET file == Head(call[c].todo) IN
       Update(c, Call("reading", call[c].command, call[c].builder, Tail(call[c].todo),
                      IF file \in readable THEN Append(call[c].read, file)
                                           ELSE call[c].read))
  /\ UNCHANGED <<outcome, token, readable, wireVars>>

(* Opening and reading a file are two awaits; it can fail in either.       *)
ReadFile(c) ==
  /\ call[c].pc = "reading" /\ call[c].todo # <<>>
  /\ LET file == Head(call[c].todo) IN
       \/ /\ file \in readable
          /\ Update(c, Call("reading", call[c].command, call[c].builder,
                            Tail(call[c].todo), Append(call[c].read, file)))
          /\ UNCHANGED outcome
       \/ /\ file \notin readable
          /\ Return(c, "file_io")
  /\ UNCHANGED <<token, readable, wireVars>>

(* What the request is filled with: fields, or the files that were read.  *)
FilledRequest(c) ==
  LET request == RequestOf(call[c].command, call[c].builder, current_job_key[c]) IN
    IF call[c].command = "deploy_process"
      THEN [request EXCEPT !.resource_files = call[c].read] ELSE request

(* `asked' is what the caller has set.                            (history) *)
MessageOf(c) ==
  [caller |-> c, number |-> Number(c), command |-> call[c].command,
   asked |-> call[c].builder, request |-> FilledRequest(c)]

(* Mutant of Intercept: the request leaves before it is authorized. *)
InterceptTooLate(c) ==
  /\ call[c].pc = "reading" /\ call[c].todo = <<>>
  /\ requests' = requests \cup {MessageOf(c)}
  /\ \/ HasAuth /\ ~token /\ Return(c, "denied")
     \/ (HasAuth => token) /\ Goto(c, "awaiting") /\ UNCHANGED outcome
  /\ UNCHANGED <<token, readable, responses, executed>>

(* The interceptor attaches the token, or denies the call.                 *)
Intercept(c) ==
  /\ call[c].pc = "reading" /\ call[c].todo = <<>>
  /\ \/ HasAuth /\ ~token /\ Return(c, "denied")
     \/ (HasAuth => token) /\ Goto(c, "connecting") /\ UNCHANGED outcome
  /\ UNCHANGED <<token, readable, wireVars>>

(* The channel has a connection and puts the request on it.                *)
Transmit(c) ==
  /\ call[c].pc = "connecting"
  /\ requests' = requests \cup {MessageOf(c)}
  /\ Goto(c, "awaiting")
  /\ UNCHANGED <<outcome, token, readable, responses, executed>>

ConnectFails(c) ==
  /\ call[c].pc = "connecting"
  /\ Return(c, "failed")
  /\ UNCHANGED <<token, readable, wireVars>>

(* A response, or the status of a rejection.                               *)
Respond(c) ==
  /\ call[c].pc = "awaiting"
  /\ \E r \in responses :
       /\ r.caller = c /\ r.number = Number(c)
       /\ Return(c, r.status)
       /\ responses' = responses \ {r}
  /\ UNCHANGED <<token, readable, requests, executed>>

(* Mutant of TimesOut: the timeout only covers the body of a response. *)
TimesOutInBody(c) ==
  /\ call[c].pc = "awaiting"
  /\ \E r \in responses : r.caller = c /\ r.number = Number(c)
  /\ Return(c, "failed")
  /\ UNCHANGED <<token, readable, wireVars>>

(* Mutant of TimesOut: what has timed out is sent again. *)
TimesOutRetries(c) ==
  /\ call[c].pc = "awaiting"
  /\ \/ Return(c, "failed")
     \/ Goto(c, "connecting") /\ UNCHANGED outcome
  /\ UNCHANGED <<token, readable, wireVars>>

(* timeout(DEFAULT_REQUEST_TIMEOUT) of the channel; the connection breaks.  *)
TimesOut(c) ==
  /\ call[c].pc = "awaiting"
  /\ Return(c, "failed")
  /\ UNCHANGED <<token, readable, wireVars>>

(* The future of send() is dropped, by a handler of a dropped worker, say.  *)
Abandon(c) ==
  /\ call[c].pc \in {"reading", "connecting", "awaiting"}
  /\ Return(c, "abandoned")
  /\ UNCHANGED <<token, readable, wireVars>>

CallerStep(c) ==
  NewCall(c) \/ SetField(c) \/ Send(c) \/ ReadFile(c) \/ Intercept(c)
    \/ Transmit(c) \/ ConnectFails(c) \/ Respond(c) \/ TimesOut(c) \/ Abandon(c)

-----------------------------------------------------------------------------
(***************************************************************************)
(* The gateway, the connection, the disk and the token provider.           *)
(***************************************************************************)
ResponseTo(m, status) == [caller |-> m.caller, number |-> m.number, status |-> status]

Execute(m) ==
  /\ m \in requests
  /\ requests' = requests \ {m} /\ executed' = executed \cup {m}
  /\ responses' = responses \cup {ResponseTo(m, "ok")}
  /\ UNCHANGED <<call, outcome, token, readable>>

Reject(m) ==
  /\ m \in requests
  /\ requests' = requests \ {m}
  /\ responses' = responses \cup {ResponseTo(m, "failed")}
  /\ UNCHANGED <<call, outcome, token, readable, executed>>

Lose ==
  /\ \/ \E m \in requests : requests' = requests \ {m} /\ UNCHANGED responses
     \/ \E r \in responses : responses' = responses \ {r} /\ UNCHANGED requests
  /\ UNCHANGED <<call, outcome, token, readable, executed>>

DiskChanges ==
  /\ readable' \in SUBSET File \ {readable}
  /\ UNCHANGED <<call, outcome, token, wireVars>>

TokenCached ==
  /\ HasAuth /\ ~token
  /\ token' = TRUE
  /\ UNCHANGED <<call, outcome, readable, wireVars>>

Next ==
  \/ \E c \in Caller : CallerStep(c)
  \/ \E m \in requests : Execute(m) \/ Reject(m)
  \/ Lose \/ DiskChanges \/ TokenCached

Spec == Init /\ [][Next]_vars

(***************************************************************************)
(* The future of send() is polled: files are read or fail to be, the       *)
(* channel connects or fails to, and its timer fires.                      *)
(***************************************************************************)
FairSpec ==
  /\ Spec
  /\ \A c \in Caller :
       WF_vars(ReadFile(c) \/ Intercept(c) \/ Transmit(c) \/ ConnectFails(c)
                 \/ TimesOut(c))

-----------------------------------------------------------------------------
(* What a request may carry in a field.                                    *)
RequestValues(field) ==
  CASE field \in NumberFields -> Signed
    [] field \in KeyFields -> Key \cup {NoValue, 0}
    [] field \in {"version", "local"} -> SetterValues(field)
    [] field = "resource_files" -> Seq(File)
    [] OTHER -> Text \cup {NoValue, Empty}

Message(m) ==
  /\ DOMAIN m = {"caller", "number", "command", "asked", "request"}
  /\ m.caller \in Caller /\ m.number \in 1..MaxCalls /\ m.command \in Sent
  /\ DOMAIN m.request = FieldsOf(m.command)
  /\ \A field \in DOMAIN m.request : m.request[field] \in RequestValues(field)

Outcome == {"ok", "failed", "invalid", "file_io", "denied", "abandoned"}

(* Every variable has its type; what goes over the wire as a number fits.  *)
TypeOK ==
  /\ \A c \in Caller :
       /\ call[c].pc \in {"idle", "building", "reading", "connecting", "awaiting"}
       /\ call[c].pc # "idle" =>
            /\ call[c].command \in Sent
            /\ DOMAIN call[c].builder = FieldsOf(call[c].command)
       /\ call[c].todo \in Seq(File) /\ call[c].read \in Seq(File)
       /\ outcome[c] \in Seq(Outcome) /\ Len(outcome[c]) <= MaxCalls
  /\ token \in BOOLEAN /\ readable \subseteq File
  /\ \A m \in requests \cup executed : Message(m)
  /\ responses \subseteq
       [caller : Caller, number : 1..MaxCalls, status : {"ok", "failed"}]

(* What send() checks is enough for its unwrap()s: no request lacks a      *)
(* value, whatever was set and whether or not the client stands for a job. *)
NothingMissing ==
  \A m \in requests \cup executed :
    \A field \in DOMAIN m.request : m.request[field] # NoValue

(* The gateway executes what the caller asked for: of each field the value *)
(* that was set, if it fits; a job key that was set even inside a handler, *)
(* and else the key of the handler's job.                                  *)
AskedFor(m, field) ==
  IF m.asked[field] # NoValue
    THEN (field \in NumberFields => m.asked[field] \in Signed) =>
           m.request[field] = m.asked[field]
    ELSE m.request[field] =
           IF field = "job_key" THEN current_job_key[m.caller]
           ELSE CommandOf[m.command].default[field]

ExecutesWhatWasAsked ==
  \A m \in executed : \A field \in DOMAIN m.request : AskedFor(m, field)

(* A number of retries arrives as the number that was set.                 *)
RetriesAsAsked ==
  \A m \in executed :
    "retries" \in DOMAIN m.asked /\ m.asked.retries # NoValue =>
      m.request.retries = m.asked.retries

(* A deployment carries every file that was named, in order, or is not     *)
(* sent at all, however the files change while they are read.              *)
DeployIsWhole ==
  \A m \in requests \cup executed :
    m.command = "deploy_process" =>
      m.request.resource_files = Files("deploy_process", m.asked)

(* Ok means that the command was executed; an error of the client's own    *)
(* checks means that it neither was nor will be.  A failed or abandoned    *)
(* call may have been, or may still be.                                    *)
IsCall(m, c, n) == m.caller = c /\ m.number = n

OutcomeTellsExecution ==
  \A c \in Caller : \A n \in DOMAIN outcome[c] :
    /\ outcome[c][n] = "ok" => \E m \in executed : IsCall(m, c, n)
    /\ outcome[c][n] \in {"invalid", "file_io", "denied"} =>
         ~\E m \in requests \cup executed : IsCall(m, c, n)

(***************************************************************************)
(* The abstract specification of a client's calls.  Of a message only the  *)
(* call it belongs to is left.                                             *)
(***************************************************************************)
CallsOf(messages) == {<<m.caller, m.number>> : m \in messages}

Once == INSTANCE AtMostOnce WITH returned <- outcome, pending <- CallsOf(requests),
                                 performed <- CallsOf(executed)

(* Whatever is lost, late or given up, the client hands a call over to the *)
(* gateway at most once: it does not send again what it has stopped        *)
(* waiting for, and what it refuses it has not sent.                       *)
ImplementsAtMostOnce == Once!Spec

(* A call that is sent returns, whatever happens to the request and the    *)
(* response.                                                               *)
EveryCallReturns ==
  \A c \in Caller :
    call[c].pc \in {"reading", "connecting", "awaiting"} ~> call[c].pc = "idle"
=============================================================================
