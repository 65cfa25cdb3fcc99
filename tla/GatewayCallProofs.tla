-------------------------- MODULE GatewayCallProofs --------------------------
(***************************************************************************)
(* Proofs about GatewayCall, for any number of callers, of calls, of files *)
(* and for all commands: what the outcome of a call says of its execution, *)
(* that a deployment is sent whole or not at all, and that every request   *)
(* is complete and says what was asked for.                                *)
(*                                                                         *)
(* For the outcomes, the steps of a caller fall into three kinds, those of *)
(* the environment are one: a caller goes on with its call (Proceeds), its *)
(* call returns (Returns), its request leaves (Transmit), or the           *)
(* environment moves (GatewayMoves).  Each kind has a lemma.               *)
(***************************************************************************)
EXTENDS GatewayCall, TLAPS

(* What is needed of the types of the variables. *)
Shapes ==
  /\ call = [c \in Caller |-> call[c]]
  /\ outcome \in [Caller -> Seq(Outcome)]
  /\ \A m \in requests \cup executed : m.caller \in Caller /\ m.number \in Nat
  /\ \A r \in responses :
       r.caller \in Caller /\ r.number \in Nat /\ r.status \in {"ok", "failed"}

(* Where the messages and responses of a caller's calls can be: before and *)
(* at the call it is making; and an ok stems from an execution.            *)
PlaceInv ==
  /\ \A m \in requests \cup executed :
       \/ m.number < Number(m.caller)
       \/ m.number = Number(m.caller) /\ call[m.caller].pc = "awaiting"
  /\ \A r \in responses :
       r.status = "ok" => \E m \in executed : IsCall(m, r.caller, r.number)

OutcomeInv == Shapes /\ PlaceInv /\ OutcomeTellsExecution

(* The call of c is not yet at the gateway, and it stays so. *)
Proceeds(c) ==
  /\ call[c].pc # "awaiting"
  /\ \E new : new.pc # "awaiting" /\ Update(c, new)
  /\ UNCHANGED <<outcome, requests, responses, executed>>

(* The call of c returns: with ok only if it was executed, with an error   *)
(* of the client's own checks only if it has not left.                     *)
Returns(c) ==
  /\ \E result \in Outcome :
       /\ Return(c, result)
       /\ result = "ok" => \E m \in executed : IsCall(m, c, Number(c))
       /\ result \in {"invalid", "file_io", "denied"} => call[c].pc # "awaiting"
  /\ responses' \subseteq responses
  /\ UNCHANGED <<requests, executed>>

(* Requests are executed or vanish, responses come or vanish. *)
GatewayMoves ==
  /\ UNCHANGED <<call, outcome>>
  /\ requests' \subseteq requests
  /\ executed \subseteq executed' /\ executed' \subseteq executed \cup requests
  /\ \A r \in responses' \ responses :
       \E m \in requests :
         /\ r.caller = m.caller /\ r.number = m.number
         /\ r.status \in {"ok", "failed"}
         /\ r.status = "ok" => m \in executed'

LEMMA CallFields ==
  ASSUME NEW pc, NEW command, NEW builder, NEW todo, NEW read
  PROVE  /\ Call(pc, command, builder, todo, read).pc = pc
         /\ Call(pc, command, builder, todo, read).command = command
         /\ Call(pc, command, builder, todo, read).builder = builder
         /\ Call(pc, command, builder, todo, read).todo = todo
         /\ Call(pc, command, builder, todo, read).read = read
BY DEF Call

LEMMA MessageFields ==
  ASSUME NEW c
  PROVE  /\ MessageOf(c).caller = c /\ MessageOf(c).number = Number(c)
         /\ MessageOf(c).command = call[c].command
         /\ MessageOf(c).asked = call[c].builder
         /\ MessageOf(c).request = FilledRequest(c)
BY DEF MessageOf

-----------------------------------------------------------------------------
LEMMA ProceedsKeeps == ASSUME OutcomeInv, NEW c \in Caller, Proceeds(c) PROVE OutcomeInv'
<1>1. PICK new : new.pc # "awaiting" /\ call' = [call EXCEPT ![c] = new]
  BY DEF Proceeds, Update
<1>2. /\ \A d \in Caller : d # c => call'[d] = call[d]
      /\ call'[c].pc # "awaiting"
      /\ call' = [d \in Caller |-> call'[d]]
  BY <1>1 DEF OutcomeInv, Shapes
<1>3. UNCHANGED <<outcome, requests, responses, executed>> /\ call[c].pc # "awaiting"
  BY DEF Proceeds
<1>4. Shapes'
  BY <1>2, <1>3 DEF OutcomeInv, Shapes
<1>5. PlaceInv'
  <2>1. SUFFICES ASSUME NEW m \in requests \cup executed
                 PROVE  \/ m.number < Number(m.caller)
                        \/ m.number = Number(m.caller) /\ call'[m.caller].pc = "awaiting"
    BY <1>3 DEF PlaceInv, Number, OutcomeInv, IsCall
  <2> QED BY <1>2, <1>3, <2>1 DEF PlaceInv, OutcomeInv, Shapes
<1>6. OutcomeTellsExecution'
  BY <1>3 DEF OutcomeInv, OutcomeTellsExecution, IsCall
<1> QED BY <1>4, <1>5, <1>6 DEF OutcomeInv

LEMMA ReturnsKeeps == ASSUME OutcomeInv, NEW c \in Caller, Returns(c) PROVE OutcomeInv'
<1>1. PICK result \in Outcome :
        /\ Return(c, result)
        /\ result = "ok" => \E m \in executed : IsCall(m, c, Number(c))
        /\ result \in {"invalid", "file_io", "denied"} => call[c].pc # "awaiting"
  BY DEF Returns
<1>2. /\ responses' \subseteq responses
      /\ UNCHANGED <<requests, executed>>
  BY DEF Returns
<1>3. /\ outcome' \in [Caller -> Seq(Outcome)]
      /\ outcome'[c] = Append(outcome[c], result)
      /\ \A d \in Caller : d # c => outcome'[d] = outcome[d] /\ call'[d] = call[d]
      /\ call' = [d \in Caller |-> call'[d]]
  <2>1. /\ outcome' = [outcome EXCEPT ![c] = Append(outcome[c], result)]
        /\ call' = [call EXCEPT ![c] = NoCall]
    BY <1>1 DEF Return
  <2>2. /\ outcome \in [Caller -> Seq(Outcome)]
        /\ call = [d \in Caller |-> call[d]]
    BY DEF OutcomeInv, Shapes
  <2>3. Append(outcome[c], result) \in Seq(Outcome)
    BY <2>2
  <2>4. /\ outcome' \in [Caller -> Seq(Outcome)]
        /\ outcome'[c] = Append(outcome[c], result)
        /\ \A d \in Caller : d # c => outcome'[d] = outcome[d]
    BY <2>1, <2>2, <2>3
  <2>5. /\ \A d \in Caller : d # c => call'[d] = call[d]
        /\ call' = [d \in Caller |-> call'[d]]
    BY <2>1, <2>2
  <2> QED BY <2>4, <2>5
<1>4. /\ outcome[c] \in Seq(Outcome)
      /\ Number(c) \in Nat
      /\ Number(c)' = Number(c) + 1
      /\ \A d \in Caller : d # c => Number(d)' = Number(d)
      /\ \A d \in Caller : Number(d) \in Nat
  BY <1>3 DEF Number, OutcomeInv, Shapes
<1>5. Shapes'
  BY <1>2, <1>3 DEF OutcomeInv, Shapes
<1>6. PlaceInv'
  <2>1. ASSUME NEW m \in requests \cup executed
        PROVE  \/ m.number < Number(m.caller)'
               \/ m.number = Number(m.caller)' /\ call'[m.caller].pc = "awaiting"
    <3>1. m.caller \in Caller /\ m.number \in Nat
      BY DEF OutcomeInv, Shapes
    <3>2. \/ m.number < Number(m.caller)
          \/ m.number = Number(m.caller) /\ call[m.caller].pc = "awaiting"
      BY DEF OutcomeInv, PlaceInv
    <3>3. CASE m.caller = c
      BY <1>4, <3>1, <3>2, <3>3
    <3>4. CASE m.caller # c
      BY <1>3, <1>4, <3>1, <3>2, <3>4
    <3> QED BY <3>3, <3>4
  <2>2. \A r \in responses' :
          r.status = "ok" => \E m \in executed : IsCall(m, r.caller, r.number)
    BY <1>2 DEF OutcomeInv, PlaceInv
  <2> QED BY <1>2, <2>1, <2>2 DEF PlaceInv, Number, IsCall
<1>7. OutcomeTellsExecution'
  <2> SUFFICES ASSUME NEW d \in Caller, NEW n \in DOMAIN outcome'[d]
               PROVE  /\ outcome'[d][n] = "ok" => \E m \in executed : IsCall(m, d, n)
                      /\ outcome'[d][n] \in {"invalid", "file_io", "denied"} =>
                           ~\E m \in requests \cup executed : IsCall(m, d, n)
    BY <1>2 DEF OutcomeTellsExecution, IsCall
  <2>1. CASE d = c /\ n = Number(c)
    <3>1. outcome'[d][n] = result
      BY <1>3, <1>4, <2>1 DEF Number
    <3>2. call[c].pc # "awaiting" => ~\E m \in requests \cup executed : IsCall(m, c, n)
      <4> SUFFICES ASSUME call[c].pc # "awaiting",
                          NEW m \in requests \cup executed, m.caller = c
                   PROVE  m.number # n
        BY DEF IsCall
      <4>1. m.number \in Nat /\ m.number < Number(m.caller)
        BY DEF OutcomeInv, PlaceInv, Shapes
      <4> QED BY <1>4, <2>1, <4>1
    <3> QED BY <1>1, <2>1, <3>1, <3>2
  <2>2. CASE ~(d = c /\ n = Number(c))
    <3>1. n \in DOMAIN outcome[d] /\ outcome'[d][n] = outcome[d][n]
      <4>1. CASE d = c
        <5>1. DOMAIN outcome'[c] = 1..(Len(outcome[c]) + 1)
          BY <1>3, <1>4
        <5>2. n \in 1..Len(outcome[c])
          BY <1>4, <2>2, <4>1, <5>1 DEF Number
        <5> QED BY <1>3, <1>4, <4>1, <5>2
      <4>2. CASE d # c
        BY <1>3, <4>2
      <4> QED BY <4>1, <4>2
    <3> QED BY <3>1 DEF OutcomeInv, OutcomeTellsExecution
  <2> QED BY <2>1, <2>2
<1> QED BY <1>5, <1>6, <1>7 DEF OutcomeInv

LEMMA TransmitKeeps == ASSUME OutcomeInv, NEW c \in Caller, Transmit(c) PROVE OutcomeInv'
<1> DEFINE m == MessageOf(c)
<1>1. /\ m.caller = c /\ m.number = Number(c)
      /\ requests' = requests \cup {m}
      /\ UNCHANGED <<outcome, responses, executed>>
  BY MessageFields DEF Transmit
<1>2. /\ call'[c].pc = "awaiting" /\ call[c].pc = "connecting"
      /\ \A d \in Caller : d # c => call'[d] = call[d]
      /\ call' = [d \in Caller |-> call'[d]]
  <2> DEFINE new == Call("awaiting", call[c].command, call[c].builder, call[c].todo,
                         call[c].read)
  <2>1. call[c].pc = "connecting" /\ call' = [call EXCEPT ![c] = new]
    BY DEF Transmit, Goto, Update
  <2>2. new.pc = "awaiting"
    BY CallFields
  <2>3. call = [d \in Caller |-> call[d]]
    BY DEF OutcomeInv, Shapes
  <2> HIDE DEF new
  <2> QED BY <2>1, <2>2, <2>3
<1>3. \A d \in Caller : Number(d) \in Nat /\ Number(d)' = Number(d)
  BY <1>1 DEF Number, OutcomeInv, Shapes
<1> HIDE DEF m
<1>4. Shapes'
  BY <1>1, <1>2, <1>3 DEF OutcomeInv, Shapes
<1>5. PlaceInv'
  <2>1. ASSUME NEW x \in requests' \cup executed'
        PROVE  \/ x.number < Number(x.caller)'
               \/ x.number = Number(x.caller)' /\ call'[x.caller].pc = "awaiting"
    <3>1. CASE x = m
      BY <1>1, <1>2, <1>3, <3>1
    <3>2. CASE x \in requests \cup executed
      BY <1>2, <1>3, <3>2 DEF OutcomeInv, PlaceInv, Shapes
    <3> QED BY <1>1, <3>1, <3>2
  <2>2. \A r \in responses :
          r.status = "ok" => \E x \in executed : IsCall(x, r.caller, r.number)
    BY DEF OutcomeInv, PlaceInv
  <2> QED BY <1>1, <2>1, <2>2 DEF PlaceInv, Number, IsCall
<1>6. OutcomeTellsExecution'
  <2> SUFFICES ASSUME NEW d \in Caller, NEW n \in DOMAIN outcome[d]
               PROVE  /\ outcome[d][n] = "ok" => \E x \in executed : IsCall(x, d, n)
                      /\ outcome[d][n] \in {"invalid", "file_io", "denied"} =>
                           ~\E x \in requests' \cup executed : IsCall(x, d, n)
    BY <1>1 DEF OutcomeTellsExecution, IsCall
  <2>1. ~IsCall(m, d, n)
    BY <1>1 DEF IsCall, Number, OutcomeInv, Shapes
  <2> QED BY <1>1, <2>1 DEF OutcomeInv, OutcomeTellsExecution
<1> QED BY <1>4, <1>5, <1>6 DEF OutcomeInv

LEMMA GatewayKeeps == ASSUME OutcomeInv, GatewayMoves PROVE OutcomeInv'
<1>1. /\ UNCHANGED <<call, outcome>>
      /\ requests' \cup executed' \subseteq requests \cup executed
      /\ executed \subseteq executed'
  BY DEF GatewayMoves
<1>2. \A r \in responses' :
        /\ r.caller \in Caller /\ r.number \in Nat /\ r.status \in {"ok", "failed"}
        /\ r.status = "ok" => \E m \in executed' : IsCall(m, r.caller, r.number)
  <2> SUFFICES ASSUME NEW r \in responses'
               PROVE  /\ r.caller \in Caller /\ r.number \in Nat
                      /\ r.status \in {"ok", "failed"}
                      /\ r.status = "ok" =>
                           \E m \in executed' : IsCall(m, r.caller, r.number)
    OBVIOUS
  <2>1. CASE r \in responses
    BY <1>1, <2>1 DEF OutcomeInv, Shapes, PlaceInv
  <2>2. CASE r \notin responses
    <3>1. PICK m \in requests :
            /\ r.caller = m.caller /\ r.number = m.number
            /\ r.status \in {"ok", "failed"}
            /\ r.status = "ok" => m \in executed'
      BY <2>2 DEF GatewayMoves
    <3> QED BY <3>1 DEF OutcomeInv, Shapes, IsCall
  <2> QED BY <2>1, <2>2
<1>3. Shapes'
  BY <1>1, <1>2 DEF OutcomeInv, Shapes
<1>4. PlaceInv'
  BY <1>1, <1>2 DEF OutcomeInv, PlaceInv, Number, IsCall
<1>5. OutcomeTellsExecution'
  BY <1>1 DEF OutcomeInv, OutcomeTellsExecution, IsCall
<1> QED BY <1>3, <1>4, <1>5 DEF OutcomeInv

-----------------------------------------------------------------------------
LEMMA OutcomeInvInit == Init => OutcomeInv
<1> SUFFICES ASSUME Init PROVE OutcomeInv
  OBVIOUS
<1>1. /\ call = [c \in Caller |-> NoCall]
      /\ outcome = [c \in Caller |-> <<>>]
      /\ requests = {} /\ responses = {} /\ executed = {}
  BY DEF Init
<1>2. \A c \in Caller : outcome[c] = <<>>
  BY <1>1
<1> QED BY <1>1, <1>2 DEF OutcomeInv, Shapes, PlaceInv, OutcomeTellsExecution

(* Every step of a caller is of one of the first three kinds. *)
LEMMA CallerKinds ==
  ASSUME OutcomeInv, NEW c \in Caller, CallerStep(c)
  PROVE  Proceeds(c) \/ Returns(c) \/ Transmit(c)
<1> USE DEF wireVars
<1>1. CASE NewCall(c)
  <2>1. PICK command \in Sent :
          Update(c, Call("building", command, NewBuilder(command), <<>>, <<>>))
    BY <1>1 DEF NewCall
  <2> QED BY <1>1, <2>1, CallFields DEF NewCall, Proceeds
<1>2. CASE SetField(c)
  <2>1. PICK builder :
          Update(c, Call("building", call[c].command, builder, <<>>, <<>>))
    BY <1>2 DEF SetField
  <2> QED BY <1>2, <2>1, CallFields DEF SetField, Proceeds
<1>3. CASE Send(c)
  <2>1. call[c].pc = "building" /\ UNCHANGED wireVars
    BY <1>3 DEF Send
  <2>2. CASE Return(c, "invalid")
    BY <2>1, <2>2 DEF Returns, Outcome
  <2>3. CASE /\ Update(c, Call("reading", call[c].command, call[c].builder,
                               Files(call[c].command, call[c].builder), <<>>))
             /\ UNCHANGED outcome
    BY <2>1, <2>3, CallFields DEF Proceeds
  <2> QED BY <1>3, <2>2, <2>3 DEF Send
<1>4. CASE ReadFile(c)
  <2>1. call[c].pc = "reading" /\ UNCHANGED wireVars
    BY <1>4 DEF ReadFile
  <2>2. CASE Return(c, "file_io")
    BY <2>1, <2>2 DEF Returns, Outcome
  <2>3. CASE /\ Update(c, Call("reading", call[c].command, call[c].builder,
                               Tail(call[c].todo),
                               Append(call[c].read, Head(call[c].todo))))
             /\ UNCHANGED outcome
    BY <2>1, <2>3, CallFields DEF Proceeds
  <2> QED BY <1>4, <2>2, <2>3 DEF ReadFile
<1>5. CASE Intercept(c)
  <2>1. call[c].pc = "reading" /\ UNCHANGED wireVars
    BY <1>5 DEF Intercept
  <2>2. CASE Return(c, "denied")
    BY <2>1, <2>2 DEF Returns, Outcome
  <2>3. CASE Goto(c, "connecting") /\ UNCHANGED outcome
    BY <2>1, <2>3, CallFields DEF Proceeds, Goto
  <2> QED BY <1>5, <2>2, <2>3 DEF Intercept
<1>6. CASE Transmit(c)
  BY <1>6
<1>7. CASE ConnectFails(c)
  BY <1>7 DEF ConnectFails, Returns, Outcome
<1>8. CASE Respond(c)
  <2>1. PICK r \in responses :
          /\ r.caller = c /\ r.number = Number(c)
          /\ Return(c, r.status)
          /\ responses' = responses \ {r}
    BY <1>8 DEF Respond
  <2>2. /\ r.status \in {"ok", "failed"}
        /\ r.status = "ok" => \E m \in executed : IsCall(m, c, Number(c))
    BY <2>1 DEF OutcomeInv, Shapes, PlaceInv
  <2>3. UNCHANGED <<requests, executed>>
    BY <1>8 DEF Respond
  <2> QED BY <2>1, <2>2, <2>3 DEF Returns, Outcome
<1>9. CASE TimesOut(c)
  BY <1>9 DEF TimesOut, Returns, Outcome
<1>10. CASE Abandon(c)
  BY <1>10 DEF Abandon, Returns, Outcome
<1> QED BY <1>1, <1>2, <1>3, <1>4, <1>5, <1>6, <1>7, <1>8, <1>9, <1>10 DEF CallerStep

LEMMA EnvironmentKind ==
  ASSUME \/ \E m \in requests : Execute(m) \/ Reject(m)
         \/ Lose \/ DiskChanges \/ TokenCached
  PROVE  GatewayMoves
<1> USE DEF wireVars
<1>1. ASSUME NEW m \in requests, Execute(m) PROVE GatewayMoves
  BY <1>1 DEF Execute, GatewayMoves, ResponseTo
<1>2. ASSUME NEW m \in requests, Reject(m) PROVE GatewayMoves
  BY <1>2 DEF Reject, GatewayMoves, ResponseTo
<1>3. CASE Lose
  BY <1>3 DEF Lose, GatewayMoves
<1>4. CASE DiskChanges \/ TokenCached
  BY <1>4 DEF DiskChanges, TokenCached, GatewayMoves
<1> QED BY <1>1, <1>2, <1>3, <1>4

LEMMA OutcomeInvStep == OutcomeInv /\ [Next]_vars => OutcomeInv'
<1> SUFFICES ASSUME OutcomeInv, [Next]_vars PROVE OutcomeInv'
  OBVIOUS
<1>1. ASSUME NEW c \in Caller, CallerStep(c) PROVE OutcomeInv'
  BY <1>1, CallerKinds, ProceedsKeeps, ReturnsKeeps, TransmitKeeps
<1>2. CASE \/ \E m \in requests : Execute(m) \/ Reject(m)
           \/ Lose \/ DiskChanges \/ TokenCached
  BY <1>2, EnvironmentKind, GatewayKeeps
<1>3. CASE UNCHANGED vars
  <2>1. GatewayMoves
    BY <1>3 DEF GatewayMoves, vars, wireVars
  <2> QED BY <2>1, GatewayKeeps
<1> QED BY <1>1, <1>2, <1>3 DEF Next

(* Ok means that the command was executed, an error of the client's own    *)
(* checks that it neither was nor will be, for all callers at once.        *)
THEOREM OutcomesTellExecution == Spec => []OutcomeTellsExecution
<1>1. Spec => []OutcomeInv
  BY OutcomeInvInit, OutcomeInvStep, PTL DEF Spec
<1>2. OutcomeInv => OutcomeTellsExecution
  BY DEF OutcomeInv
<1> QED BY <1>1, <1>2, PTL

-----------------------------------------------------------------------------
(***************************************************************************)
(* Deployments.                                                            *)
(***************************************************************************)
DeployBuilder == [{"resource_files"} -> {NoValue} \cup Seq(File)]

(* Of one call: what has been read and what is to be read are what the     *)
(* builder names.                                                          *)
WholeCall(k) ==
  /\ k.read \in Seq(File) /\ k.todo \in Seq(File)
  /\ k.pc # "idle" /\ k.command = "deploy_process" => k.builder \in DeployBuilder
  /\ k.pc \in {"reading", "connecting"} =>
       k.read \o k.todo = Files(k.command, k.builder)
  /\ k.pc = "connecting" => k.todo = <<>>

DeployInv ==
  /\ call = [c \in Caller |-> call[c]] /\ \A c \in Caller : WholeCall(call[c])
  /\ DeployIsWhole

LEMMA DeployFields == FieldsOf("deploy_process") = {"resource_files"}
<1>1. CommandOf["deploy_process"] = DeployProcess
  BY DEF CommandOf
<1>2. DOMAIN DeployProcess.default = {"resource_files"}
  BY DEF DeployProcess, Command
<1> QED BY <1>1, <1>2 DEF FieldsOf

(* The setter of the files takes a sequence of files. *)
LEMMA SetterOfFiles ==
  ASSUME NEW files \in SetterValues("resource_files") PROVE files \in Seq(File)
<1>1. SetterValues("resource_files") = {<<f>> : f \in File} \cup (File \X File)
  BY DEF SetterValues, NumberFields, KeyFields
<1>2. \A f \in File : <<f>> \in Seq(File)
  OBVIOUS
<1>3. \A p \in File \X File : p \in Seq(File)
  <2>1. \A f, g \in File : <<f, g>> \in Seq(File)
    OBVIOUS
  <2>2. \A p \in File \X File : \E f, g \in File : p = <<f, g>>
    OBVIOUS
  <2> QED BY <2>1, <2>2
<1> QED BY <1>1, <1>2, <1>3

LEMMA FilesType ==
  ASSUME NEW command, NEW builder,
         command = "deploy_process" => builder \in DeployBuilder
  PROVE  Files(command, builder) \in Seq(File)
BY DEF Files, DeployBuilder

LEMMA Shift ==
  ASSUME NEW read \in Seq(File), NEW todo \in Seq(File), todo # <<>>
  PROVE  /\ Append(read, Head(todo)) \in Seq(File) /\ Tail(todo) \in Seq(File)
         /\ Append(read, Head(todo)) \o Tail(todo) = read \o todo
OBVIOUS

LEMMA OneWholeCall ==
  ASSUME DeployInv, NEW c \in Caller, NEW k, WholeCall(k), Update(c, k)
  PROVE  call' = [d \in Caller |-> call'[d]] /\ \A d \in Caller : WholeCall(call'[d])
BY DEF DeployInv, Update

(* What the gateway or the connection does to messages keeps them whole.   *)
LEMMA SameMessages ==
  ASSUME DeployIsWhole, requests' \cup executed' \subseteq requests \cup executed
  PROVE  DeployIsWhole'
BY DEF DeployIsWhole

LEMMA ReturnKeepsWhole ==
  ASSUME DeployInv, NEW c \in Caller, NEW result, Return(c, result),
         UNCHANGED <<requests, executed>>
  PROVE  DeployInv'
<1>1. NoCall.read = <<>> /\ NoCall.todo = <<>> /\ NoCall.pc = "idle"
  BY CallFields DEF NoCall
<1>2. WholeCall(NoCall)
  BY <1>1 DEF WholeCall
<1>3. Update(c, NoCall)
  BY DEF Return, Update
<1> QED BY <1>2, <1>3, OneWholeCall, SameMessages DEF DeployInv

(* A caller that goes on with its call, which stays whole. *)
LEMMA GoesOn ==
  ASSUME DeployInv, NEW c \in Caller, NEW k, WholeCall(k), Update(c, k),
         UNCHANGED <<requests, executed>>
  PROVE  DeployInv'
BY OneWholeCall, SameMessages DEF DeployInv

LEMMA NewCallWhole == ASSUME DeployInv, NEW c \in Caller, NewCall(c) PROVE DeployInv'
<1>1. PICK command \in Sent :
        Update(c, Call("building", command, NewBuilder(command), <<>>, <<>>))
  BY DEF NewCall
<1>2. command = "deploy_process" => NewBuilder(command) \in DeployBuilder
  BY DeployFields DEF NewBuilder, DeployBuilder
<1>3. UNCHANGED <<requests, executed>>
  BY DEF NewCall, wireVars
<1> DEFINE k == Call("building", command, NewBuilder(command), <<>>, <<>>)
<1>4. /\ k.pc = "building" /\ k.command = command /\ k.builder = NewBuilder(command)
      /\ k.todo = <<>> /\ k.read = <<>>
  BY CallFields
<1>5. Update(c, k)
  BY <1>1
<1> HIDE DEF k
<1>6. WholeCall(k)
  BY <1>2, <1>4 DEF WholeCall
<1> QED BY <1>3, <1>5, <1>6, GoesOn

LEMMA SetFieldWhole == ASSUME DeployInv, NEW c \in Caller, SetField(c) PROVE DeployInv'
<1> DEFINE k == call[c]
<1>1. PICK field \in DOMAIN k.builder : \E value \in SetterValues(field) :
        Update(c, Call("building", k.command, With(k.builder, field, value), <<>>, <<>>))
  BY DEF SetField
<1>2. PICK value \in SetterValues(field) :
        Update(c, Call("building", k.command, With(k.builder, field, value), <<>>, <<>>))
  BY <1>1
<1>3. ASSUME k.command = "deploy_process"
      PROVE  With(k.builder, field, value) \in DeployBuilder
  <2>1. k.builder \in DeployBuilder
    BY <1>3 DEF DeployInv, WholeCall, SetField
  <2>2. field = "resource_files"
    BY <2>1 DEF DeployBuilder
  <2>3. value \in Seq(File)
    BY <1>2, <2>2, SetterOfFiles
  <2> QED BY <2>1, <2>2, <2>3 DEF With, DeployBuilder
<1>4. UNCHANGED <<requests, executed>>
  BY DEF SetField, wireVars
<1> DEFINE n == Call("building", k.command, With(k.builder, field, value), <<>>, <<>>)
<1>5. /\ n.pc = "building" /\ n.command = k.command
      /\ n.builder = With(k.builder, field, value)
      /\ n.todo = <<>> /\ n.read = <<>>
  BY CallFields
<1>6. Update(c, n)
  BY <1>2
<1> HIDE DEF n
<1>7. WholeCall(n)
  BY <1>3, <1>5 DEF WholeCall
<1> QED BY <1>4, <1>6, <1>7, GoesOn

LEMMA SendWhole == ASSUME DeployInv, NEW c \in Caller, Send(c) PROVE DeployInv'
<1> DEFINE k == call[c]
           files == Files(k.command, k.builder)
<1>1. k.pc = "building" /\ UNCHANGED <<requests, executed>>
  BY DEF Send, wireVars
<1>2. CASE Return(c, "invalid")
  BY <1>1, <1>2, ReturnKeepsWhole
<1>3. CASE Update(c, Call("reading", k.command, k.builder, files, <<>>))
  <2>1. k.command = "deploy_process" => k.builder \in DeployBuilder
    BY <1>1 DEF DeployInv, WholeCall
  <2>2. files \in Seq(File)
    BY <2>1, FilesType
  <2>3. <<>> \o files = files
    BY <2>2
  <2> DEFINE n == Call("reading", k.command, k.builder, files, <<>>)
  <2>4. /\ n.pc = "reading" /\ n.command = k.command /\ n.builder = k.builder
        /\ n.todo = files /\ n.read = <<>>
    BY CallFields
  <2> HIDE DEF n
  <2>5. WholeCall(n)
    BY <2>1, <2>2, <2>3, <2>4 DEF WholeCall
  <2> QED BY <1>1, <1>3, <2>5, GoesOn DEF n
<1> QED BY <1>2, <1>3 DEF Send

LEMMA ReadFileWhole == ASSUME DeployInv, NEW c \in Caller, ReadFile(c) PROVE DeployInv'
<1> DEFINE k == call[c]
<1>1. k.pc = "reading" /\ k.todo # <<>> /\ UNCHANGED <<requests, executed>>
  BY DEF ReadFile, wireVars
<1>2. CASE Return(c, "file_io")
  BY <1>1, <1>2, ReturnKeepsWhole
<1>3. CASE Update(c, Call("reading", k.command, k.builder, Tail(k.todo),
                          Append(k.read, Head(k.todo))))
  <2>1. WholeCall(k)
    BY DEF DeployInv
  <2>2. k.read \in Seq(File) /\ k.todo \in Seq(File)
    BY <2>1 DEF WholeCall
  <2>3. /\ Append(k.read, Head(k.todo)) \in Seq(File) /\ Tail(k.todo) \in Seq(File)
        /\ Append(k.read, Head(k.todo)) \o Tail(k.todo) = k.read \o k.todo
    BY <1>1, <2>2, Shift
  <2>4. /\ k.read \o k.todo = Files(k.command, k.builder)
        /\ k.command = "deploy_process" => k.builder \in DeployBuilder
    BY <1>1, <2>1 DEF WholeCall
  <2> DEFINE todo == Tail(k.todo)
             read == Append(k.read, Head(k.todo))
             n == Call("reading", k.command, k.builder, todo, read)
  <2>5. Update(c, n)
    BY <1>3
  <2>6. todo \in Seq(File) /\ read \in Seq(File) /\ read \o todo = k.read \o k.todo
    BY <2>3
  <2> HIDE DEF todo, read
  <2>7. /\ n.pc = "reading" /\ n.command = k.command /\ n.builder = k.builder
        /\ n.todo = todo /\ n.read = read
    BY CallFields
  <2> HIDE DEF n, k
  <2>8. WholeCall(n)
    BY <2>4, <2>6, <2>7 DEF WholeCall
  <2> QED BY <1>1, <2>5, <2>8, GoesOn
<1> QED BY <1>2, <1>3 DEF ReadFile

LEMMA InterceptWhole == ASSUME DeployInv, NEW c \in Caller, Intercept(c) PROVE DeployInv'
<1> DEFINE k == call[c]
<1>1. k.pc = "reading" /\ k.todo = <<>> /\ UNCHANGED <<requests, executed>>
  BY DEF Intercept, wireVars
<1>2. CASE Return(c, "denied")
  BY <1>1, <1>2, ReturnKeepsWhole
<1>3. CASE Goto(c, "connecting")
  <2>1. Update(c, Call("connecting", k.command, k.builder, k.todo, k.read))
    BY <1>3 DEF Goto
  <2>2. WholeCall(k)
    BY DEF DeployInv
  <2> DEFINE n == Call("connecting", k.command, k.builder, k.todo, k.read)
  <2>3. /\ n.pc = "connecting" /\ n.command = k.command /\ n.builder = k.builder
        /\ n.todo = k.todo /\ n.read = k.read
    BY CallFields
  <2> HIDE DEF n
  <2>4. WholeCall(n)
    BY <1>1, <2>2, <2>3 DEF WholeCall
  <2> QED BY <1>1, <2>1, <2>4, GoesOn DEF n
<1> QED BY <1>2, <1>3 DEF Intercept

(* The message carries what was read, and nothing is left to be read.      *)
LEMMA TransmitWhole == ASSUME DeployInv, NEW c \in Caller, Transmit(c) PROVE DeployInv'
<1> DEFINE k == call[c]
           m == MessageOf(c)
<1>1. /\ k.pc = "connecting" /\ requests' = requests \cup {m} /\ executed' = executed
      /\ Update(c, Call("awaiting", k.command, k.builder, k.todo, k.read))
  BY DEF Transmit, Goto
<1>2. WholeCall(k)
  BY DEF DeployInv
<1>3. k.read \in Seq(File) /\ k.todo = <<>> /\ k.read \o k.todo = Files(k.command, k.builder)
  BY <1>1, <1>2 DEF WholeCall
<1>4. k.read = Files(k.command, k.builder)
  BY <1>3
<1>5. ASSUME k.command = "deploy_process"
      PROVE  m.request.resource_files = Files("deploy_process", m.asked)
  <2> DEFINE request == RequestOf(k.command, k.builder, current_job_key[c])
  <2>1. DOMAIN request = {"resource_files"}
    BY <1>5, DeployFields DEF RequestOf
  <2> HIDE DEF request
  <2>2. [request EXCEPT !.resource_files = k.read].resource_files = k.read
    BY <2>1
  <2>3. FilledRequest(c) = [request EXCEPT !.resource_files = k.read]
    BY <1>5 DEF FilledRequest, request
  <2> QED BY <1>4, <1>5, <2>2, <2>3, MessageFields
<1>6. m.command = k.command
  BY MessageFields
<1> DEFINE n == Call("awaiting", k.command, k.builder, k.todo, k.read)
<1>7. WholeCall(n)
  <2>1. /\ n.pc = "awaiting" /\ n.command = k.command /\ n.builder = k.builder
        /\ n.todo = k.todo /\ n.read = k.read
    BY CallFields
  <2> HIDE DEF n
  <2> QED BY <1>1, <1>2, <2>1 DEF WholeCall
<1>8. call' = [d \in Caller |-> call'[d]] /\ \A d \in Caller : WholeCall(call'[d])
  BY <1>1, <1>7, OneWholeCall
<1> HIDE DEF m
<1>9. DeployIsWhole'
  BY <1>1, <1>5, <1>6 DEF DeployIsWhole, DeployInv
<1> QED BY <1>8, <1>9 DEF DeployInv

LEMMA DeployInvInit == Init => DeployInv
<1> SUFFICES ASSUME Init PROVE DeployInv
  OBVIOUS
<1>1. NoCall.read = <<>> /\ NoCall.todo = <<>> /\ NoCall.pc = "idle"
  BY CallFields DEF NoCall
<1>2. WholeCall(NoCall)
  BY <1>1 DEF WholeCall
<1>3. /\ call = [c \in Caller |-> NoCall]
      /\ requests = {} /\ executed = {}
  BY DEF Init
<1> QED BY <1>2, <1>3 DEF DeployInv, DeployIsWhole

LEMMA DeployInvStep == DeployInv /\ [Next]_vars => DeployInv'
<1> SUFFICES ASSUME DeployInv, [Next]_vars PROVE DeployInv'
  OBVIOUS
<1>1. ASSUME NEW c \in Caller, CallerStep(c) PROVE DeployInv'
  <2>1. ASSUME NEW result, Return(c, result), UNCHANGED <<requests, executed>>
        PROVE  DeployInv'
    BY <2>1, ReturnKeepsWhole
  <2>2. CASE ConnectFails(c) \/ TimesOut(c) \/ Abandon(c)
    BY <2>1, <2>2 DEF ConnectFails, TimesOut, Abandon, wireVars
  <2>3. CASE Respond(c)
    BY <2>1, <2>3 DEF Respond
  <2> QED BY <1>1, <2>2, <2>3, NewCallWhole, SetFieldWhole, SendWhole, ReadFileWhole,
             InterceptWhole, TransmitWhole DEF CallerStep
<1>2. ASSUME UNCHANGED call, requests' \cup executed' \subseteq requests \cup executed
      PROVE  DeployInv'
  BY <1>2, SameMessages DEF DeployInv
<1>3. CASE \/ \E m \in requests : Execute(m) \/ Reject(m)
           \/ Lose \/ DiskChanges \/ TokenCached
  <2>1. GatewayMoves
    BY <1>3, EnvironmentKind
  <2> QED BY <1>2, <2>1 DEF GatewayMoves
<1>4. CASE UNCHANGED vars
  BY <1>2, <1>4 DEF vars, wireVars
<1> QED BY <1>1, <1>3, <1>4 DEF Next

(* However the files change while they are read, a deployment leaves with  *)
(* all the files that were named, in their order, or does not leave.       *)
THEOREM DeploymentsWhole == Spec => []DeployIsWhole
<1>1. Spec => []DeployInv
  BY DeployInvInit, DeployInvStep, PTL DEF Spec
<1>2. DeployInv => DeployIsWhole
  BY DEF DeployInv
<1> QED BY <1>1, <1>2, PTL

-----------------------------------------------------------------------------
(***************************************************************************)
(* Requests: what they carry, and that it is what was asked for.           *)
(***************************************************************************)
(* The cast keeps what fits, and what it makes fits.                       *)
LEMMA CastFits ==
  ASSUME NEW n \in Unsigned
  PROVE  AsSigned(n) \in Signed /\ (n \in Signed => AsSigned(n) = n)
<1>1. SignBit \in Int /\ SignBit >= 1
  BY WidthAssumption
<1>2. n \in Int /\ 0 <= n /\ n < 2 * SignBit
  BY <1>1 DEF Unsigned
<1>3. CASE n < SignBit
  BY <1>1, <1>2, <1>3 DEF AsSigned, Signed
<1>4. CASE ~(n < SignBit)
  BY <1>1, <1>2, <1>4 DEF AsSigned, Signed
<1> QED BY <1>3, <1>4

LEMMA RequestTypes ==
  /\ \A field \in NumberFields : RequestValues(field) = Signed
  /\ \A field \in KeyFields : RequestValues(field) = Key \cup {NoValue, 0}
  /\ RequestValues("version") = {LatestVersion, 1} /\ RequestValues("local") = BOOLEAN
  /\ RequestValues("resource_files") = Seq(File)
  /\ \A field \in {"variables", "error_message", "error_code", "bpmn_process_id",
                   "fetch_variables", "name", "correlation_key", "message_id"} :
       RequestValues(field) = Text \cup {NoValue, Empty}
BY DEF RequestValues, SetterValues, NumberFields, KeyFields

(* The defaults of a command have the types of its request, and those that *)
(* are no values belong to fields that send() demands, job keys among them. *)
WellDefined(command) ==
  \A field \in DOMAIN command.default :
    /\ command.default[field] \in RequestValues(field)
    /\ command.default[field] = NoValue => {field} \in command.required
    /\ field = "job_key" => command.default[field] = NoValue

LEMMA CommandsWellDefined ==
  ASSUME NEW command \in DOMAIN CommandOf PROVE WellDefined(CommandOf[command])
<1> USE NoValueAssumption, RequestTypes DEF WellDefined, Command, NumberFields, KeyFields
<1>0. 0 \in Signed /\ 0 # NoValue
  BY WidthAssumption DEF Signed
<1>1. WellDefined(CompleteJob)
  BY DEF CompleteJob
<1>2. WellDefined(FailJob)
  BY <1>0 DEF FailJob
<1>3. WellDefined(ThrowError)
  BY DEF ThrowError
<1>4. WellDefined(UpdateJobRetries)
  BY <1>0 DEF UpdateJobRetries
<1>5. WellDefined(CreateProcessInstance)
  BY <1>0 DEF CreateProcessInstance
<1>6. WellDefined(CreateProcessInstanceWithResult)
  BY <1>0 DEF CreateProcessInstanceWithResult
<1>7. WellDefined(CancelProcessInstance)
  BY DEF CancelProcessInstance
<1>8. WellDefined(SetVariables)
  <2> DEFINE default == SetVariables.default
  <2>1. /\ DOMAIN default = {"element_instance_key", "variables", "local"}
        /\ default["element_instance_key"] = NoValue /\ default["variables"] = Empty
        /\ default["local"] = FALSE
        /\ SetVariables.required = {{"element_instance_key"}}
    BY DEF SetVariables
  <2> HIDE DEF default
  <2>2. default["local"] \in BOOLEAN /\ default["local"] # NoValue
    BY <2>1, Zenon
  <2>3. \A field \in DOMAIN default :
          /\ default[field] \in RequestValues(field)
          /\ default[field] = NoValue => field = "element_instance_key"
    BY <2>1, <2>2
  <2> QED BY <2>1, <2>3 DEF default
<1>9. WellDefined(PublishMessage)
  BY <1>0 DEF PublishMessage
<1>10. WellDefined(ResolveIncident)
  BY DEF ResolveIncident
<1>11. WellDefined(DeployProcess)
  <2> DEFINE default == DeployProcess.default
  <2>1. DOMAIN default = {"resource_files"} /\ default["resource_files"] = <<>>
    BY DEF DeployProcess
  <2>2. <<>> \in Seq(File)
    OBVIOUS
  <2> HIDE DEF default
  <2>3. /\ default["resource_files"] \in RequestValues("resource_files")
        /\ default["resource_files"] # NoValue
    BY <2>1, <2>2
  <2> QED BY <2>1, <2>3 DEF default
<1>12. WellDefined(Topology)
  BY DEF Topology
<1>13. /\ CommandOf["complete_job"] = CompleteJob /\ CommandOf["fail_job"] = FailJob
       /\ CommandOf["throw_error"] = ThrowError
       /\ CommandOf["update_job_retries"] = UpdateJobRetries
       /\ CommandOf["create_process_instance"] = CreateProcessInstance
       /\ CommandOf["create_process_instance_with_result"] =
            CreateProcessInstanceWithResult
       /\ CommandOf["cancel_process_instance"] = CancelProcessInstance
       /\ CommandOf["set_variables"] = SetVariables
       /\ CommandOf["publish_message"] = PublishMessage
       /\ CommandOf["resolve_incident"] = ResolveIncident
       /\ CommandOf["deploy_process"] = DeployProcess
       /\ CommandOf["topology"] = Topology
  BY DEF CommandOf
<1>14. command \in
         {"complete_job", "fail_job", "throw_error", "update_job_retries",
          "create_process_instance", "create_process_instance_with_result",
          "cancel_process_instance", "set_variables", "publish_message",
          "resolve_incident", "deploy_process", "topology"}
  BY DEF CommandOf
<1> HIDE DEF WellDefined, Command
<1> QED BY <1>1, <1>2, <1>3, <1>4, <1>5, <1>6, <1>7, <1>8, <1>9, <1>10, <1>11, <1>12,
           <1>13, <1>14

(* What a setter takes, its field of a request can carry.                  *)
LEMMA SettersFit ==
  /\ \A field \in NumberFields : SetterValues(field) = Unsigned
  /\ \A field : field \notin NumberFields => SetterValues(field) \subseteq RequestValues(field)
<1>1. \A field \in NumberFields : SetterValues(field) = Unsigned
  BY DEF SetterValues, NumberFields, KeyFields
<1>2. ASSUME NEW field, field \notin NumberFields
      PROVE  SetterValues(field) \subseteq RequestValues(field)
  <2>1. CASE field \in KeyFields
    BY <1>2, <2>1 DEF SetterValues, RequestValues, NumberFields, KeyFields
  <2>2. CASE field \in {"version", "local"}
    BY <1>2, <2>2 DEF RequestValues, NumberFields, KeyFields
  <2>3. CASE field = "resource_files"
    <3>1. RequestValues("resource_files") = Seq(File)
      BY RequestTypes
    <3> QED BY <2>3, <3>1, SetterOfFiles
  <2>4. CASE field \notin KeyFields \cup {"version", "local", "resource_files"}
    BY <1>2, <2>4 DEF SetterValues, RequestValues
  <2> QED BY <2>1, <2>2, <2>3, <2>4
<1> QED BY <1>1, <1>2

IsBuilder(command, builder) ==
  /\ DOMAIN builder = FieldsOf(command)
  /\ builder = [field \in DOMAIN builder |-> builder[field]]
  /\ \A field \in FieldsOf(command) :
       builder[field] \in SetterValues(field) \cup {NoValue}

(* Of the call of a caller: a builder holds nothing but what its setters   *)
(* put there, and has passed the check of send() once it is being read.    *)
CallFits(c, k) ==
  /\ k.pc \in {"idle", "building", "reading", "connecting", "awaiting"}
  /\ k.pc # "idle" => k.command \in Sent /\ IsBuilder(k.command, k.builder)
  /\ k.pc \in {"reading", "connecting", "awaiting"} =>
       IsSendable(k.command, k.builder, current_job_key[c])

(* Nothing is missing in a message, and it says what was asked.            *)
MessageFits(m) ==
  /\ Message(m)
  /\ \A field \in DOMAIN m.request :
       m.request[field] # NoValue /\ AskedFor(m, field)

RequestInv ==
  /\ call = [c \in Caller |-> call[c]] /\ outcome \in [Caller -> Seq(Outcome)]
  /\ \A c \in Caller :
       /\ CallFits(c, call[c])
       /\ Len(outcome[c]) <= MaxCalls
       /\ call[c].pc # "idle" => Len(outcome[c]) < MaxCalls
  /\ token \in BOOLEAN /\ readable \subseteq File
  /\ \A m \in requests \cup executed : MessageFits(m)
  /\ responses \subseteq
       [caller : Caller, number : 1..MaxCalls, status : {"ok", "failed"}]

(* What send() makes of a builder that has passed its check.               *)
LEMMA RequestFits ==
  ASSUME NEW command \in DOMAIN CommandOf, NEW builder, IsBuilder(command, builder),
         NEW key \in Key \cup {NoValue}, IsSendable(command, builder, key),
         NEW field \in FieldsOf(command)
  PROVE  /\ RequestOf(command, builder, key)[field] \in RequestValues(field)
         /\ RequestOf(command, builder, key)[field] # NoValue
         /\ IF builder[field] # NoValue
              THEN (field \in NumberFields => builder[field] \in Signed) =>
                     RequestOf(command, builder, key)[field] = builder[field]
              ELSE RequestOf(command, builder, key)[field] =
                     IF field = "job_key" THEN key
                     ELSE CommandOf[command].default[field]
<1> DEFINE default == CommandOf[command].default
           value == RequestOf(command, builder, key)[field]
<1>1. value = IF field = "job_key" THEN JobKeyOf(builder, key)
              ELSE IF builder[field] = NoValue THEN default[field]
              ELSE IF field \in NumberFields THEN AsSigned(builder[field])
              ELSE builder[field]
  BY DEF RequestOf
<1>2. /\ default[field] \in RequestValues(field)
      /\ default[field] = NoValue => IsGiven(builder, field, key)
      /\ field = "job_key" => default[field] = NoValue
  <2>1. WellDefined(CommandOf[command]) /\ field \in DOMAIN default
    BY CommandsWellDefined DEF FieldsOf
  <2>2. default[field] \in RequestValues(field)
    BY <2>1 DEF WellDefined
  <2>3. default[field] = NoValue => {field} \in CommandOf[command].required
    BY <2>1 DEF WellDefined
  <2>4. {field} \in CommandOf[command].required => IsGiven(builder, field, key)
    BY DEF IsSendable
  <2>5. field = "job_key" => default[field] = NoValue
    BY <2>1 DEF WellDefined
  <2> QED BY <2>2, <2>3, <2>4, <2>5
<1>3. builder[field] \in SetterValues(field) \cup {NoValue}
  BY DEF IsBuilder
<1> HIDE DEF value, default
<1>4. CASE field = "job_key"
  <2>1. /\ RequestValues("job_key") = Key \cup {NoValue, 0}
        /\ SetterValues("job_key") \subseteq Key \cup {NoValue, 0}
    BY RequestTypes, SettersFit DEF KeyFields, NumberFields
  <2>2. value = IF builder[field] # NoValue THEN builder[field] ELSE key
    BY <1>1, <1>4 DEF JobKeyOf
  <2>3. value \in RequestValues(field)
    BY <1>3, <1>4, <2>1, <2>2
  <2>4. value # NoValue
    BY <1>2, <1>4, <2>2 DEF IsGiven
  <2> QED BY <1>4, <2>2, <2>3, <2>4 DEF value
<1>5. CASE field # "job_key" /\ builder[field] = NoValue
  <2>1. value = default[field]
    BY <1>1, <1>5
  <2>2. value # NoValue
    BY <1>2, <1>5, <2>1 DEF IsGiven
  <2> QED BY <1>2, <1>5, <2>1, <2>2 DEF value, default
<1>6. CASE field # "job_key" /\ builder[field] # NoValue /\ field \in NumberFields
  <2>1. builder[field] \in Unsigned
    BY <1>3, <1>6, SettersFit
  <2>2. value = AsSigned(builder[field])
    BY <1>1, <1>6
  <2>3. value \in Signed /\ (builder[field] \in Signed => value = builder[field])
    BY <2>1, <2>2, CastFits
  <2>4. value \in RequestValues(field) /\ value # NoValue
    BY <1>6, <2>3, RequestTypes, NoValueAssumption
  <2> QED BY <1>6, <2>3, <2>4 DEF value
<1>7. CASE field # "job_key" /\ builder[field] # NoValue /\ field \notin NumberFields
  <2>1. value = builder[field]
    BY <1>1, <1>7
  <2>2. value \in RequestValues(field)
    BY <1>3, <1>7, <2>1, SettersFit
  <2> QED BY <1>7, <2>1, <2>2 DEF value
<1> QED BY <1>4, <1>5, <1>6, <1>7

LEMMA RequestInvInit == Init => RequestInv
<1> SUFFICES ASSUME Init PROVE RequestInv
  OBVIOUS
<1>1. /\ call = [c \in Caller |-> NoCall] /\ outcome = [c \in Caller |-> <<>>]
      /\ token = FALSE /\ readable = File
      /\ requests = {} /\ responses = {} /\ executed = {}
  BY DEF Init
<1>2. NoCall.pc = "idle"
  BY CallFields DEF NoCall
<1>3. \A c \in Caller : CallFits(c, call[c]) /\ call[c].pc = "idle"
  BY <1>1, <1>2 DEF CallFits
<1>4. \A c \in Caller : outcome[c] = <<>> /\ Len(outcome[c]) <= MaxCalls
  <2>1. Len(<<>>) = 0 /\ MaxCalls \in Nat
    BY CallerAssumption
  <2> QED BY <1>1, <2>1
<1>5. outcome \in [Caller -> Seq(Outcome)]
  BY <1>1
<1> QED BY <1>1, <1>3, <1>4, <1>5 DEF RequestInv

(* A caller begins a call or goes on with it; no message is added.         *)
LEMMA GoesOnFits ==
  ASSUME RequestInv, NEW c \in Caller, NEW k, CallFits(c, k), Update(c, k),
         Len(outcome[c]) < MaxCalls,
         UNCHANGED <<outcome, token, readable, wireVars>>
  PROVE  RequestInv'
<1>1. UNCHANGED <<outcome, token, readable, requests, responses, executed>>
  BY DEF wireVars
<1>2. /\ call' = [d \in Caller |-> call'[d]]
      /\ call'[c] = k /\ \A d \in Caller : d # c => call'[d] = call[d]
  <2>1. call = [d \in Caller |-> call[d]] /\ call' = [call EXCEPT ![c] = k]
    BY DEF RequestInv, Update
  <2> QED BY <2>1
<1>3. \A d \in Caller :
        /\ CallFits(d, call'[d])
        /\ Len(outcome[d]) <= MaxCalls
        /\ call'[d].pc # "idle" => Len(outcome[d]) < MaxCalls
  BY <1>2 DEF RequestInv
<1>4. \A m \in requests \cup executed : MessageFits(m)
  BY DEF RequestInv
<1> QED BY <1>1, <1>2, <1>3, <1>4 DEF RequestInv, MessageFits, Message, AskedFor, CallFits

(* The call of a caller returns. *)
LEMMA ReturnFits ==
  ASSUME RequestInv, NEW c \in Caller, NEW result \in Outcome, Return(c, result),
         call[c].pc # "idle", responses' \subseteq responses,
         UNCHANGED <<token, readable, requests, executed>>
  PROVE  RequestInv'
<1>1. /\ outcome' = [outcome EXCEPT ![c] = Append(outcome[c], result)]
      /\ call' = [call EXCEPT ![c] = NoCall]
  BY DEF Return
<1>2. /\ call' = [d \in Caller |-> call'[d]]
      /\ call'[c] = NoCall /\ \A d \in Caller : d # c => call'[d] = call[d]
  <2>1. call = [d \in Caller |-> call[d]]
    BY DEF RequestInv
  <2> QED BY <1>1, <2>1
<1>3. /\ outcome' \in [Caller -> Seq(Outcome)]
      /\ outcome'[c] = Append(outcome[c], result)
      /\ \A d \in Caller : d # c => outcome'[d] = outcome[d]
  <2>1. outcome \in [Caller -> Seq(Outcome)]
    BY DEF RequestInv
  <2>2. Append(outcome[c], result) \in Seq(Outcome)
    BY <2>1
  <2> QED BY <1>1, <2>1, <2>2
<1>4. Len(outcome'[c]) <= MaxCalls
  <2>1. outcome[c] \in Seq(Outcome) /\ Len(outcome[c]) < MaxCalls /\ MaxCalls \in Nat
    BY CallerAssumption DEF RequestInv
  <2>2. Len(Append(outcome[c], result)) = Len(outcome[c]) + 1
    BY <2>1
  <2> QED BY <1>3, <2>1, <2>2
<1>5. NoCall.pc = "idle"
  BY CallFields DEF NoCall
<1>6. \A d \in Caller :
        /\ CallFits(d, call'[d])
        /\ Len(outcome'[d]) <= MaxCalls
        /\ call'[d].pc # "idle" => Len(outcome'[d]) < MaxCalls
  BY <1>2, <1>3, <1>4, <1>5 DEF RequestInv, CallFits
<1>7. \A m \in requests' \cup executed' : MessageFits(m)
  BY DEF RequestInv
<1>8. token' \in BOOLEAN /\ readable' \subseteq File
  BY DEF RequestInv
<1>9. responses' \subseteq
        [caller : Caller, number : 1..MaxCalls, status : {"ok", "failed"}]
  BY DEF RequestInv
<1> QED BY <1>2, <1>3, <1>6, <1>7, <1>8, <1>9
        DEF RequestInv, MessageFits, Message, AskedFor, CallFits

LEMMA NewCallFits == ASSUME RequestInv, NEW c \in Caller, NewCall(c) PROVE RequestInv'
<1>1. PICK command \in Sent :
        Update(c, Call("building", command, NewBuilder(command), <<>>, <<>>))
  BY DEF NewCall
<1>2. IsBuilder(command, NewBuilder(command))
  BY DEF IsBuilder, NewBuilder
<1> DEFINE k == Call("building", command, NewBuilder(command), <<>>, <<>>)
<1>3. k.pc = "building" /\ k.command = command /\ k.builder = NewBuilder(command)
  BY CallFields
<1>4. Update(c, k)
  BY <1>1
<1> HIDE DEF k
<1>5. CallFits(c, k)
  BY <1>2, <1>3 DEF CallFits
<1> QED BY <1>4, <1>5, GoesOnFits DEF NewCall

LEMMA SetFieldFits == ASSUME RequestInv, NEW c \in Caller, SetField(c) PROVE RequestInv'
<1> DEFINE k == call[c]
<1>1. PICK field \in DOMAIN k.builder : \E value \in SetterValues(field) :
        Update(c, Call("building", k.command, With(k.builder, field, value), <<>>, <<>>))
  BY DEF SetField
<1>2. PICK value \in SetterValues(field) :
        Update(c, Call("building", k.command, With(k.builder, field, value), <<>>, <<>>))
  BY <1>1
<1>3. k.command \in Sent /\ IsBuilder(k.command, k.builder) /\ Len(outcome[c]) < MaxCalls
  BY DEF SetField, RequestInv, CallFits
<1> DEFINE b == k.builder
           w == With(k.builder, field, value)
           n == Call("building", k.command, w, <<>>, <<>>)
<1>4. IsBuilder(k.command, w)
  <2>1. /\ DOMAIN b = FieldsOf(k.command) /\ b = [f \in DOMAIN b |-> b[f]]
        /\ \A f \in FieldsOf(k.command) : b[f] \in SetterValues(f) \cup {NoValue}
    BY <1>3 DEF IsBuilder
  <2>2. w = [b EXCEPT ![field] = value] /\ field \in DOMAIN b
    BY <1>1 DEF With
  <2> HIDE DEF w, b, k
  <2>3. /\ DOMAIN w = DOMAIN b /\ w = [f \in DOMAIN w |-> w[f]]
        /\ w[field] = value /\ \A f \in DOMAIN b : f # field => w[f] = b[f]
    BY <2>1, <2>2
  <2>4. \A f \in FieldsOf(k.command) : w[f] \in SetterValues(f) \cup {NoValue}
    BY <1>2, <2>1, <2>3
  <2> QED BY <2>1, <2>3, <2>4 DEF IsBuilder
<1>5. n.pc = "building" /\ n.command = k.command /\ n.builder = w
  BY CallFields
<1>6. Update(c, n)
  BY <1>2
<1> HIDE DEF n, w
<1>7. CallFits(c, n)
  BY <1>3, <1>4, <1>5 DEF CallFits
<1> QED BY <1>3, <1>6, <1>7, GoesOnFits DEF SetField

LEMMA SendFits == ASSUME RequestInv, NEW c \in Caller, Send(c) PROVE RequestInv'
<1> DEFINE k == call[c]
           n == Call("reading", k.command, k.builder, Files(k.command, k.builder), <<>>)
<1>1. k.pc = "building" /\ UNCHANGED <<token, readable, wireVars>>
  BY DEF Send
<1>2. CASE Return(c, "invalid")
  BY <1>1, <1>2, ReturnFits DEF Outcome, wireVars
<1>3. CASE IsSendable(k.command, k.builder, current_job_key[c]) /\ Update(c, n)
             /\ UNCHANGED outcome
  <2>1. k.command \in Sent /\ IsBuilder(k.command, k.builder) /\ Len(outcome[c]) < MaxCalls
    BY <1>1 DEF RequestInv, CallFits
  <2>2. n.pc = "reading" /\ n.command = k.command /\ n.builder = k.builder
    BY CallFields
  <2> HIDE DEF n
  <2>3. CallFits(c, n)
    BY <1>3, <2>1, <2>2 DEF CallFits
  <2> QED BY <1>1, <1>3, <2>1, <2>3, GoesOnFits
<1> QED BY <1>2, <1>3 DEF Send

(* Whatever a call reads and waits for, its command and its builder stay.  *)
LEMMA LaterFits ==
  ASSUME RequestInv, NEW c \in Caller, call[c].pc \in {"reading", "connecting", "awaiting"},
         NEW pc \in {"reading", "connecting", "awaiting"}, NEW todo, NEW read
  PROVE  /\ CallFits(c, Call(pc, call[c].command, call[c].builder, todo, read))
         /\ Len(outcome[c]) < MaxCalls
<1> DEFINE n == Call(pc, call[c].command, call[c].builder, todo, read)
<1>1. n.pc = pc /\ n.command = call[c].command /\ n.builder = call[c].builder
  BY CallFields
<1> HIDE DEF n
<1>2. CallFits(c, call[c]) /\ Len(outcome[c]) < MaxCalls
  BY DEF RequestInv
<1>3. CallFits(c, n)
  BY <1>1, <1>2 DEF CallFits
<1> QED BY <1>2, <1>3 DEF n

LEMMA ReadFileFits == ASSUME RequestInv, NEW c \in Caller, ReadFile(c) PROVE RequestInv'
<1>1. call[c].pc = "reading" /\ UNCHANGED <<token, readable, wireVars>>
  BY DEF ReadFile
<1>2. CASE Return(c, "file_io")
  BY <1>1, <1>2, ReturnFits DEF Outcome, wireVars
<1>3. CASE /\ Update(c, Call("reading", call[c].command, call[c].builder, Tail(call[c].todo),
                             Append(call[c].read, Head(call[c].todo))))
           /\ UNCHANGED outcome
  BY <1>1, <1>3, LaterFits, GoesOnFits
<1> QED BY <1>2, <1>3 DEF ReadFile

LEMMA InterceptFits == ASSUME RequestInv, NEW c \in Caller, Intercept(c) PROVE RequestInv'
<1>1. call[c].pc = "reading" /\ UNCHANGED <<token, readable, wireVars>>
  BY DEF Intercept
<1>2. CASE Return(c, "denied")
  BY <1>1, <1>2, ReturnFits DEF Outcome, wireVars
<1>3. CASE /\ Update(c, Call("connecting", call[c].command, call[c].builder, call[c].todo,
                             call[c].read))
           /\ UNCHANGED outcome
  BY <1>1, <1>3, LaterFits, GoesOnFits
<1> QED BY <1>2, <1>3 DEF Intercept, Goto

(* The message of a call that has passed the check of send().              *)
LEMMA MessageOfCallFits ==
  ASSUME RequestInv, DeployInv, NEW c \in Caller, call[c].pc = "connecting"
  PROVE  MessageFits(MessageOf(c))
<1> DEFINE command == call[c].command
           builder == call[c].builder
           key == current_job_key[c]
           request == RequestOf(command, builder, key)
           m == MessageOf(c)
<1>1. /\ command \in Sent /\ IsBuilder(command, builder)
      /\ IsSendable(command, builder, key)
  BY DEF RequestInv, CallFits
<1>2. command \in DOMAIN CommandOf /\ key \in Key \cup {NoValue}
  BY <1>1, CallerAssumption
<1>3. Number(c) \in 1..MaxCalls
  <2>1. outcome[c] \in Seq(Outcome) /\ Len(outcome[c]) < MaxCalls /\ MaxCalls \in Nat
    BY CallerAssumption DEF RequestInv
  <2>2. Len(outcome[c]) \in Nat
    BY <2>1
  <2> QED BY <2>1, <2>2 DEF Number
<1>4. /\ m.caller = c /\ m.number = Number(c) /\ m.command = command
      /\ m.asked = builder /\ m.request = FilledRequest(c)
      /\ DOMAIN m = {"caller", "number", "command", "asked", "request"}
  BY MessageFields DEF MessageOf
<1>5. DOMAIN request = FieldsOf(command)
  BY DEF RequestOf
<1>6. /\ DOMAIN FilledRequest(c) = FieldsOf(command)
      /\ \A field \in FieldsOf(command) : FilledRequest(c)[field] = request[field]
  <2>1. CASE command = "deploy_process"
    <3>1. WholeCall(call[c])
      BY DEF DeployInv
    <3>2. /\ call[c].read \in Seq(File) /\ call[c].todo = <<>>
          /\ call[c].read \o call[c].todo = Files(command, builder)
      BY <3>1 DEF WholeCall
    <3>3. call[c].read = Files(command, builder)
      BY <3>2
    <3>4. request["resource_files"] = Files(command, builder)
      <4>1. CommandOf["deploy_process"].default["resource_files"] = <<>>
        BY DEF CommandOf, DeployProcess, Command
      <4>2. "resource_files" \in FieldsOf(command)
        BY <2>1, DeployFields
      <4> QED BY <2>1, <4>1, <4>2 DEF RequestOf, Files, NumberFields
    <3> DEFINE read == call[c].read
    <3>5. FilledRequest(c) = [request EXCEPT !["resource_files"] = read]
      BY <2>1 DEF FilledRequest
    <3>6. DOMAIN request = {"resource_files"}
      BY <1>5, <2>1, DeployFields
    <3> HIDE DEF request, read
    <3>7. FilledRequest(c)["resource_files"] = read /\ DOMAIN FilledRequest(c) = DOMAIN request
      BY <3>5, <3>6
    <3>8. FilledRequest(c)["resource_files"] = request["resource_files"]
      BY <3>3, <3>4, <3>7 DEF read
    <3> QED BY <1>5, <3>6, <3>7, <3>8
  <2>2. CASE command # "deploy_process"
    BY <1>5, <2>2 DEF FilledRequest
  <2> QED BY <2>1, <2>2
<1>7. \A field \in FieldsOf(command) :
        /\ request[field] \in RequestValues(field) /\ request[field] # NoValue
        /\ IF builder[field] # NoValue
             THEN (field \in NumberFields => builder[field] \in Signed) =>
                    request[field] = builder[field]
             ELSE request[field] =
                    IF field = "job_key" THEN key ELSE CommandOf[command].default[field]
  BY <1>1, <1>2, RequestFits
<1> HIDE DEF request, m
<1>8. DOMAIN m.request = FieldsOf(m.command)
  BY <1>4, <1>6
<1>9. \A field \in DOMAIN m.request :
        m.request[field] \in RequestValues(field) /\ m.request[field] # NoValue
  BY <1>4, <1>6, <1>7
<1>10. \A field \in DOMAIN m.request : AskedFor(m, field)
  BY <1>4, <1>6, <1>7 DEF AskedFor
<1>11. Message(m)
  BY <1>1, <1>3, <1>4, <1>8, <1>9 DEF Message
<1> QED BY <1>9, <1>10, <1>11 DEF MessageFits, m

LEMMA TransmitFits ==
  ASSUME RequestInv, DeployInv, NEW c \in Caller, Transmit(c) PROVE RequestInv'
<1> DEFINE m == MessageOf(c)
           n == Call("awaiting", call[c].command, call[c].builder, call[c].todo,
                     call[c].read)
<1>1. /\ call[c].pc = "connecting" /\ requests' = requests \cup {m} /\ Update(c, n)
      /\ UNCHANGED <<outcome, token, readable, responses, executed>>
  BY DEF Transmit, Goto
<1>2. CallFits(c, n) /\ Len(outcome[c]) < MaxCalls
  BY <1>1, LaterFits
<1>3. MessageFits(m)
  BY <1>1, MessageOfCallFits
<1> HIDE DEF m, n
<1>4. /\ call' = [d \in Caller |-> call'[d]]
      /\ call'[c] = n /\ \A d \in Caller : d # c => call'[d] = call[d]
  <2>1. call = [d \in Caller |-> call[d]] /\ call' = [call EXCEPT ![c] = n]
    BY <1>1 DEF RequestInv, Update
  <2> QED BY <2>1
<1>5. \A d \in Caller :
        /\ CallFits(d, call'[d])
        /\ Len(outcome[d]) <= MaxCalls
        /\ call'[d].pc # "idle" => Len(outcome[d]) < MaxCalls
  BY <1>2, <1>4 DEF RequestInv
<1>6. \A x \in requests' \cup executed' : MessageFits(x)
  BY <1>1, <1>3 DEF RequestInv
<1> QED BY <1>1, <1>4, <1>5, <1>6 DEF RequestInv, MessageFits, Message, AskedFor, CallFits

(* What the gateway, the connection, the disk and the token provider do.   *)
LEMMA EnvironmentFits ==
  ASSUME RequestInv, UNCHANGED <<call, outcome>>,
         token' \in BOOLEAN, readable' \subseteq File,
         requests' \cup executed' \subseteq requests \cup executed,
         \A r \in responses' \ responses : \E m \in requests :
           \E status \in {"ok", "failed"} : r = ResponseTo(m, status)
  PROVE  RequestInv'
<1>1. ASSUME NEW r \in responses'
      PROVE  r \in [caller : Caller, number : 1..MaxCalls, status : {"ok", "failed"}]
  <2>1. CASE r \in responses
    BY <2>1 DEF RequestInv
  <2>2. CASE r \notin responses
    <3>1. PICK m \in requests : \E status \in {"ok", "failed"} : r = ResponseTo(m, status)
      BY <2>2
    <3>2. PICK status \in {"ok", "failed"} : r = ResponseTo(m, status)
      BY <3>1
    <3>3. m.caller \in Caller /\ m.number \in 1..MaxCalls
      BY DEF RequestInv, MessageFits, Message
    <3> QED BY <3>2, <3>3 DEF ResponseTo
  <2> QED BY <2>1, <2>2
<1>2. \A m \in requests' \cup executed' : MessageFits(m)
  BY DEF RequestInv
<1> QED BY <1>1, <1>2 DEF RequestInv, MessageFits, Message, AskedFor, CallFits

LEMMA RequestInvStep == RequestInv /\ DeployInv /\ [Next]_vars => RequestInv'
<1> SUFFICES ASSUME RequestInv, DeployInv, [Next]_vars PROVE RequestInv'
  OBVIOUS
<1>1. ASSUME NEW c \in Caller, CallerStep(c) PROVE RequestInv'
  <2>1. CASE ConnectFails(c) \/ TimesOut(c) \/ Abandon(c)
    BY <2>1, ReturnFits DEF ConnectFails, TimesOut, Abandon, wireVars, Outcome
  <2>2. CASE Respond(c)
    <3>1. PICK r \in responses : Return(c, r.status) /\ responses' = responses \ {r}
      BY <2>2 DEF Respond
    <3>2. r.status \in Outcome
      BY DEF RequestInv, Outcome
    <3> QED BY <2>2, <3>1, <3>2, ReturnFits DEF Respond
  <2> QED BY <1>1, <2>1, <2>2, NewCallFits, SetFieldFits, SendFits, ReadFileFits,
             InterceptFits, TransmitFits DEF CallerStep
<1>2. token \in BOOLEAN /\ readable \subseteq File
  BY DEF RequestInv
<1>3. CASE \E m \in requests : Execute(m) \/ Reject(m)
  <2>1. /\ requests' \cup executed' \subseteq requests \cup executed
        /\ UNCHANGED <<call, outcome, token, readable>>
    BY <1>3 DEF Execute, Reject
  <2>2. \A r \in responses' \ responses : \E m \in requests :
          \E status \in {"ok", "failed"} : r = ResponseTo(m, status)
    BY <1>3 DEF Execute, Reject
  <2> QED BY <1>2, <2>1, <2>2, EnvironmentFits
<1>4. CASE Lose
  <2>1. /\ requests' \cup executed' \subseteq requests \cup executed
        /\ responses' \subseteq responses /\ UNCHANGED <<call, outcome, token, readable>>
    BY <1>4 DEF Lose
  <2> QED BY <1>2, <2>1, EnvironmentFits
<1>5. CASE DiskChanges
  BY <1>2, <1>5, EnvironmentFits DEF DiskChanges, wireVars
<1>6. CASE TokenCached
  BY <1>2, <1>6, EnvironmentFits DEF TokenCached, wireVars
<1>7. CASE UNCHANGED vars
  BY <1>2, <1>7, EnvironmentFits DEF vars, wireVars
<1> QED BY <1>1, <1>3, <1>4, <1>5, <1>6, <1>7 DEF Next

LEMMA RequestsFit == Spec => [](RequestInv /\ DeployInv)
<1>1. Init => RequestInv /\ DeployInv
  BY RequestInvInit, DeployInvInit
<1>2. RequestInv /\ DeployInv /\ [Next]_vars => RequestInv' /\ DeployInv'
  BY RequestInvStep, DeployInvStep
<1> QED BY <1>1, <1>2, PTL DEF Spec

(* Every variable has its type, and every number that leaves fits the      *)
(* width of its field, for all commands and all that can be set.           *)
THEOREM RequestsTypeCorrect == Spec => []TypeOK
<1>1. RequestInv /\ DeployInv => TypeOK
  BY DEF RequestInv, DeployInv, CallFits, WholeCall, IsBuilder, MessageFits, TypeOK
<1> QED BY <1>1, RequestsFit, PTL

(* What send() checks before it builds a request is enough for every       *)
(* unwrap() in it: no command leaves without a value it needs.             *)
THEOREM NothingIsMissing == Spec => []NothingMissing
<1>1. RequestInv => NothingMissing
  BY DEF RequestInv, MessageFits, NothingMissing
<1> QED BY <1>1, RequestsFit, PTL

(* The gateway executes what the caller has set, inside a job handler and  *)
(* outside one, whatever else is under way.                                *)
THEOREM ExecutedAsAsked == Spec => []ExecutesWhatWasAsked
<1>1. RequestInv => ExecutesWhatWasAsked
  BY DEF RequestInv, MessageFits, ExecutesWhatWasAsked
<1> QED BY <1>1, RequestsFit, PTL

-----------------------------------------------------------------------------
(***************************************************************************)
(* The refinement of AtMostOnce.                                           *)
(***************************************************************************)

(* A message is known by the call it belongs to, and is executed or on its *)
(* way, but not both.                                                      *)
UniqueInv ==
  /\ \A m, n \in requests \cup executed :
       m.caller = n.caller /\ m.number = n.number => m = n
  /\ requests \cap executed = {}

LEMMA CallsOfOne ==
  ASSUME NEW messages, NEW m
  PROVE  /\ CallsOf(messages \cup {m}) = CallsOf(messages) \cup {<<m.caller, m.number>>}
         /\ m \in messages => <<m.caller, m.number>> \in CallsOf(messages)
BY DEF CallsOf

(* Of a message that is gone nothing is left: no other is of its call.     *)
LEMMA CallsOfRest ==
  ASSUME UniqueInv, NEW m \in requests
  PROVE  CallsOf(requests \ {m}) = CallsOf(requests) \ {<<m.caller, m.number>>}
<1>1. ASSUME NEW n \in requests, n # m
      PROVE  <<n.caller, n.number>> # <<m.caller, m.number>>
  BY <1>1 DEF UniqueInv
<1> QED BY <1>1 DEF CallsOf

(* A call of which nothing has left is not known to the gateway.           *)
LEMMA NotHandedOver ==
  ASSUME OutcomeInv, NEW c \in Caller, call[c].pc # "awaiting"
  PROVE  <<c, Number(c)>> \notin CallsOf(requests) \cup CallsOf(executed)
<1>1. ASSUME NEW m \in requests \cup executed PROVE <<m.caller, m.number>> # <<c, Number(c)>>
  <2>1. /\ m.caller \in Caller /\ m.number \in Nat
        /\ \/ m.number < Number(m.caller)
           \/ m.number = Number(m.caller) /\ call[m.caller].pc = "awaiting"
    BY DEF OutcomeInv, Shapes, PlaceInv
  <2> QED BY <2>1
<1> QED BY <1>1 DEF CallsOf

LEMMA TransmitUnique ==
  ASSUME OutcomeInv, UniqueInv, NEW c \in Caller, Transmit(c) PROVE UniqueInv'
<1> DEFINE m == MessageOf(c)
<1>1. /\ requests' = requests \cup {m} /\ executed' = executed
      /\ m.caller = c /\ m.number = Number(c) /\ call[c].pc = "connecting"
  BY MessageFields DEF Transmit
<1> HIDE DEF m
<1>2. \A n \in requests \cup executed : ~(n.caller = c /\ n.number = Number(c))
  BY <1>1, NotHandedOver DEF CallsOf
<1> QED BY <1>1, <1>2 DEF UniqueInv

(* The steps of the gateway and of the connection. *)
LEMMA MessageSteps ==
  ASSUME OutcomeInv, UniqueInv,
         (\E m \in requests : Execute(m) \/ Reject(m)) \/ Lose
  PROVE  UniqueInv' /\ (Once!Next \/ UNCHANGED Once!onceVars)
<1>1. ASSUME NEW m \in requests, Execute(m)
      PROVE  UniqueInv' /\ Once!Next
  <2>1. /\ requests' = requests \ {m} /\ executed' = executed \cup {m}
        /\ outcome' = outcome
    BY <1>1 DEF Execute
  <2>2. UniqueInv'
    BY <2>1 DEF UniqueInv
  <2>3. Once!Perform(<<m.caller, m.number>>)
    BY <2>1, CallsOfOne, CallsOfRest DEF Once!Perform
  <2> QED BY <2>2, <2>3, CallsOfOne DEF Once!Next
<1>2. ASSUME NEW m \in requests, requests' = requests \ {m}, UNCHANGED <<outcome, executed>>
      PROVE  UniqueInv' /\ Once!Next
  <2>1. UniqueInv'
    BY <1>2 DEF UniqueInv
  <2>2. Once!Forget(<<m.caller, m.number>>)
    BY <1>2, CallsOfOne, CallsOfRest DEF Once!Forget
  <2> QED BY <2>1, <2>2, CallsOfOne DEF Once!Next
<1>3. ASSUME UNCHANGED <<outcome, requests, executed>>
      PROVE  UniqueInv' /\ UNCHANGED Once!onceVars
  BY <1>3 DEF UniqueInv, Once!onceVars, CallsOf
<1> QED BY <1>1, <1>2, <1>3 DEF Reject, Lose

LEMMA ReturnsImplement ==
  ASSUME OutcomeInv, UniqueInv, NEW c \in Caller, Returns(c)
  PROVE  UniqueInv' /\ Once!Next
<1>1. PICK result \in Outcome :
        /\ Return(c, result)
        /\ result = "ok" => \E m \in executed : IsCall(m, c, Number(c))
        /\ result \in {"invalid", "file_io", "denied"} => call[c].pc # "awaiting"
  BY DEF Returns
<1>2. UNCHANGED <<requests, executed>>
  BY DEF Returns
<1>3. outcome' = [outcome EXCEPT ![c] = Append(outcome[c], result)]
  BY <1>1 DEF Return
<1>4. Once!Current(c) = <<c, Number(c)>>
  BY DEF Once!Current, Number
<1>5. result = "ok" => Once!Current(c) \in CallsOf(executed)
  BY <1>1, <1>4 DEF CallsOf, IsCall
<1>6. result \in Once!Refused => Once!Current(c) \notin CallsOf(requests) \cup CallsOf(executed)
  BY <1>1, <1>4, NotHandedOver DEF Once!Refused
<1>7. result \in {"ok"} \cup Once!Refused \cup Once!Unknown
  BY DEF Outcome, Once!Refused, Once!Unknown
<1>8. CallsOf(requests)' = CallsOf(requests) /\ CallsOf(executed)' = CallsOf(executed)
  BY <1>2 DEF CallsOf
<1>9. Once!Return(c)
  BY <1>3, <1>5, <1>6, <1>7, <1>8 DEF Once!Return
<1> QED BY <1>2, <1>9 DEF UniqueInv, Once!Next

LEMMA TransmitImplements ==
  ASSUME OutcomeInv, NEW c \in Caller, Transmit(c) PROVE Once!Next
<1> DEFINE m == MessageOf(c)
<1>1. /\ requests' = requests \cup {m} /\ UNCHANGED <<outcome, executed>>
      /\ m.caller = c /\ m.number = Number(c) /\ call[c].pc = "connecting"
  BY MessageFields DEF Transmit
<1> HIDE DEF m
<1>2. Once!Current(c) = <<c, Number(c)>>
  BY DEF Once!Current, Number
<1>3. Once!Current(c) \notin CallsOf(requests) \cup CallsOf(executed)
  BY <1>1, <1>2, NotHandedOver
<1>4. /\ CallsOf(requests)' = CallsOf(requests) \cup {Once!Current(c)}
      /\ CallsOf(executed)' = CallsOf(executed)
  BY <1>1, <1>2, CallsOfOne DEF CallsOf
<1> QED BY <1>1, <1>3, <1>4 DEF Once!HandOver, Once!Next

LEMMA OnceStep ==
  OutcomeInv /\ UniqueInv /\ [Next]_vars => UniqueInv' /\ [Once!Next]_(Once!onceVars)
<1> SUFFICES ASSUME OutcomeInv, UniqueInv, [Next]_vars
             PROVE  UniqueInv' /\ (Once!Next \/ UNCHANGED Once!onceVars)
  OBVIOUS
<1>1. ASSUME UNCHANGED <<outcome, requests, executed>>
      PROVE  UniqueInv' /\ UNCHANGED Once!onceVars
  BY <1>1 DEF UniqueInv, Once!onceVars, CallsOf
<1>2. ASSUME NEW c \in Caller, CallerStep(c)
      PROVE  UniqueInv' /\ (Once!Next \/ UNCHANGED Once!onceVars)
  <2>1. CASE Proceeds(c)
    BY <1>1, <2>1 DEF Proceeds
  <2>2. CASE Returns(c)
    BY <2>2, ReturnsImplement
  <2>3. CASE Transmit(c)
    BY <2>3, TransmitUnique, TransmitImplements
  <2> QED BY <1>2, <2>1, <2>2, <2>3, CallerKinds
<1>3. CASE (\E m \in requests : Execute(m) \/ Reject(m)) \/ Lose
  BY <1>3, MessageSteps
<1>4. CASE DiskChanges \/ TokenCached \/ UNCHANGED vars
  BY <1>1, <1>4 DEF DiskChanges, TokenCached, vars, wireVars
<1> QED BY <1>2, <1>3, <1>4 DEF Next

LEMMA OnceInit == Init => UniqueInv /\ Once!Init
BY DEF Init, UniqueInv, Once!Init, CallsOf

(* A client hands each call over to the gateway at most once: GatewayCall  *)
(* implements AtMostOnce.                                                  *)
THEOREM CallsAtMostOnce == Spec => ImplementsAtMostOnce
<1>1. Spec => []OutcomeInv
  BY OutcomeInvInit, OutcomeInvStep, PTL DEF Spec
<1>2. Init => UniqueInv /\ Once!Init
  BY OnceInit
<1>3. OutcomeInv /\ UniqueInv /\ [Next]_vars => UniqueInv' /\ [Once!Next]_(Once!onceVars)
  BY OnceStep
<1> QED BY <1>1, <1>2, <1>3, PTL DEF Spec, ImplementsAtMostOnce, Once!Spec
=============================================================================
