------------------------ MODULE AuthorizedCallsProofs ------------------------
(***************************************************************************)
(* Proofs about AuthorizedCalls, for all timing constants that satisfy     *)
(* TimingAssumption, all lifetimes and any number of callers.  Every step  *)
(* of the composition is a step or a stutter of OAuthToken, so that the    *)
(* invariant Inv of OAuthTokenProofs holds in it as well.                  *)
(***************************************************************************)
EXTENDS AuthorizedCalls, OAuthTokenProofs

CallPc == {"none", "travelling", "accepted", "rejected", "denied"}

(* The part of the invariant that is about one call.                       *)
CallInv(r) ==
  /\ r \in [pc : CallPc, valid : Nat, age : 0..Unhurried, sound : BOOLEAN]
  /\ r.pc = "travelling" /\ r.sound => r.valid + r.age > Transit
  /\ r.pc = "rejected" /\ r.sound => r.age > Transit

CallsIndInv ==
  /\ Inv
  /\ call = [w \in Waiter |-> call[w]] /\ \A w \in Waiter : CallInv(call[w])

LEMMA RequestFields ==
  ASSUME NEW at, NEW ttl, NEW age, NEW sound
  PROVE  /\ Request(at, ttl, age, sound).pc = at
         /\ Request(at, ttl, age, sound).valid = ttl
         /\ Request(at, ttl, age, sound).age = age
         /\ Request(at, ttl, age, sound).sound = sound
BY DEF Request

LEMMA RequestType ==
  ASSUME NEW at \in CallPc, NEW ttl \in Nat, NEW age \in 0..Unhurried,
         NEW sound \in BOOLEAN
  PROVE  Request(at, ttl, age, sound) \in
           [pc : CallPc, valid : Nat, age : 0..Unhurried, sound : BOOLEAN]
BY DEF Request

LEMMA EndedInv == ASSUME NEW at \in CallPc \ {"travelling"} PROVE CallInv(Ended(at))
<1>1. 0 \in 0..Unhurried /\ 0 \in Nat
  BY UnhurriedAssumption
<1>2. Ended(at) \in [pc : CallPc, valid : Nat, age : 0..Unhurried, sound : BOOLEAN]
  BY <1>1, RequestType DEF Ended
<1>3. Ended(at).pc # "travelling" /\ ~Ended(at).sound
  BY DEF Ended, Request
<1> QED BY <1>2, <1>3 DEF CallInv

(* A call that is travelling, with a token that outlives Transit if sound. *)
LEMMA TravellingInv ==
  ASSUME NEW ttl \in Nat, NEW age \in 0..Unhurried, NEW sound \in BOOLEAN,
         sound => ttl + age > Transit
  PROVE  CallInv(Request("travelling", ttl, age, sound))
<1>1. "travelling" \in CallPc
  BY DEF CallPc
<1>2. Request("travelling", ttl, age, sound) \in
        [pc : CallPc, valid : Nat, age : 0..Unhurried, sound : BOOLEAN]
  BY <1>1, RequestType
<1> QED BY <1>2, RequestFields DEF CallInv

LEMMA OneCall ==
  ASSUME call = [w \in Waiter |-> call[w]], \A w \in Waiter : CallInv(call[w]),
         NEW w \in Waiter, NEW r, CallInv(r), call' = [call EXCEPT ![w] = r]
  PROVE  call' = [u \in Waiter |-> call'[u]] /\ \A u \in Waiter : CallInv(call'[u])
OBVIOUS

-----------------------------------------------------------------------------
(* Every step of the composition is one of the provider, or none of its.   *)
LEMMA ProviderStep == [CallsNext]_allVars => [Next]_vars
BY DEF CallsNext, allVars, TaskStep, CallsElapse, SendCall, Arrive, Next, TaskNext

(* A call is given the cached token, which is fresh by FreshToken.         *)
LEMMA SendCallInv ==
  ASSUME CallsIndInv, NEW w \in Waiter, SendCall(w)
  PROVE  call' = [u \in Waiter |-> call'[u]] /\ \A u \in Waiter : CallInv(call'[u])
<1>c. call = [u \in Waiter |-> call[u]] /\ \A u \in Waiter : CallInv(call[u])
  BY DEF CallsIndInv
<1>1. CASE TokenAttached
  <2>1. call' = [call EXCEPT ![w] = Request("travelling", valid, 0, LongLived)]
    BY <1>1 DEF SendCall
  <2>2. valid \in Nat /\ 0 \in 0..Unhurried
    BY UnhurriedAssumption DEF CallsIndInv, Inv, TaskInv, TypeOK
  <2>3. LongLived => valid + 0 > Transit
    BY <1>1, <2>2, FreshByInv DEF CallsIndInv, FreshToken
  <2>4. LongLived \in BOOLEAN
    BY DEF LongLived
  <2>5. CallInv(Request("travelling", valid, 0, LongLived))
    BY <2>2, <2>3, <2>4, TravellingInv
  <2> QED BY <1>c, <2>1, <2>5, OneCall
<1>2. CASE ~TokenAttached
  <2>1. call' = [call EXCEPT ![w] = Ended("denied")]
    BY <1>2 DEF SendCall
  <2>2. CallInv(Ended("denied"))
    BY EndedInv DEF CallPc
  <2> QED BY <1>c, <2>1, <2>2, OneCall
<1> QED BY <1>1, <1>2

(* The gateway rejects a token that has run down.                          *)
LEMMA ArriveInv ==
  ASSUME CallsIndInv, NEW w \in Waiter, Arrive(w)
  PROVE  call' = [u \in Waiter |-> call'[u]] /\ \A u \in Waiter : CallInv(call'[u])
<1>c. call = [u \in Waiter |-> call[u]] /\ \A u \in Waiter : CallInv(call[u])
  BY DEF CallsIndInv
<1>v. /\ call[w].valid \in Nat /\ call[w].age \in 0..Unhurried
      /\ call[w].sound \in BOOLEAN /\ call[w].pc = "travelling"
      /\ call[w].sound => call[w].valid + call[w].age > Transit
  BY <1>c DEF CallInv, Arrive
<1>1. CASE call[w].valid > 0
  <2>1. call' = [call EXCEPT ![w] = Ended("accepted")]
    BY <1>1 DEF Arrive
  <2>2. CallInv(Ended("accepted"))
    BY EndedInv DEF CallPc
  <2> QED BY <1>c, <2>1, <2>2, OneCall
<1>2. CASE ~(call[w].valid > 0)
  <2> DEFINE r == Request("rejected", 0, call[w].age, call[w].sound)
  <2>1. call' = [call EXCEPT ![w] = r]
    BY <1>2 DEF Arrive
  <2>2. r \in [pc : CallPc, valid : Nat, age : 0..Unhurried, sound : BOOLEAN]
    BY <1>v, RequestType DEF CallPc
  <2>3. r.pc = "rejected" /\ r.sound = call[w].sound /\ r.age = call[w].age
    BY RequestFields
  <2>4. call[w].valid = 0
    BY <1>2, <1>v
  <2>5. call[w].sound => call[w].age > Transit
    BY <1>v, <2>4, TimingAssumption
  <2>6. CallInv(r)
    BY <2>2, <2>3, <2>5 DEF CallInv
  <2> QED BY <1>c, <2>1, <2>6, OneCall
<1> QED BY <1>1, <1>2

(* Time takes from the token what it adds to the age.                      *)
LEMMA CallsElapseInv ==
  ASSUME CallsIndInv, CallsElapse
  PROVE  call' = [u \in Waiter |-> call'[u]] /\ \A u \in Waiter : CallInv(call'[u])
<1>c. \A u \in Waiter : CallInv(call[u])
  BY DEF CallsIndInv
<1>1. call' = [u \in Waiter |-> call'[u]]
  BY DEF CallsElapse
<1>2. ASSUME NEW u \in Waiter PROVE CallInv(call'[u])
  <2>1. CASE call[u].pc = "travelling"
    <3>1. /\ call[u].valid \in Nat /\ call[u].age \in 0..Unhurried
          /\ call[u].sound \in BOOLEAN /\ call[u].age < Unhurried
          /\ call[u].sound => call[u].valid + call[u].age > Transit
      BY <1>c, <2>1 DEF CallInv, CallsElapse
    <3>2. call'[u] =
            Request("travelling", RunDown(call[u].valid), call[u].age + 1, call[u].sound)
      BY <2>1 DEF CallsElapse
    <3>3. /\ RunDown(call[u].valid) \in Nat /\ RunDown(call[u].valid) >= call[u].valid - 1
          /\ call[u].age + 1 \in 0..Unhurried
      BY <3>1, RunDownNat, UnhurriedAssumption
    <3>4. call[u].sound => RunDown(call[u].valid) + (call[u].age + 1) > Transit
      BY <3>1, <3>3, TimingAssumption, UnhurriedAssumption
    <3> QED BY <3>1, <3>2, <3>3, <3>4, TravellingInv
  <2>2. CASE call[u].pc # "travelling"
    BY <1>c, <2>2 DEF CallsElapse
  <2> QED BY <2>1, <2>2
<1> QED BY <1>1, <1>2

LEMMA CallsStep == CallsIndInv /\ [CallsNext]_allVars => CallsIndInv'
<1> SUFFICES ASSUME CallsIndInv, [CallsNext]_allVars PROVE CallsIndInv'
  OBVIOUS
<1>1. Inv'
  BY ProviderStep, StepInv DEF CallsIndInv
<1>2. CASE UNCHANGED call
  BY <1>1, <1>2 DEF CallsIndInv
<1>3. CASE CallsElapse
  BY <1>1, <1>3, CallsElapseInv DEF CallsIndInv
<1>4. ASSUME NEW w \in Waiter, SendCall(w) PROVE CallsIndInv'
  BY <1>1, <1>4, SendCallInv DEF CallsIndInv
<1>5. ASSUME NEW w \in Waiter, Arrive(w) PROVE CallsIndInv'
  BY <1>1, <1>5, ArriveInv DEF CallsIndInv
<1> QED BY <1>2, <1>3, <1>4, <1>5 DEF CallsNext, allVars

LEMMA CallsInitInv == CallsInit => CallsIndInv
<1> SUFFICES ASSUME CallsInit PROVE CallsIndInv
  OBVIOUS
<1>1. Inv
  BY InitInv DEF CallsInit
<1>2. CallInv(Ended("none"))
  BY EndedInv DEF CallPc
<1> QED BY <1>1, <1>2 DEF CallsInit, CallsIndInv

LEMMA CallsInvariantHolds == CallsSpec => []CallsIndInv
BY CallsInitInv, CallsStep, PTL DEF CallsSpec

(***************************************************************************)
(* The composition implements OAuthToken: calls read the cache and leave   *)
(* the background task and the callers of auth_initialized alone, so that  *)
(* what is proved of the token provider holds for a client that makes      *)
(* calls.                                                                  *)
(***************************************************************************)
THEOREM ProviderUndisturbed == CallsSpec => Spec
<1>1. CallsInit => Init
  BY DEF CallsInit
<1> QED BY <1>1, ProviderStep, PTL DEF CallsSpec, Spec

(* The types of the provider and of the calls.                             *)
THEOREM CallsTypeCorrect == CallsSpec => []CallsTypeOK
<1>1. CallsIndInv => CallsTypeOK
  BY DEF CallsIndInv, Inv, TaskInv, CallsTypeOK, CallInv, CallPc
<1> QED BY <1>1, CallsInvariantHolds, PTL

(***************************************************************************)
(* No call that arrives within Transit is rejected, unless a token request *)
(* had failed or was late or the token too short-lived, for any number of  *)
(* callers and all timing constants that satisfy TimingAssumption.         *)
(***************************************************************************)
THEOREM CallsAccepted == CallsSpec => []AcceptedOnArrival
<1>1. CallsIndInv => AcceptedOnArrival
  BY DEF CallsIndInv, CallInv, AcceptedOnArrival
<1> QED BY <1>1, CallsInvariantHolds, PTL
=============================================================================
