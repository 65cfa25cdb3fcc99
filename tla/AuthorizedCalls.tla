--------------------------- MODULE AuthorizedCalls ---------------------------
(***************************************************************************)
(* The calls of a client that logs in: OAuthToken composed with callers    *)
(* that send requests through the interceptor (src/src/oauth.rs).  The     *)
(* interceptor reads the cache when the call is made; the request then     *)
(* waits for a connection and travels, and the gateway looks at the token  *)
(* when it arrives, whatever the cache holds by then.                      *)
(***************************************************************************)
EXTENDS OAuthToken

CONSTANT Unhurried   \* bound: the longest a call is under way

ASSUME UnhurriedAssumption == Unhurried \in Nat

(***************************************************************************)
(* For each caller its last request to the gateway: travelling, accepted,  *)
(* rejected by the gateway as unauthenticated, or denied by the            *)
(* interceptor.  `valid' is how long the gateway takes the attached token, *)
(* `age' how long the request is under way; `sound' says that the premise  *)
(* of FreshToken held when the token was attached (history).               *)
(***************************************************************************)
VARIABLE call

allVars == <<vars, call>>

Request(at, ttl, age, sound) == [pc |-> at, valid |-> ttl, age |-> age, sound |-> sound]

Ended(at) == Request(at, 0, 0, FALSE)

CallsInit == Init /\ call = [w \in Waiter |-> Ended("none")]

-----------------------------------------------------------------------------
(* Interceptor::call; the caller may or may not have awaited               *)
(* auth_initialized before.                                                *)
SendCall(w) ==
  /\ waiter[w] # "waiting" /\ call[w].pc # "travelling"
  /\ call' = [call EXCEPT ![w] = IF TokenAttached
                                   THEN Request("travelling", valid, 0, LongLived)
                                   ELSE Ended("denied")]
  /\ UNCHANGED vars

(* A rejected request keeps what the gateway has rejected.                 *)
Arrive(w) ==
  /\ call[w].pc = "travelling"
  /\ call' = [call EXCEPT ![w] = IF @.valid > 0
                                   THEN Ended("accepted")
                                   ELSE Request("rejected", 0, @.age, @.sound)]
  /\ UNCHANGED vars

(* Time passes for the task and for the requests that are under way.       *)
CallsElapse ==
  /\ Elapse
  /\ \A w \in Waiter : call[w].pc = "travelling" => call[w].age < Unhurried
  /\ call' = [w \in Waiter |->
       IF call[w].pc = "travelling"
         THEN Request("travelling", RunDown(call[w].valid), call[w].age + 1, call[w].sound)
         ELSE call[w]]

TaskStep == KeepToken \/ RequestToken \/ TokenArrives \/ RequestFails \/ Notify \/ Tick

CallsNext ==
  \/ TaskStep /\ UNCHANGED call
  \/ CallsElapse
  \/ \E w \in Waiter :
       \/ (Subscribe(w) \/ Receive(w)) /\ UNCHANGED call
       \/ SendCall(w) \/ Arrive(w)

CallsSpec == CallsInit /\ [][CallsNext]_allVars

(* The task is fair as in OAuthToken, and calls arrive.                    *)
FairCallsSpec ==
  CallsSpec /\ Fairness /\ \A w \in Waiter : WF_allVars(Arrive(w))

-----------------------------------------------------------------------------
(* Every variable has its type, those of the calls included.               *)
CallsTypeOK ==
  /\ TypeOK
  /\ call \in [Waiter -> [pc : {"none", "travelling", "accepted", "rejected", "denied"},
                          valid : Nat, age : 0..Unhurried, sound : BOOLEAN]]

(* The gateway rejects no call that arrives within Transit of having been  *)
(* given its token by the interceptor, unless a token request had failed   *)
(* or was late or the token too short-lived: it makes no difference that   *)
(* the token ages and may be replaced while the call is under way.         *)
AcceptedOnArrival ==
  \A w \in Waiter :
    call[w].pc = "rejected" /\ call[w].sound => call[w].age > Transit

(* What AcceptedOnArrival rests on: the token of a call outlives Transit.  *)
CarriedInv ==
  \A w \in Waiter :
    call[w].pc = "travelling" /\ call[w].sound => call[w].valid + call[w].age > Transit

CallsInv == CallsTypeOK /\ TimerInv /\ FreshInv /\ CarriedInv /\ AcceptedOnArrival
=============================================================================
