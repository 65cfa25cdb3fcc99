----------------------------- MODULE OAuthToken -----------------------------
(***************************************************************************)
(* The OAuth token provider (src/src/oauth.rs): a background task that     *)
(* keeps an access token in a cache, the interceptor that reads the cache  *)
(* for every request to the gateway, and the callers of auth_initialized,  *)
(* which wait on a broadcast channel for the task to cache a token.        *)
(*                                                                         *)
(* Time is discrete and relative: instead of a clock there are timers that *)
(* run down, the time to the next tick of the interval and the remaining   *)
(* life of the token, so that the model stays finite.  The runtime polls   *)
(* the background task as soon as it is woken: time passes only while the  *)
(* task waits.                                                             *)
(***************************************************************************)
EXTENDS Integers

CONSTANTS
  Period,          \* of the refresh interval: 10 s
  Skew,            \* CLOCK_SKEW_BUFFER: 15 s
  RequestTimeout,  \* timeout of a token request: 10 s by default
  Lifetime,        \* the values of expires_in the server may answer with
  Latency,         \* a request that takes longer than this counts as late
  Transit,         \* a call to the gateway that takes longer may arrive with
                   \* a token that has expired on the way
  MaxBehind,       \* bound: how far behind the interval is taken to fall
  Waiter           \* the callers of auth_initialized

(***************************************************************************)
(* Latency and Transit are not in the code: they are the times up to which *)
(* its constants keep the token fresh.  ZEEBE_AUTH_REQUEST_TIMEOUT may be  *)
(* above Period: ticks then pile up while a request hangs.                 *)
(***************************************************************************)
ASSUME TimingAssumption ==
  /\ Period \in Nat \ {0} /\ Skew \in Nat /\ RequestTimeout \in Nat
  /\ Latency \in Nat /\ Transit \in Nat /\ MaxBehind \in Nat
  /\ Latency <= Period /\ RequestTimeout <= MaxBehind
  /\ Period + 2 * Latency + Transit <= Skew
ASSUME LifetimeAssumption == Lifetime \subseteq Nat

VARIABLES
  pc,        \* where the background task is
  due,       \* time until the next tick of the interval, negative if overdue
  waited,    \* how long the pending token request has been waiting
  cached,    \* does cached_token hold a token?
  life,      \* expires_in of that token
  left,      \* time until its expires_at (0: at or after expires_at)
  valid,     \* time until the server rejects it
  late,      \* was its request late, or did a request to replace it fail or
             \* run late?  (history, read by no action)
  waiter,    \* for each caller, where it is
  pending    \* for each caller, the notifications its receiver has not taken

tokenVars == <<cached, life, left, valid>>
taskVars == <<pc, due, waited, late>>
waiterVars == <<waiter, pending>>
vars == <<tokenVars, taskVars, waiterVars>>

RunDown(n) == IF n = 0 THEN 0 ELSE n - 1

(* refresh_token runs once before the first tick, which is due at once.    *)
Init ==
  /\ pc = "checking" /\ due = 0 /\ waited = 0 /\ late = FALSE
  /\ cached = FALSE /\ life = 0 /\ left = 0 /\ valid = 0
  /\ waiter = [w \in Waiter |-> "outside"]
  /\ pending = [w \in Waiter |-> 0]

-----------------------------------------------------------------------------
(***************************************************************************)
(* The background task: loop { refresh_token; interval.tick }.             *)
(***************************************************************************)

(* Mutants of cached_token_is_expired: without the skew; with the interval *)
(* for it; any token will do.                                              *)
ExpiredNow == ~cached \/ left = 0
ExpiresByNextTick == ~cached \/ left <= Period
NeverExpires == ~cached

cached_token_is_expired == ~cached \/ left <= Skew

(* "access token still valid" *)
KeepToken ==
  /\ pc = "checking" /\ ~cached_token_is_expired
  /\ pc' = "ticking"
  /\ UNCHANGED <<due, waited, late, tokenVars, waiterVars>>

RequestToken ==
  /\ pc = "checking" /\ cached_token_is_expired
  /\ pc' = "requesting" /\ waited' = 0
  /\ UNCHANGED <<due, late, tokenVars, waiterVars>>

(***************************************************************************)
(* The server issued the token at some time since the request was sent,    *)
(* but the code counts expires_in from the arrival of the response.        *)
(***************************************************************************)
TokenArrives ==
  /\ pc = "requesting"
  /\ \E l \in Lifetime, age \in 0..waited :
       /\ life' = l /\ left' = l
       /\ valid' = IF age <= l THEN l - age ELSE 0
  /\ cached' = TRUE
  /\ late' = (waited > Latency)
  /\ pc' = "notifying" /\ waited' = 0
  /\ UNCHANGED <<due, waiterVars>>

(* Mutants of RequestFails: the failure notifies the callers, too; it ends *)
(* the task; it is followed by a new request at once.                      *)
FailureNotifies ==
  /\ pc = "requesting"
  /\ late' = TRUE
  /\ pc' = "notifying" /\ waited' = 0
  /\ UNCHANGED <<due, tokenVars, waiterVars>>
FailureEndsTask ==
  /\ pc = "requesting"
  /\ late' = TRUE
  /\ pc' = "ended" /\ waited' = 0
  /\ UNCHANGED <<due, tokenVars, waiterVars>>

FailureRetries ==
  /\ pc = "requesting"
  /\ late' = TRUE
  /\ pc' = "checking" /\ waited' = 0
  /\ UNCHANGED <<due, tokenVars, waiterVars>>
(* An error response, a broken connection, or timeout(request_timeout).    *)
RequestFails ==
  /\ pc = "requesting"
  /\ late' = TRUE
  /\ pc' = "ticking" /\ waited' = 0
  /\ UNCHANGED <<due, tokenVars, waiterVars>>

(***************************************************************************)
(* init_sender.send reaches the receivers that exist now.  The channel     *)
(* keeps one message: a receiver two behind has lost one.                  *)
(***************************************************************************)
Notify ==
  /\ pc = "notifying"
  /\ pc' = "ticking"
  /\ pending' = [w \in Waiter |->
       IF waiter[w] # "waiting" THEN 0 ELSE IF pending[w] = 0 THEN 1 ELSE 2]
  /\ UNCHANGED <<due, waited, late, tokenVars, waiter>>

(* Ticks are Period apart from the start; overdue ones come in a burst.    *)
Tick ==
  /\ pc = "ticking" /\ due <= 0
  /\ due' = due + Period
  /\ pc' = "checking"
  /\ UNCHANGED <<waited, late, tokenVars, waiterVars>>

(* Mutant of Waits: the request has no timeout. *)
WaitsForEver ==
  \/ pc = "ticking" /\ due > 0
  \/ pc = "requesting"

(* The task waits for the interval, or for an answer within its timeout.   *)
Waits ==
  \/ pc = "ticking" /\ due > 0
  \/ pc = "requesting" /\ waited < RequestTimeout

Elapse ==
  /\ Waits
  /\ due' = IF due = -MaxBehind THEN due ELSE due - 1
  /\ left' = RunDown(left) /\ valid' = RunDown(valid)
  /\ waited' = IF pc = "requesting" THEN waited + 1 ELSE waited
  /\ late' = (late \/ waited' > Latency)
  /\ UNCHANGED <<pc, cached, life, waiterVars>>

TaskNext ==
  \/ KeepToken \/ RequestToken \/ TokenArrives \/ RequestFails
  \/ Notify \/ Tick \/ Elapse

-----------------------------------------------------------------------------
(***************************************************************************)
(* auth_initialized: subscribe, then await the first message.              *)
(***************************************************************************)
Subscribe(w) ==
  /\ waiter[w] = "outside"
  /\ waiter' = [waiter EXCEPT ![w] = "waiting"]
  /\ pending' = [pending EXCEPT ![w] = 0]
  /\ UNCHANGED <<tokenVars, taskVars>>

(* recv: Ok, or Err(Lagged) for a caller that was polled too late.         *)
Receive(w) ==
  /\ waiter[w] = "waiting" /\ pending[w] > 0
  /\ waiter' = [waiter EXCEPT ![w] = IF pending[w] = 1 THEN "initialized" ELSE "failed"]
  /\ pending' = [pending EXCEPT ![w] = 0]
  /\ UNCHANGED <<tokenVars, taskVars>>

(* Interceptor::call: any cached token is attached to the request, and its *)
(* expiry is not looked at; without one the call fails.                    *)
TokenAttached == cached

Next == TaskNext \/ \E w \in Waiter : Subscribe(w) \/ Receive(w)

Spec == Init /\ [][Next]_vars

(***************************************************************************)
(* The runtime keeps polling the task and the callers, and time passes; it *)
(* need not be that any request to the server succeeds.                    *)
(***************************************************************************)
Fairness ==
  /\ WF_vars(KeepToken \/ RequestToken \/ Notify \/ Tick)
  /\ WF_vars(Elapse)
  /\ WF_vars(RequestFails /\ waited = RequestTimeout)
  /\ \A w \in Waiter : WF_vars(Receive(w))

FairSpec == Spec /\ Fairness

-----------------------------------------------------------------------------
(* Every variable has its type; no token request outlasts its timeout, and *)
(* the server never honours a token for longer than the code does.         *)
TypeOK ==
  /\ pc \in {"checking", "requesting", "notifying", "ticking"}
  /\ due \in -MaxBehind..Period
  /\ waited \in 0..RequestTimeout
  /\ cached \in BOOLEAN /\ late \in BOOLEAN
  /\ life \in Nat /\ left \in Nat /\ valid \in Nat /\ valid <= left
  /\ waiter \in [Waiter -> {"outside", "waiting", "initialized", "failed"}]
  /\ pending \in [Waiter -> 0..2]

(* The cached token was neither late nor short-lived.                      *)
LongLived == ~late /\ life > Period + Latency + Transit

(* The interceptor never attaches a token that the server rejects on       *)
(* arrival, unless a token request has failed or was late or the token too *)
(* short-lived for the interval: checking every Period with a buffer of    *)
(* Skew is enough for a token that ages during the request that fetches it *)
(* and the one that replaces it, and on the way with the call.             *)
FreshToken == TokenAttached /\ LongLived => valid > Transit

(* Whoever has seen auth_initialized resolve with Ok has a token to send.  *)
ResolvedHasToken ==
  (\E w \in Waiter : waiter[w] = "initialized") => TokenAttached

(***************************************************************************)
(* The inductive invariants.  TimerInv: a request leaves no more than the  *)
(* rest of its Period until the next tick.  FreshInv: at every point of    *)
(* the loop the token outlives the time until the next token can be there, *)
(* and a call's transit.  NotifyInv: no notification without a token.      *)
(***************************************************************************)
TimerInv ==
  /\ pc = "requesting" => due + waited <= Period
  /\ pc # "requesting" => waited = 0
  /\ ~late => waited <= Latency

FreshInv ==
  cached /\ ~late =>
    /\ left <= valid + Latency
    /\ life > Period + Latency + Transit =>
         /\ pc \in {"notifying", "ticking"} =>
              valid > Latency + Transit /\ valid > Latency + Transit + due
         /\ pc = "checking" => valid > Latency + Transit
         /\ pc = "requesting" => valid + waited > Latency + Transit

NotifyInv ==
  /\ pc = "notifying" => cached
  /\ \A w \in Waiter : pending[w] > 0 \/ waiter[w] = "initialized" => cached

(* As long as the task goes on asking, the server answers now and again.   *)
ServerAnswers == SF_vars(TokenArrives)

(* Every caller of auth_initialized gets an answer, also one that comes    *)
(* long after the first token.                                             *)
EveryWaiterResolves ==
  ServerAnswers =>
    \A w \in Waiter : waiter[w] = "waiting" ~> waiter[w] # "waiting"

(* Failures do not stop the task: a token that the server rejects is       *)
(* replaced by one that it takes.                                          *)
TokenComesBack == ServerAnswers => (valid = 0 ~> valid > 0)

(* However far behind the interval is and however fast requests fail, the  *)
(* task does not ask the server again and again without letting any time   *)
(* pass: a burst of overdue ticks ends.                                    *)
NeverSpins == []<><<Elapse>>_vars

(* "Future that resolves when the auth interceptor is initialized": a      *)
(* caller that waits while there is a token need not wait for the server.  *)
InitializedResolves ==
  \A w \in Waiter :
    (waiter[w] = "waiting" /\ TokenAttached) ~> waiter[w] # "waiting"
=============================================================================
