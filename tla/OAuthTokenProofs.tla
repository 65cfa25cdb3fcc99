-------------------------- MODULE OAuthTokenProofs --------------------------
(***************************************************************************)
(* Proofs about OAuthToken for all timing constants that satisfy           *)
(* TimingAssumption, all lifetimes and all callers.                        *)
(***************************************************************************)
EXTENDS OAuthToken, TLAPS

TaskInv == TypeOK /\ TimerInv /\ FreshInv
Inv == TaskInv /\ NotifyInv

(* RunDown counts down to 0. *)
LEMMA RunDownNat ==
  ASSUME NEW n \in Nat
  PROVE  RunDown(n) \in Nat /\ RunDown(n) <= n /\ RunDown(n) >= n - 1
                            /\ (n > 0 => RunDown(n) = n - 1)
BY DEF RunDown

(* Before the first refresh there is no token, and nobody to tell. *)
LEMMA InitInv == Init => Inv
<1> SUFFICES ASSUME Init PROVE Inv
  OBVIOUS
<1>1. TypeOK
  <2>1. /\ due \in -MaxBehind..Period /\ waited \in 0..RequestTimeout
        /\ life \in Nat /\ left \in Nat /\ valid \in Nat /\ valid <= left
    BY TimingAssumption DEF Init
  <2>2. /\ pc \in {"checking", "requesting", "notifying", "ticking"}
        /\ cached \in BOOLEAN /\ late \in BOOLEAN
    BY DEF Init
  <2>3. /\ waiter \in [Waiter -> {"outside", "waiting", "initialized", "failed"}]
        /\ pending \in [Waiter -> 0..2]
    BY DEF Init
  <2>4. QED
    BY <2>1, <2>2, <2>3 DEF TypeOK
<1>2. TimerInv
  BY TimingAssumption DEF Init, TimerInv
<1>3. FreshInv
  BY DEF Init, FreshInv
<1>4. NotifyInv
  BY DEF Init, NotifyInv
<1>5. QED
  BY <1>1, <1>2, <1>3, <1>4 DEF Inv, TaskInv

(* The timers and the token along the steps of the background task. *)
LEMMA KeepTokenInv ==
  ASSUME TaskInv, KeepToken PROVE TimerInv' /\ FreshInv'
<1>1. /\ cached /\ left > Skew
      /\ pc = "checking" /\ pc' = "ticking"
      /\ UNCHANGED <<due, waited, late, cached, life, left, valid>>
  BY TimingAssumption
  DEF TaskInv, TypeOK, KeepToken, cached_token_is_expired, tokenVars
<1>2. /\ due \in Int /\ due <= Period /\ left \in Nat /\ valid \in Nat /\ waited = 0
  BY <1>1, TimingAssumption DEF TaskInv, TypeOK, TimerInv
<1>3. TimerInv'
  BY <1>1, <1>2, TimingAssumption DEF TimerInv
<1>4. ~late => left <= valid + Latency
  BY <1>1 DEF TaskInv, FreshInv
<1>5. ~late => valid > Latency + Transit /\ valid > Latency + Transit + due
  BY <1>1, <1>2, <1>4, TimingAssumption
<1>6. FreshInv'
  BY <1>1, <1>4, <1>5 DEF FreshInv
<1>7. QED
  BY <1>3, <1>6

LEMMA RequestTokenInv ==
  ASSUME TaskInv, RequestToken PROVE TimerInv' /\ FreshInv'
<1>1. /\ pc = "checking" /\ pc' = "requesting" /\ waited' = 0
      /\ UNCHANGED <<due, late, cached, life, left, valid>>
  BY DEF RequestToken, tokenVars
<1>2. due \in Int /\ due <= Period /\ valid \in Nat
  BY <1>1, TimingAssumption DEF TaskInv, TypeOK, TimerInv
<1>3. TimerInv'
  BY <1>1, <1>2, TimingAssumption DEF TimerInv
<1>4. FreshInv'
  BY <1>1, <1>2 DEF TaskInv, FreshInv
<1>5. QED
  BY <1>3, <1>4

LEMMA TokenArrivesInv ==
  ASSUME TaskInv, TokenArrives
  PROVE  TimerInv' /\ FreshInv' /\ life' \in Nat /\ left' \in Nat
         /\ valid' \in Nat /\ valid' <= left'
<1>1. /\ pc = "requesting" /\ pc' = "notifying" /\ waited' = 0
      /\ due' = due
      /\ late' = (waited > Latency)
  BY DEF TokenArrives
<1>2. PICK l \in Lifetime, age \in 0..waited :
        life' = l /\ left' = l /\ valid' = IF age <= l THEN l - age ELSE 0
  BY DEF TokenArrives
<1>3. /\ waited \in Nat /\ waited <= RequestTimeout
      /\ due \in Int /\ due + waited <= Period
  BY <1>1, TimingAssumption DEF TaskInv, TypeOK, TimerInv
<1>4. l \in Nat /\ age \in Nat /\ age <= waited
  BY <1>3, LifetimeAssumption
<1>5. valid' \in Nat /\ valid' <= left' /\ left' <= valid' + age
  BY <1>2, <1>4
<1>6. TimerInv'
  BY <1>1, TimingAssumption DEF TimerInv
<1>7. ASSUME ~late'
      PROVE  /\ left' <= valid' + Latency
             /\ life' > Period + Latency + Transit =>
                  valid' > Latency + Transit /\ valid' > Latency + Transit + due'
  <2>1. waited <= Latency
    <3>1. ~(waited > Latency)
      BY <1>1, <1>7, Zenon
    <3>2. QED
      BY <3>1, <1>3, TimingAssumption
  <2>2. left' <= valid' + Latency
    BY <1>2, <1>4, <1>5, <1>3, <2>1, TimingAssumption
  <2>3. ASSUME l > Period + Latency + Transit
        PROVE  /\ valid' = l - age
               /\ valid' > Latency + Transit /\ valid' > Latency + Transit + due
    <3>1. age <= l /\ waited <= Period
      BY <1>3, <1>4, <2>1, <2>3, TimingAssumption
    <3>2. valid' = l - age
      BY <1>2, <3>1
    <3>3. l - age > Latency + Transit /\ l - age > Latency + Transit + due
      BY <1>3, <1>4, <2>3, <3>1, TimingAssumption
    <3>4. QED
      BY <3>2, <3>3
  <2>4. QED
    BY <1>1, <1>2, <2>2, <2>3
<1>8. FreshInv'
  BY <1>1, <1>7 DEF FreshInv
<1>9. QED
  BY <1>2, <1>4, <1>5, <1>6, <1>8

LEMMA RequestFailsInv ==
  ASSUME TaskInv, RequestFails PROVE TimerInv' /\ FreshInv'
BY DEF RequestFails, TimerInv, FreshInv

LEMMA NotifyTaskInv ==
  ASSUME TaskInv, Notify PROVE TimerInv' /\ FreshInv'
<1>1. /\ pc = "notifying" /\ pc' = "ticking"
      /\ UNCHANGED <<due, waited, late, cached, life, left, valid>>
  BY DEF Notify, tokenVars
<1>2. TimerInv'
  BY <1>1 DEF TaskInv, TimerInv
<1>3. FreshInv'
  BY <1>1 DEF TaskInv, FreshInv
<1>4. QED
  BY <1>2, <1>3

LEMMA TickInv ==
  ASSUME TaskInv, Tick
  PROVE  TimerInv' /\ FreshInv' /\ due' \in -MaxBehind..Period
<1>1. /\ pc = "ticking" /\ pc' = "checking" /\ due <= 0 /\ due' = due + Period
      /\ UNCHANGED <<waited, late, cached, life, left, valid>>
  BY DEF Tick, tokenVars
<1>2. /\ due \in Int /\ due >= -MaxBehind /\ waited = 0 /\ valid \in Nat
  BY <1>1, TimingAssumption DEF TaskInv, TypeOK, TimerInv
<1>3. due' \in -MaxBehind..Period
  BY <1>1, <1>2, TimingAssumption
<1>4. TimerInv'
  BY <1>1, <1>2, <1>3, TimingAssumption DEF TimerInv
<1>5. FreshInv'
  BY <1>1 DEF TaskInv, FreshInv
<1>6. QED
  BY <1>3, <1>4, <1>5

LEMMA ElapseInv ==
  ASSUME TaskInv, Elapse
  PROVE  /\ TimerInv' /\ FreshInv' /\ late' \in BOOLEAN
         /\ due' \in -MaxBehind..Period /\ waited' \in 0..RequestTimeout
         /\ left' \in Nat /\ valid' \in Nat /\ valid' <= left'
<1>1. /\ \/ pc = "ticking" /\ due > 0
         \/ pc = "requesting" /\ waited < RequestTimeout
      /\ due' = IF due = -MaxBehind THEN due ELSE due - 1
      /\ left' = RunDown(left) /\ valid' = RunDown(valid)
      /\ waited' = IF pc = "requesting" THEN waited + 1 ELSE waited
      /\ UNCHANGED <<pc, cached, life>>
  BY DEF Elapse, Waits
<1>2. /\ due \in Int /\ due >= -MaxBehind /\ due <= Period
      /\ waited \in Nat /\ waited <= RequestTimeout
      /\ left \in Nat /\ valid \in Nat /\ valid <= left
  BY TimingAssumption DEF TaskInv, TypeOK
<1>3. left' \in Nat /\ valid' \in Nat /\ valid' <= left'
      /\ (left <= valid + Latency => left' <= valid' + Latency) /\ valid' >= valid - 1
  BY <1>1, <1>2, TimingAssumption DEF RunDown
<1>4. late' = (late \/ waited' > Latency)
  BY DEF Elapse
<1>5. late' \in BOOLEAN /\ (~late' => ~late /\ ~(waited' > Latency))
  BY <1>4
<1>6. /\ due' \in -MaxBehind..Period /\ waited' \in 0..RequestTimeout
      /\ pc = "requesting" => due' + waited' <= Period
      /\ pc = "ticking" => due' = due - 1 /\ waited' = 0
  BY <1>1, <1>2, TimingAssumption DEF TaskInv, TimerInv
<1>7. TimerInv'
  BY <1>1, <1>5, <1>6, TimingAssumption DEF TimerInv
<1>8. ASSUME cached, ~late, left <= valid + Latency, life > Period + Latency + Transit,
             ~(waited' > Latency)
      PROVE  /\ pc = "ticking" =>
                  valid' > Latency + Transit /\ valid' > Latency + Transit + due'
             /\ pc = "requesting" => valid' + waited' > Latency + Transit
  <2>1. /\ pc = "ticking" => valid > Latency + Transit /\ valid > Latency + Transit + due
        /\ pc = "requesting" => valid + waited > Latency + Transit
    BY <1>8 DEF TaskInv, FreshInv
  <2>2. CASE pc = "ticking"
    BY <1>1, <1>2, <1>3, <1>6, <2>1, <2>2, TimingAssumption
  <2>3. CASE pc = "requesting"
    BY <1>1, <1>2, <1>3, <2>1, <2>3, TimingAssumption
  <2>4. QED
    BY <1>1, <2>2, <2>3
<1>9. FreshInv'
  <2>1. cached /\ ~late => left <= valid + Latency
    BY DEF TaskInv, FreshInv
  <2>2. QED
    BY <1>1, <1>3, <1>5, <1>8, <2>1 DEF FreshInv
<1>10. QED
  BY <1>3, <1>5, <1>6, <1>7, <1>9

-----------------------------------------------------------------------------
(* Every step keeps the types. *)
LEMMA StepTypes == ASSUME Inv, [Next]_vars PROVE TypeOK'
<1> USE DEF Inv
<1>1. CASE TokenArrives
  <2>1. /\ pc' = "notifying" /\ waited' = 0 /\ due' = due /\ cached' = TRUE
        /\ late' \in BOOLEAN
        /\ UNCHANGED <<waiter, pending>>
    BY <1>1 DEF TokenArrives, waiterVars
  <2>2. life' \in Nat /\ left' \in Nat /\ valid' \in Nat /\ valid' <= left'
    BY <1>1, TokenArrivesInv
  <2>3. waited' \in 0..RequestTimeout
    BY <2>1, TimingAssumption
  <2>4. QED
    BY <2>1, <2>2, <2>3 DEF TaskInv, TypeOK
<1>2. CASE Tick
  <2>1. /\ pc' = "checking"
        /\ UNCHANGED <<waited, late, cached, life, left, valid, waiter, pending>>
    BY <1>2 DEF Tick, tokenVars, waiterVars
  <2>2. due' \in -MaxBehind..Period
    BY <1>2, TickInv
  <2>3. QED
    BY <2>1, <2>2 DEF TaskInv, TypeOK
<1>3. CASE Elapse
  <2>1. UNCHANGED <<pc, cached, life, waiter, pending>>
    BY <1>3 DEF Elapse, waiterVars
  <2>2. QED
    BY <1>3, <2>1, ElapseInv DEF TaskInv, TypeOK
<1>4. CASE KeepToken \/ RequestToken \/ RequestFails
  <2>1. /\ pc' \in {"checking", "requesting", "notifying", "ticking"}
        /\ late' \in BOOLEAN
        /\ UNCHANGED <<due, cached, life, left, valid, waiter, pending>>
    BY <1>4 DEF KeepToken, RequestToken, RequestFails, tokenVars, waiterVars, TaskInv, TypeOK
  <2>2. waited' \in 0..RequestTimeout
    BY <1>4, TimingAssumption DEF KeepToken, RequestToken, RequestFails, TaskInv, TypeOK
  <2>3. QED
    BY <2>1, <2>2 DEF TaskInv, TypeOK
<1>5. CASE Notify
  <2>1. /\ pc' = "ticking"
        /\ UNCHANGED <<due, waited, late, cached, life, left, valid, waiter>>
    BY <1>5 DEF Notify, tokenVars
  <2>2. pending' \in [Waiter -> 0..2]
    BY <1>5 DEF Notify
  <2>3. QED
    BY <2>1, <2>2 DEF TaskInv, TypeOK
<1>6. CASE \E w \in Waiter : Subscribe(w) \/ Receive(w)
  <2>1. UNCHANGED <<tokenVars, taskVars>>
    BY <1>6 DEF Subscribe, Receive
  <2>2. /\ waiter' \in [Waiter -> {"outside", "waiting", "initialized", "failed"}]
        /\ pending' \in [Waiter -> 0..2]
    BY <1>6 DEF Subscribe, Receive, TaskInv, TypeOK
  <2>3. QED
    BY <2>1, <2>2 DEF TaskInv, TypeOK, tokenVars, taskVars
<1>7. CASE UNCHANGED vars
  BY <1>7 DEF vars, tokenVars, taskVars, waiterVars, TaskInv, TypeOK
<1>8. QED
  BY <1>1, <1>2, <1>3, <1>4, <1>5, <1>6, <1>7 DEF Next, TaskNext

(* Every step keeps the timers in step and the token alive. *)
LEMMA StepTimers == ASSUME Inv, [Next]_vars PROVE TimerInv' /\ FreshInv'
<1>1. CASE TaskNext
  BY <1>1, KeepTokenInv, RequestTokenInv, TokenArrivesInv, RequestFailsInv,
     NotifyTaskInv, TickInv, ElapseInv DEF TaskNext, Inv
<1>2. CASE \/ \E w \in Waiter : Subscribe(w) \/ Receive(w)
           \/ UNCHANGED vars
  <2>1. UNCHANGED <<tokenVars, taskVars>>
    BY <1>2 DEF Subscribe, Receive, vars
  <2>2. QED
    BY <2>1 DEF tokenVars, taskVars, Inv, TaskInv, TimerInv, FreshInv
<1>3. QED
  BY <1>1, <1>2 DEF Next

(* No step notifies without a token, and no step loses a token. *)
LEMMA StepNotify == ASSUME Inv, [Next]_vars PROVE NotifyInv'
<1> USE DEF Inv, NotifyInv
<1>1. CASE TokenArrives
  BY <1>1 DEF TokenArrives
<1>2. CASE KeepToken \/ RequestToken \/ RequestFails \/ Tick \/ Elapse
  <2>1. pc' # "notifying" \/ pc' = pc
    BY <1>2 DEF KeepToken, RequestToken, RequestFails, Tick, Elapse
  <2>2. UNCHANGED <<cached, waiter, pending>>
    BY <1>2 DEF KeepToken, RequestToken, RequestFails, Tick, Elapse, tokenVars, waiterVars
  <2>3. QED
    BY <2>1, <2>2
<1>3. CASE Notify
  BY <1>3 DEF Notify, tokenVars
<1>4. CASE \E w \in Waiter : Subscribe(w) \/ Receive(w)
  <2>1. PICK w \in Waiter : Subscribe(w) \/ Receive(w)
    BY <1>4
  <2>2. UNCHANGED <<pc, cached>> /\ pending'[w] = 0
        /\ (waiter'[w] = "initialized" => pending[w] > 0)
        /\ \A u \in Waiter : u # w => waiter'[u] = waiter[u] /\ pending'[u] = pending[u]
    BY <2>1 DEF Subscribe, Receive, tokenVars, taskVars, TaskInv, TypeOK
  <2>3. QED
    BY <2>2
<1>5. CASE UNCHANGED vars
  BY <1>5 DEF vars, tokenVars, taskVars, waiterVars
<1>6. QED
  BY <1>1, <1>2, <1>3, <1>4, <1>5 DEF Next, TaskNext

LEMMA StepInv == Inv /\ [Next]_vars => Inv'
BY StepTypes, StepTimers, StepNotify DEF Inv, TaskInv

LEMMA InvariantHolds == Spec => []Inv
BY StepInv, InitInv, PTL DEF Spec

-----------------------------------------------------------------------------
(* The types: among them that no token request outlasts its timeout.       *)
THEOREM TypeCorrect == Spec => []TypeOK
<1>1. Inv => TypeOK
  BY DEF Inv, TaskInv
<1>2. QED
  BY <1>1, InvariantHolds, PTL

(* A cached token that is not late or short-lived outlives Transit.        *)
LEMMA FreshByInv == Inv => FreshToken
<1>1. SUFFICES ASSUME Inv, cached, ~late, life > Period + Latency + Transit
               PROVE  valid > Transit
  BY DEF FreshToken, TokenAttached, LongLived
<1>2. /\ pc \in {"notifying", "ticking"} => valid > Latency + Transit
      /\ pc = "checking" => valid > Latency + Transit
      /\ pc = "requesting" => valid + waited > Latency + Transit /\ waited <= Latency
      /\ pc \in {"checking", "requesting", "notifying", "ticking"}
  BY <1>1 DEF Inv, TaskInv, TypeOK, FreshInv, TimerInv
<1>3. valid \in Nat /\ waited \in Nat
  BY <1>1, TimingAssumption DEF Inv, TaskInv, TypeOK
<1>4. QED
  BY <1>2, <1>3, TimingAssumption

(***************************************************************************)
(* While token requests take at most Latency and do not fail, every token  *)
(* that is attached to a call outlives Transit, provided that Latency,     *)
(* twice, and Transit fit between Period and Skew: between the 10 s and    *)
(* the 15 s of the code.                                                   *)
(***************************************************************************)
THEOREM TokenStaysFresh == Spec => []FreshToken
BY FreshByInv, InvariantHolds, PTL

(* After auth_initialized has resolved with Ok, calls carry a token.       *)
THEOREM ResolvedMeansToken == Spec => []ResolvedHasToken
<1>1. Inv => ResolvedHasToken
  BY DEF Inv, NotifyInv, ResolvedHasToken, TokenAttached
<1>2. QED
  BY <1>1, InvariantHolds, PTL
=============================================================================
