------------------------- MODULE JobHandlingProofs -------------------------
(***************************************************************************)
(* Proofs about JobHandling, for every set of jobs, handler and copies:    *)
(* its types, that the broker's outcome of a job is one a handler has had  *)
(* for that very job (OutcomeInv), and that the worker swallows no job     *)
(* (SwallowInv).                                                           *)
(***************************************************************************)
EXTENDS JobHandling, TLAPS

CopyType ==
  [pc : {"free", "arriving"} \cup InWorker, job : Job \cup {NoJob},
   key : Job \cup {NoJob}, inTime : BOOLEAN]

(* The part of TypeInv that is about one copy.                             *)
CopyInv(r) ==
  /\ r \in CopyType
  /\ r.inTime => r.pc # "free"
  /\ r.pc # "free" => r.job \in Job
  /\ r.pc \in Started => r.key = r.job

LEMMA TypeInvByCopy ==
  TypeInv <=>
    /\ state \in [Job -> {"activatable", "activated", "completed", "incident"}]
    /\ copy = [c \in Copy |-> copy[c]] /\ \A c \in Copy : CopyInv(copy[c])
    /\ requests \subseteq Request /\ data \subseteq StateType /\ dropped \in BOOLEAN
    /\ succeeded \subseteq Job /\ failed \subseteq Job /\ lost \subseteq Job
BY DEF TypeInv, TypeOK, KeyOfOwnJob, CopyInv, CopyType

LEMMA FreeInv == CopyInv(FreeCopy)
BY DEF CopyInv, CopyType, FreeCopy, CopyAt, Started

(* A copy that keeps its job keeps its part of the invariant.              *)
LEMMA AtInv ==
  ASSUME NEW pc \in {"arriving"} \cup InWorker, NEW j \in Job,
         NEW k \in Job \cup {NoJob}, NEW t \in BOOLEAN, pc \in Started => k = j
  PROVE  CopyInv(CopyAt(pc, j, k, t))
BY DEF CopyInv, CopyType, CopyAt, InWorker

LEMMA FieldsOf ==
  ASSUME NEW r, CopyInv(r), r.pc # "free"
  PROVE  /\ r.pc \in {"arriving"} \cup InWorker
         /\ r.job \in Job /\ r.key \in Job \cup {NoJob} /\ r.inTime \in BOOLEAN
         /\ r.pc \in Started => r.key = r.job
BY DEF CopyInv, CopyType

LEMMA LostAreJobs ==
  ASSUME TypeInv, NEW C \in SUBSET Copy
  PROVE  LostWith(C) \subseteq Job
BY DEF LostWith, TypeInv, KeyOfOwnJob

(* A step that changes one copy, and for the better, keeps them all.       *)
LEMMA OneCopy ==
  ASSUME copy = [c \in Copy |-> copy[c]], \A c \in Copy : CopyInv(copy[c]),
         NEW c \in Copy, NEW r, CopyInv(r), copy' = [copy EXCEPT ![c] = r]
  PROVE  /\ copy' = [d \in Copy |-> copy'[d]]
         /\ \A d \in Copy : CopyInv(copy'[d])
OBVIOUS

-----------------------------------------------------------------------------
(* Every step keeps the types.                                             *)
LEMMA TypeStep == TypeInv /\ [Next]_vars => TypeInv'
<1> SUFFICES ASSUME TypeInv, [Next]_vars PROVE TypeInv'
  OBVIOUS
<1> DEFINE Rest ==
      /\ state \in [Job -> {"activatable", "activated", "completed", "incident"}]
      /\ requests \subseteq Request /\ data \subseteq StateType /\ dropped \in BOOLEAN
      /\ succeeded \subseteq Job /\ failed \subseteq Job /\ lost \subseteq Job
<1> DEFINE Copies == copy = [c \in Copy |-> copy[c]] /\ \A c \in Copy : CopyInv(copy[c])
<1>r. Rest /\ Copies
  BY TypeInvByCopy
<1>q. Rest' /\ Copies' => TypeInv'
  BY DEF TypeInv, TypeOK, KeyOfOwnJob, CopyInv, CopyType
<1>1. ASSUME NEW c \in Copy, NEW j \in Job, Activate(c, j) PROVE TypeInv'
  <2>1. Rest'
    BY <1>1, <1>r DEF Activate
  <2>2. CopyInv(CopyAt("arriving", j, NoJob, TRUE))
    BY AtInv DEF Started
  <2>3. Copies'
    BY <1>1, <1>r, <2>2, OneCopy DEF Activate
  <2> QED BY <1>q, <2>1, <2>3
<1>2. ASSUME NEW j \in Job, JobTimesOut(j) PROVE TypeInv'
  <2>1. Rest'
    BY <1>2, <1>r DEF JobTimesOut, historyVars
  <2>2. ASSUME NEW c \in Copy PROVE CopyInv(copy'[c])
    <3>1. CASE copy[c].job = j
      <4>1. copy'[c] = CopyAt(copy[c].pc, j, copy[c].key, FALSE)
        BY <1>2, <3>1 DEF JobTimesOut
      <4>2. CopyInv(copy[c])
        BY <1>r
      <4> QED BY <4>1, <4>2, <3>1 DEF CopyInv, CopyType, CopyAt
    <3>2. CASE copy[c].job # j
      BY <1>2, <3>2, <1>r DEF JobTimesOut
    <3> QED BY <3>1, <3>2
  <2>3. Copies'
    BY <1>2, <2>2 DEF JobTimesOut
  <2> QED BY <1>q, <2>1, <2>3
<1>3. ASSUME NEW j \in Job, ProcessComplete(j) PROVE TypeInv'
  BY <1>3, <1>r, <1>q DEF ProcessComplete, historyVars
<1>4. ASSUME NEW j \in Job, ProcessFail(j) PROVE TypeInv'
  BY <1>4, <1>r, <1>q DEF ProcessFail, historyVars
<1>5. ASSUME NEW r \in requests, LoseRequest(r) PROVE TypeInv'
  BY <1>5, <1>r, <1>q DEF LoseRequest, Request
<1>6. ASSUME NEW c \in Copy, Enqueue(c) PROVE TypeInv'
  <2>1. Rest'
    BY <1>6, <1>r DEF Enqueue, brokerVars, historyVars
  <2>2. CopyInv(CopyAt("queued", copy[c].job, copy[c].key, copy[c].inTime))
    BY <1>6, <1>r, FieldsOf, AtInv DEF Enqueue, InWorker, Started
  <2>3. Copies'
    BY <1>6, <1>r, <2>2, OneCopy DEF Enqueue, Move
  <2> QED BY <1>q, <2>1, <2>3
<1>7. ASSUME NEW c \in Copy, LoseInTask(c) PROVE TypeInv'
  <2>1. Rest'
    BY <1>7, <1>r, LostAreJobs DEF LoseInTask, brokerVars
  <2>2. Copies'
    BY <1>7, <1>r, FreeInv, OneCopy DEF LoseInTask, Free
  <2> QED BY <1>q, <2>1, <2>2
<1>8. ASSUME NEW c \in Copy, Dispatch(c) PROVE TypeInv'
  <2>1. copy[c].job \in Job
    BY <1>8, <1>r, FieldsOf DEF Dispatch
  <2>2. Rest'
    BY <1>8, <1>r, <2>1 DEF Dispatch, brokerVars
  <2>3. ASSUME NEW pc \in {"handling", "failing"}
        PROVE  CopyInv(CopyAt(pc, copy[c].job, copy[c].job, copy[c].inTime))
    BY <1>8, <1>r, <2>1, FieldsOf, AtInv DEF Dispatch, InWorker
  <2>4. Copies'
    BY <1>8, <1>r, <2>3, OneCopy DEF Dispatch
  <2> QED BY <1>q, <2>2, <2>4
<1>9. ASSUME NEW c \in Copy, HandlerReturns(c) PROVE TypeInv'
  <2>1. copy[c].job \in Job /\ copy[c].key = copy[c].job
    BY <1>9, <1>r, FieldsOf DEF HandlerReturns, Started
  <2>2. Rest'
    BY <1>9, <1>r, <2>1 DEF HandlerReturns, brokerVars
  <2>3. ASSUME NEW pc \in {"completing", "failing"}
        PROVE  CopyInv(CopyAt(pc, copy[c].job, copy[c].key, copy[c].inTime))
    BY <1>9, <1>r, <2>1, FieldsOf, AtInv DEF HandlerReturns, InWorker
  <2>4. Copies'
    BY <1>9, <1>r, <2>3, OneCopy DEF HandlerReturns, Move
  <2> QED BY <1>q, <2>2, <2>4
<1>10. ASSUME NEW c \in Copy, SendResult(c) PROVE TypeInv'
  <2>1. copy[c].job \in Job /\ copy[c].key = copy[c].job
    BY <1>10, <1>r, FieldsOf DEF SendResult, Started
  <2>2. Rest'
    BY <1>10, <1>r, <2>1 DEF SendResult, historyVars, Request
  <2>3. CopyInv(CopyAt("awaiting", copy[c].job, copy[c].key, copy[c].inTime))
    BY <1>10, <1>r, <2>1, FieldsOf, AtInv DEF SendResult, InWorker
  <2>4. Copies'
    BY <1>10, <1>r, <2>3, OneCopy DEF SendResult, Move
  <2> QED BY <1>q, <2>2, <2>4
<1>11. ASSUME NEW c \in Copy, Answered(c) PROVE TypeInv'
  <2>1. Rest'
    BY <1>11, <1>r DEF Answered, brokerVars, historyVars
  <2>2. Copies'
    BY <1>11, <1>r, FreeInv, OneCopy DEF Answered, Free
  <2> QED BY <1>q, <2>1, <2>2
<1>12. ASSUME Drop PROVE TypeInv'
  <2>1. LostWith({c \in Copy : copy[c].pc \in InWorker}) \subseteq Job
    BY LostAreJobs
  <2>2. Rest'
    BY <1>12, <1>r, <2>1 DEF Drop, brokerVars
  <2>3. Copies'
    BY <1>12, <1>r, FreeInv DEF Drop
  <2> QED BY <1>q, <2>2, <2>3
<1>13. ASSUME UNCHANGED vars PROVE TypeInv'
  BY <1>13, <1>r, <1>q DEF vars
<1> QED
  BY <1>1, <1>2, <1>3, <1>4, <1>5, <1>6, <1>7, <1>8, <1>9, <1>10, <1>11, <1>12, <1>13
  DEF Next, Broker, WorkerStep

LEMMA TypeInit == Init => TypeInv
<1> SUFFICES ASSUME Init PROVE TypeInv
  OBVIOUS
<1>1. \A c \in Copy : copy[c] = FreeCopy
  BY DEF Init
<1> QED BY <1>1, FreeInv, TypeInvByCopy DEF Init

(***************************************************************************)
(* Every variable keeps its type, whatever jobs there are and however many *)
(* copies of them: a command carries the key of a job.                     *)
(***************************************************************************)
THEOREM TypeCorrect == Spec => []TypeOK
<1>1. TypeInv => TypeOK
  BY DEF TypeInv
<1> QED BY <1>1, TypeInit, TypeStep, PTL DEF Spec

-----------------------------------------------------------------------------
(* What the actions of the worker make of the copy they are about.         *)
LEMMA AtFields ==
  ASSUME NEW pc, NEW j, NEW k, NEW t
  PROVE  /\ CopyAt(pc, j, k, t).pc = pc /\ CopyAt(pc, j, k, t).job = j
         /\ CopyAt(pc, j, k, t).key = k /\ CopyAt(pc, j, k, t).inTime = t
BY DEF CopyAt

LEMMA AtAfter ==
  ASSUME TypeInv, NEW c \in Copy, NEW pc, NEW j, NEW k, NEW t,
         copy' = [copy EXCEPT ![c] = CopyAt(pc, j, k, t)]
  PROVE  /\ copy'[c].pc = pc /\ copy'[c].job = j /\ copy'[c].key = k
         /\ copy'[c].inTime = t
         /\ \A d \in Copy \ {c} : copy'[d] = copy[d]
<1>1. copy'[c] = CopyAt(pc, j, k, t)
  BY DEF TypeInv, TypeOK
<1>2. \A d \in Copy \ {c} : copy'[d] = copy[d]
  BY DEF TypeInv, TypeOK
<1> QED BY <1>1, <1>2, AtFields

LEMMA MoveAfter ==
  ASSUME TypeInv, NEW c \in Copy, NEW pc, Move(c, pc)
  PROVE  /\ copy'[c].pc = pc /\ copy'[c].job = copy[c].job
         /\ copy'[c].inTime = copy[c].inTime
         /\ \A d \in Copy \ {c} : copy'[d] = copy[d]
<1>1. copy' = [copy EXCEPT ![c] = CopyAt(pc, copy[c].job, copy[c].key, copy[c].inTime)]
  BY DEF Move
<1>2. copy'[c] = CopyAt(pc, copy[c].job, copy[c].key, copy[c].inTime)
  BY <1>1 DEF TypeInv, TypeOK
<1>3. \A d \in Copy \ {c} : copy'[d] = copy[d]
  BY <1>1 DEF TypeInv, TypeOK
<1> QED BY <1>2, <1>3 DEF CopyAt

LEMMA FreeAfter ==
  ASSUME TypeInv, NEW c \in Copy, Free(c)
  PROVE  /\ copy'[c].pc = "free" /\ ~copy'[c].inTime
         /\ \A d \in Copy \ {c} : copy'[d] = copy[d]
<1>1. copy' = [copy EXCEPT ![c] = CopyAt("free", NoJob, NoJob, FALSE)]
  BY DEF Free, FreeCopy
<1> QED BY <1>1, AtAfter

LEMMA TimesOutAfter ==
  ASSUME TypeInv, NEW j \in Job, JobTimesOut(j), NEW c \in Copy
  PROVE  /\ copy'[c].pc = copy[c].pc /\ copy'[c].job = copy[c].job
         /\ copy'[c].inTime = (copy[c].inTime /\ copy[c].job # j)
<1>1. CASE copy[c].job = j
  <2>1. copy'[c] = CopyAt(copy[c].pc, j, copy[c].key, FALSE)
    BY <1>1 DEF JobTimesOut
  <2>2. copy'[c].pc = copy[c].pc /\ copy'[c].job = j /\ copy'[c].inTime = FALSE
    BY <2>1 DEF CopyAt
  <2> QED BY <1>1, <2>2
<1>2. CASE copy[c].job # j
  <2>1. copy'[c] = copy[c]
    BY <1>2 DEF JobTimesOut
  <2>2. copy[c].inTime \in BOOLEAN
    BY DEF TypeInv, TypeOK
  <2>3. copy'[c].inTime = copy[c].inTime
    BY <2>1
  <2>4. (copy[c].inTime /\ copy[c].job # j) = copy[c].inTime
    BY <1>2, <2>2
  <2> QED BY <2>1, <2>3, <2>4
<1> QED BY <1>1, <1>2

(***************************************************************************)
(* Every step keeps: who sends a command has a result for the job, and a   *)
(* command goes out under the key of the job the result is for.            *)
(***************************************************************************)
LEMMA CommandStep == TypeInv /\ CommandJustified /\ [Next]_vars => CommandJustified'
<1> SUFFICES ASSUME TypeInv, CommandJustified, [Next]_vars PROVE CommandJustified'
  OBVIOUS
<1> USE DEF CommandJustified
<1>1. ASSUME NEW c \in Copy, NEW j \in Job, Activate(c, j) PROVE CommandJustified'
  <2>1. copy'[c].pc = "arriving" /\ \A d \in Copy \ {c} : copy'[d] = copy[d]
    BY <1>1, AtAfter DEF Activate
  <2>2. requests' = requests /\ succeeded' = succeeded /\ failed' = failed
    BY <1>1 DEF Activate
  <2> QED BY <2>1, <2>2
<1>2. ASSUME NEW j \in Job, JobTimesOut(j) PROVE CommandJustified'
  <2>1. \A c \in Copy : copy'[c].pc = copy[c].pc /\ copy'[c].job = copy[c].job
    BY <1>2, TimesOutAfter
  <2> QED BY <1>2, <2>1 DEF JobTimesOut, historyVars
<1>3. ASSUME NEW j \in Job, ProcessComplete(j) PROVE CommandJustified'
  BY <1>3 DEF ProcessComplete, historyVars
<1>4. ASSUME NEW j \in Job, ProcessFail(j) PROVE CommandJustified'
  BY <1>4 DEF ProcessFail, historyVars
<1>5. ASSUME NEW r \in requests, LoseRequest(r) PROVE CommandJustified'
  BY <1>5 DEF LoseRequest
<1>6. ASSUME NEW c \in Copy, Enqueue(c) PROVE CommandJustified'
  BY <1>6, MoveAfter DEF Enqueue, brokerVars, historyVars
<1>7. ASSUME NEW c \in Copy, LoseInTask(c) PROVE CommandJustified'
  BY <1>7, FreeAfter DEF LoseInTask, brokerVars
<1>8. ASSUME NEW c \in Copy, Dispatch(c) PROVE CommandJustified'
  <2>1. CASE from_job(copy[c].job)
    <3>1. copy'[c].pc = "handling" /\ \A d \in Copy \ {c} : copy'[d] = copy[d]
      BY <1>8, <2>1, AtAfter DEF Dispatch
    <3> QED BY <1>8, <2>1, <3>1 DEF Dispatch, brokerVars
  <2>2. CASE ~from_job(copy[c].job)
    <3>1. /\ copy'[c].pc = "failing" /\ copy'[c].job = copy[c].job
          /\ \A d \in Copy \ {c} : copy'[d] = copy[d]
      BY <1>8, <2>2, AtAfter DEF Dispatch
    <3> QED BY <1>8, <2>2, <3>1 DEF Dispatch, brokerVars
  <2> QED BY <2>1, <2>2
<1>9. ASSUME NEW c \in Copy, HandlerReturns(c) PROVE CommandJustified'
  <2>1. CASE Move(c, "completing") /\ succeeded' = succeeded \cup {copy[c].job} /\ UNCHANGED failed
    BY <1>9, <2>1, MoveAfter DEF HandlerReturns, brokerVars
  <2>2. CASE Move(c, "failing") /\ failed' = failed \cup {copy[c].job} /\ UNCHANGED succeeded
    BY <1>9, <2>2, MoveAfter DEF HandlerReturns, brokerVars
  <2> QED BY <1>9, <2>1, <2>2 DEF HandlerReturns
<1>10. ASSUME NEW c \in Copy, SendResult(c) PROVE CommandJustified'
  <2>1. copy[c].key = copy[c].job
    BY <1>10 DEF SendResult, TypeInv, KeyOfOwnJob, Started
  <2>2. \A r \in requests' :
          /\ r.command = "complete" => r.key \in succeeded'
          /\ r.command = "fail" => r.key \in failed'
    BY <1>10, <2>1 DEF SendResult, historyVars
  <2>3. \A d \in Copy :
          /\ copy'[d].pc = "completing" => copy'[d].job \in succeeded'
          /\ copy'[d].pc = "failing" => copy'[d].job \in failed'
    BY <1>10, MoveAfter DEF SendResult, historyVars
  <2> QED BY <2>2, <2>3
<1>11. ASSUME NEW c \in Copy, Answered(c) PROVE CommandJustified'
  BY <1>11, FreeAfter DEF Answered, brokerVars, historyVars
<1>12. ASSUME Drop PROVE CommandJustified'
  <2>1. \A c \in Copy : copy'[c] = FreeCopy \/ copy'[c] = copy[c]
    BY <1>12 DEF Drop
  <2>2. FreeCopy.pc = "free"
    BY DEF FreeCopy, CopyAt
  <2>3. requests' = requests /\ succeeded' = succeeded /\ failed' = failed
    BY <1>12 DEF Drop, brokerVars
  <2> QED BY <2>1, <2>2, <2>3
<1>13. ASSUME UNCHANGED vars PROVE CommandJustified'
  BY <1>13 DEF vars
<1> QED
  BY <1>1, <1>2, <1>3, <1>4, <1>5, <1>6, <1>7, <1>8, <1>9, <1>10, <1>11, <1>12, <1>13
  DEF Next, Broker, WorkerStep

(* Only the broker ends a job, and only at the command of a result.        *)
LEMMA OutcomeStep == OutcomeInv /\ [Next]_vars => OutcomeInv'
<1> SUFFICES ASSUME OutcomeInv, [Next]_vars PROVE OutcomeJustified'
  BY TypeStep, CommandStep DEF OutcomeInv
<1> USE DEF OutcomeInv, OutcomeJustified
<1>t. state \in [Job -> {"activatable", "activated", "completed", "incident"}]
  BY DEF TypeInv, TypeOK
<1>1. ASSUME NEW c \in Copy, NEW j \in Job, Activate(c, j) PROVE OutcomeJustified'
  BY <1>1, <1>t DEF Activate
<1>2. ASSUME NEW j \in Job, JobTimesOut(j) PROVE OutcomeJustified'
  BY <1>2, <1>t DEF JobTimesOut, historyVars
<1>3. ASSUME NEW j \in Job, ProcessComplete(j) PROVE OutcomeJustified'
  <2>1. j \in succeeded
    BY <1>3 DEF ProcessComplete, CommandJustified
  <2> QED BY <1>3, <1>t, <2>1 DEF ProcessComplete, historyVars
<1>4. ASSUME NEW j \in Job, ProcessFail(j) PROVE OutcomeJustified'
  <2>1. j \in failed
    BY <1>4 DEF ProcessFail, CommandJustified
  <2> QED BY <1>4, <1>t, <2>1 DEF ProcessFail, historyVars
<1>5. ASSUME NEW r \in requests, LoseRequest(r) PROVE OutcomeJustified'
  BY <1>5 DEF LoseRequest
<1>6. ASSUME NEW c \in Copy, WorkerStep(c) PROVE OutcomeJustified'
  <2>1. /\ state' = state /\ succeeded \subseteq succeeded' /\ failed \subseteq failed'
    BY <1>6 DEF WorkerStep, Enqueue, LoseInTask, Dispatch, HandlerReturns, SendResult,
                Answered, brokerVars, historyVars
  <2> QED BY <2>1
<1>7. ASSUME Drop PROVE OutcomeJustified'
  BY <1>7 DEF Drop, brokerVars
<1>8. ASSUME UNCHANGED vars PROVE OutcomeJustified'
  BY <1>8 DEF vars
<1> QED
  BY <1>1, <1>2, <1>3, <1>4, <1>5, <1>6, <1>7, <1>8 DEF Next, Broker

(***************************************************************************)
(* A job is completed only if a handler has returned Ok for it, and an     *)
(* incident is raised only if one has failed for it, however many handlers *)
(* run at the same time and however late their commands are.               *)
(***************************************************************************)
THEOREM OutcomesJustified == Spec => []OutcomeJustified
<1>1. Init => OutcomeInv
  <2> SUFFICES ASSUME Init PROVE CommandJustified /\ OutcomeJustified
    BY TypeInit DEF OutcomeInv
  <2>1. \A c \in Copy : copy[c].pc = "free"
    BY DEF Init, FreeCopy, CopyAt
  <2> QED BY <2>1 DEF Init, CommandJustified, OutcomeJustified
<1>2. OutcomeInv => OutcomeJustified
  BY DEF OutcomeInv
<1> QED BY <1>1, <1>2, OutcomeStep, PTL DEF Spec

-----------------------------------------------------------------------------
(***************************************************************************)
(* Nothing is swallowed.  SwallowInv adds to NothingSwallowed where the    *)
(* answer of a copy is that has none left to send (AnswerUnderWay), and    *)
(* that a job with a copy in time is not handed out again                  *)
(* (InTimeIsCurrent): otherwise a new activation, which makes `lost'       *)
(* forget the job, would cover up the loss of an old answer.               *)
(***************************************************************************)
Swallow == InTimeIsCurrent /\ AnswerUnderWay /\ NothingSwallowed

(* A step of the worker that keeps a copy in its hand.                     *)
LEMMA KeptCopy ==
  ASSUME SwallowInv, NEW c \in Copy,
         state' = state, lost' = lost, requests \subseteq requests',
         \A d \in Copy \ {c} : copy'[d] = copy[d],
         copy'[c].job = copy[c].job, copy'[c].inTime = copy[c].inTime,
         copy'[c].pc # "awaiting" \/ \E r \in requests' : r.key = copy[c].job
  PROVE  Swallow'
<1>1. InTimeIsCurrent'
  BY DEF SwallowInv, InTimeIsCurrent
<1>2. AnswerUnderWay'
  BY DEF SwallowInv, AnswerUnderWay
<1>3. NothingSwallowed'
  BY DEF SwallowInv, NothingSwallowed
<1> QED BY <1>1, <1>2, <1>3 DEF Swallow

(* Copies are given up, and the jobs they are current for are lost, or     *)
(* their answers are under way.                                            *)
LEMMA FreedCopies ==
  ASSUME SwallowInv, NEW C \in SUBSET Copy,
         state' = state, requests' = requests, lost \subseteq lost',
         \A d \in Copy \ C : copy'[d] = copy[d],
         \A d \in C : copy'[d].pc = "free" /\ ~copy'[d].inTime,
         \A d \in C : copy[d].inTime /\ state[copy[d].job] = "activated" =>
           copy[d].job \in lost' \/ \E r \in requests : r.key = copy[d].job
  PROVE  Swallow'
<1>1. InTimeIsCurrent'
  BY DEF SwallowInv, InTimeIsCurrent
<1>2. AnswerUnderWay'
  BY DEF SwallowInv, AnswerUnderWay
<1>3. NothingSwallowed'
  <2> SUFFICES ASSUME NEW j \in Job, state[j] = "activated", j \notin lost',
                      ~\E r \in requests : r.key = j
               PROVE  \E d \in Copy : copy'[d].job = j /\ copy'[d].inTime
    BY DEF NothingSwallowed
  <2>1. PICK d \in Copy : copy[d].job = j /\ copy[d].inTime
    BY DEF SwallowInv, NothingSwallowed
  <2>2. d \notin C
    BY <2>1
  <2> QED BY <2>1, <2>2
<1> QED BY <1>1, <1>2, <1>3 DEF Swallow

LEMMA FreedCopy ==
  ASSUME SwallowInv, NEW c \in Copy,
         state' = state, requests' = requests, lost \subseteq lost',
         \A d \in Copy \ {c} : copy'[d] = copy[d],
         copy'[c].pc = "free", ~copy'[c].inTime,
         copy[c].inTime /\ state[copy[c].job] = "activated" =>
           copy[c].job \in lost' \/ \E r \in requests : r.key = copy[c].job
  PROVE  Swallow'
<1>1. {c} \in SUBSET Copy
  OBVIOUS
<1>2. \A d \in {c} : copy'[d].pc = "free" /\ ~copy'[d].inTime
  OBVIOUS
<1>3. \A d \in {c} : copy[d].inTime /\ state[copy[d].job] = "activated" =>
        copy[d].job \in lost' \/ \E r \in requests : r.key = copy[d].job
  OBVIOUS
<1> QED BY <1>1, <1>2, <1>3, FreedCopies

(* Every step keeps the whole of it.                                       *)
LEMMA SwallowStep == SwallowInv /\ [Next]_vars => SwallowInv'
<1> SUFFICES ASSUME SwallowInv, [Next]_vars PROVE Swallow'
  BY TypeStep DEF SwallowInv, Swallow
<1>v. TypeInv /\ InTimeIsCurrent /\ AnswerUnderWay /\ NothingSwallowed
  BY DEF SwallowInv
<1>s. state \in [Job -> {"activatable", "activated", "completed", "incident"}]
  BY <1>v DEF TypeInv, TypeOK
<1>j. \A c \in Copy : copy[c].inTime => copy[c].pc # "free" /\ copy[c].job \in Job
  BY <1>v DEF TypeInv, KeyOfOwnJob
<1>1. ASSUME NEW c \in Copy, NEW j \in Job, Activate(c, j) PROVE Swallow'
  <2>1. /\ copy'[c].pc = "arriving" /\ copy'[c].job = j /\ copy'[c].inTime
        /\ \A d \in Copy \ {c} : copy'[d] = copy[d]
    BY <1>1, <1>v, AtAfter DEF Activate
  <2>2. /\ state[j] = "activatable" /\ state'[j] = "activated"
        /\ \A i \in Job \ {j} : state'[i] = state[i]
    BY <1>1, <1>s DEF Activate
  <2>3. lost' = lost \ {j} /\ requests' = requests /\ copy[c].pc = "free"
    BY <1>1 DEF Activate
  <2>4. \A d \in Copy : copy[d].inTime => copy[d].job # j
    BY <2>2, <1>v DEF InTimeIsCurrent
  <2>5. InTimeIsCurrent'
    BY <2>1, <2>2, <2>4, <1>v, <1>j DEF InTimeIsCurrent
  <2>6. AnswerUnderWay'
    BY <2>1, <2>2, <2>3, <2>4, <1>v, <1>j DEF AnswerUnderWay
  <2>7. NothingSwallowed'
    <3> SUFFICES ASSUME NEW i \in Job, state'[i] = "activated", i \notin lost',
                        ~\E r \in requests : r.key = i
                 PROVE  \E d \in Copy : copy'[d].job = i /\ copy'[d].inTime
      BY <2>3 DEF NothingSwallowed
    <3>1. CASE i = j
      BY <3>1, <2>1
    <3>2. CASE i # j
      <4>1. state[i] = "activated" /\ i \notin lost
        BY <3>2, <2>2, <2>3
      <4>2. PICK d \in Copy : copy[d].job = i /\ copy[d].inTime
        BY <4>1, <1>v DEF NothingSwallowed
      <4>3. CASE d = c
        BY <4>2, <4>3, <2>3, <1>j
      <4>4. CASE d # c
        BY <4>2, <4>4, <2>1
      <4> QED BY <4>3, <4>4
    <3> QED BY <3>1, <3>2
  <2> QED BY <2>5, <2>6, <2>7 DEF Swallow
<1>2. ASSUME NEW j \in Job, JobTimesOut(j) PROVE Swallow'
  <2>1. \A c \in Copy : /\ copy'[c].pc = copy[c].pc /\ copy'[c].job = copy[c].job
                        /\ copy'[c].inTime = (copy[c].inTime /\ copy[c].job # j)
    BY <1>2, <1>v, TimesOutAfter
  <2>2. /\ state'[j] = "activatable" /\ \A i \in Job \ {j} : state'[i] = state[i]
        /\ lost' = lost /\ requests' = requests
    BY <1>2, <1>s DEF JobTimesOut, historyVars
  <2>3. InTimeIsCurrent'
    BY <2>1, <2>2, <1>v, <1>j DEF InTimeIsCurrent
  <2>4. AnswerUnderWay'
    BY <2>1, <2>2, <1>v, <1>j DEF AnswerUnderWay
  <2>5. NothingSwallowed'
    BY <2>1, <2>2, <1>v DEF NothingSwallowed
  <2> QED BY <2>3, <2>4, <2>5 DEF Swallow
<1>3. ASSUME NEW j \in Job, NEW result \in {"complete", "fail"},
             [command |-> result, key |-> j] \in requests,
             requests' = requests \ {[command |-> result, key |-> j]},
             state'[j] # "activatable" \/ state'[j] = state[j],
             state'[j] # "activated", \A i \in Job \ {j} : state'[i] = state[i],
             copy' = copy, lost' = lost
      PROVE  Swallow'
  <2>1. \A i \in Job \ {j} : (\E r \in requests : r.key = i) => \E r \in requests' : r.key = i
    BY <1>3
  <2>2. InTimeIsCurrent'
    BY <1>3, <1>v, <1>j DEF InTimeIsCurrent
  <2>3. AnswerUnderWay'
    BY <1>3, <2>1, <1>v, <1>j DEF AnswerUnderWay
  <2>4. NothingSwallowed'
    BY <1>3, <2>1, <1>v DEF NothingSwallowed
  <2> QED BY <2>2, <2>3, <2>4 DEF Swallow
<1>4. ASSUME NEW j \in Job, ProcessComplete(j) PROVE Swallow'
  BY <1>3, <1>4, <1>s DEF ProcessComplete, historyVars
<1>5. ASSUME NEW j \in Job, ProcessFail(j) PROVE Swallow'
  BY <1>3, <1>5, <1>s DEF ProcessFail, historyVars
<1>6. ASSUME NEW r \in requests, LoseRequest(r) PROVE Swallow'
  <2>1. /\ requests' = requests \ {r} /\ lost' = lost \cup {r.key}
        /\ state' = state /\ copy' = copy
    BY <1>6 DEF LoseRequest
  <2>2. InTimeIsCurrent'
    BY <2>1, <1>v DEF InTimeIsCurrent
  <2>3. AnswerUnderWay'
    BY <2>1, <1>v DEF AnswerUnderWay
  <2>4. NothingSwallowed'
    BY <2>1, <1>v DEF NothingSwallowed
  <2> QED BY <2>2, <2>3, <2>4 DEF Swallow
<1>7. ASSUME NEW c \in Copy, Enqueue(c) PROVE Swallow'
  <2>1. state' = state /\ lost' = lost /\ requests' = requests
    BY <1>7 DEF Enqueue, brokerVars, historyVars
  <2> QED BY <1>7, <1>v, <2>1, MoveAfter, KeptCopy DEF Enqueue
<1>8. ASSUME NEW c \in Copy, LoseInTask(c) PROVE Swallow'
  <2>1. copy[c].inTime => copy[c].job \in lost'
    BY <1>8 DEF LoseInTask, LostWith
  <2>2. state' = state /\ requests' = requests /\ lost \subseteq lost'
    BY <1>8 DEF LoseInTask, brokerVars
  <2>3. /\ \A d \in Copy \ {c} : copy'[d] = copy[d]
        /\ copy'[c].pc = "free" /\ ~copy'[c].inTime
    BY <1>8, <1>v, FreeAfter DEF LoseInTask
  <2> QED BY <2>1, <2>2, <2>3, FreedCopy
<1>9. ASSUME NEW c \in Copy, Dispatch(c) PROVE Swallow'
  <2>1. PICK pc \in {"handling", "failing"} :
          copy' = [copy EXCEPT ![c] = CopyAt(pc, copy[c].job, copy[c].job, copy[c].inTime)]
    BY <1>9 DEF Dispatch
  <2>2. copy'[c] = CopyAt(pc, copy[c].job, copy[c].job, copy[c].inTime)
    BY <2>1, <1>v DEF TypeInv, TypeOK
  <2>3. \A d \in Copy \ {c} : copy'[d] = copy[d]
    BY <2>1, <1>v DEF TypeInv, TypeOK
  <2>4. copy'[c].pc = pc /\ copy'[c].job = copy[c].job /\ copy'[c].inTime = copy[c].inTime
    BY <2>2 DEF CopyAt
  <2>5. state' = state /\ lost' = lost /\ requests' = requests
    BY <1>9 DEF Dispatch, brokerVars
  <2> QED BY <2>3, <2>4, <2>5, KeptCopy
<1>10. ASSUME NEW c \in Copy, HandlerReturns(c) PROVE Swallow'
  <2>1. PICK pc \in {"completing", "failing"} : Move(c, pc)
    BY <1>10 DEF HandlerReturns
  <2>2. state' = state /\ lost' = lost /\ requests' = requests
    BY <1>10 DEF HandlerReturns, brokerVars
  <2> QED BY <2>1, <2>2, <1>v, MoveAfter, KeptCopy
<1>11. ASSUME NEW c \in Copy, SendResult(c) PROVE Swallow'
  <2>1. copy[c].key = copy[c].job
    BY <1>11, <1>v DEF SendResult, TypeInv, KeyOfOwnJob, Started
  <2>2. \E r \in requests' : r.key = copy[c].job
    <3>1. PICK result \in {"complete", "fail"} :
            requests' = requests \cup {[command |-> result, key |-> copy[c].key]}
      BY <1>11 DEF SendResult
    <3> DEFINE r == [command |-> result, key |-> copy[c].key]
    <3>2. r.key = copy[c].job
      BY <2>1
    <3>3. r \in requests'
      BY <3>1
    <3> QED BY <3>2, <3>3
  <2>3. state' = state /\ lost' = lost /\ requests \subseteq requests' /\ Move(c, "awaiting")
    BY <1>11 DEF SendResult, historyVars
  <2> QED BY <2>2, <2>3, <1>v, MoveAfter, KeptCopy
<1>12. ASSUME NEW c \in Copy, Answered(c) PROVE Swallow'
  <2>1. copy[c].inTime /\ state[copy[c].job] = "activated" =>
          copy[c].job \in lost \/ \E r \in requests : r.key = copy[c].job
    BY <1>12, <1>v DEF Answered, AnswerUnderWay
  <2>2. state' = state /\ requests' = requests /\ lost' = lost
    BY <1>12 DEF Answered, brokerVars, historyVars
  <2>3. /\ \A d \in Copy \ {c} : copy'[d] = copy[d]
        /\ copy'[c].pc = "free" /\ ~copy'[c].inTime
    BY <1>12, <1>v, FreeAfter DEF Answered
  <2> QED BY <2>1, <2>2, <2>3, FreedCopy
<1>13. ASSUME Drop PROVE Swallow'
  <2> DEFINE C == {c \in Copy : copy[c].pc \in InWorker}
  <2>1. state' = state /\ requests' = requests /\ lost' = lost \cup LostWith(C)
    BY <1>13 DEF Drop, brokerVars
  <2>2. \A d \in C : copy[d].inTime => copy[d].job \in lost'
    BY <2>1 DEF LostWith
  <2>3. \A d \in Copy \ C : copy'[d] = copy[d]
    BY <1>13 DEF Drop
  <2>4. \A d \in C : copy'[d].pc = "free" /\ ~copy'[d].inTime
    BY <1>13 DEF Drop, FreeCopy, CopyAt
  <2> HIDE DEF C
  <2>5. C \in SUBSET Copy
    BY DEF C
  <2> QED BY <2>1, <2>2, <2>3, <2>4, <2>5, FreedCopies
<1>14. ASSUME UNCHANGED vars PROVE Swallow'
  BY <1>14, <1>v DEF vars, Swallow, InTimeIsCurrent, AnswerUnderWay, NothingSwallowed
<1> QED
  BY <1>1, <1>2, <1>4, <1>5, <1>6, <1>7, <1>8, <1>9, <1>10, <1>11, <1>12, <1>13, <1>14
  DEF Next, Broker, WorkerStep

(***************************************************************************)
(* An activated job is in the worker, or its answer is on the way, unless  *)
(* a timeout, a drop or the network has lost it: the worker swallows no    *)
(* job, even one whose parameters cannot be built.                         *)
(***************************************************************************)
THEOREM NoJobSwallowed == Spec => []NothingSwallowed
<1>1. Init => SwallowInv
  <2> SUFFICES ASSUME Init PROVE InTimeIsCurrent /\ AnswerUnderWay /\ NothingSwallowed
    BY TypeInit DEF SwallowInv
  <2>1. \A c \in Copy : copy[c].pc = "free" /\ ~copy[c].inTime
    BY DEF Init, FreeCopy, CopyAt
  <2> QED BY <2>1 DEF Init, InTimeIsCurrent, AnswerUnderWay, NothingSwallowed
<1>2. SwallowInv => NothingSwallowed
  BY DEF SwallowInv
<1> QED BY <1>1, <1>2, SwallowStep, PTL DEF Spec
=============================================================================
