--------------------------- MODULE JobWorkerCount ---------------------------
(***************************************************************************)
(* Proofs about the poller's count: what each step does to Drift, for      *)
(* every MaxJobsActive, PollQueueCapacity, Concurrency and set of task     *)
(* identities.  The sums in Drift have at most one term, because a worker  *)
(* has at most one live request and at most one announcement of it; only   *)
(* the JobFinished messages really have to be counted.                     *)
(***************************************************************************)
EXTENDS JobWorkerProofs, FiniteSetTheorems

-----------------------------------------------------------------------------
(***************************************************************************)
(* Sums of no and of one term.                                             *)
(***************************************************************************)

(* A sum over nothing is 0.                                                *)
LEMMA SumOfNone == ASSUME NEW f PROVE SumFunctionOnSet(f, {}) = 0
BY DEF SumFunctionOnSet, FoldFunctionOnSet, MapThenFoldSet

(* A sum of one term is that term: the recursion that SumFunctionOnSet     *)
(* chooses exists, and ends after one step.                                *)
LEMMA SumOfOne ==
  ASSUME NEW f, NEW x, f[x] \in Int
  PROVE  SumFunctionOnSet(f, {x}) = f[x]
<1> DEFINE Iter(g) ==
      g = [s \in SUBSET {x} |->
             IF s = {} THEN 0
             ELSE f[CHOOSE y \in s : TRUE] + g[s \ {CHOOSE y \in s : TRUE}]]
<1>1. SumFunctionOnSet(f, {x}) = (CHOOSE g : Iter(g))[{x}]
  BY DEF SumFunctionOnSet, FoldFunctionOnSet, MapThenFoldSet
<1>2. /\ (CHOOSE y \in {x} : TRUE) = x
      /\ {x} \ {x} = {} /\ {x} # {}
      /\ {} \in SUBSET {x} /\ {x} \in SUBSET {x}
      /\ \A s \in SUBSET {x} : s # {} => s = {x}
  OBVIOUS
<1>3. \E g : Iter(g)
  <2> DEFINE h == [s \in SUBSET {x} |-> IF s = {} THEN 0 ELSE f[x]]
  <2>1. h[{}] = 0
    BY <1>2
  <2>2. ASSUME NEW s \in SUBSET {x}
        PROVE  h[s] = IF s = {} THEN 0
                      ELSE f[CHOOSE y \in s : TRUE] + h[s \ {CHOOSE y \in s : TRUE}]
    <3>1. CASE s = {}
      BY <3>1
    <3>2. CASE s = {x}
      BY <3>2, <1>2, <2>1
    <3>3. QED
      BY <1>2, <3>1, <3>2
  <2>3. Iter(h)
    BY <2>2
  <2>4. QED
    BY <2>3
<1>4. ASSUME NEW g, Iter(g) PROVE g[{x}] = f[x]
  <2>1. \A s \in SUBSET {x} :
          g[s] = IF s = {} THEN 0
                 ELSE f[CHOOSE y \in s : TRUE] + g[s \ {CHOOSE y \in s : TRUE}]
    BY <1>4
  <2>2. g[{}] = 0
    BY <2>1, <1>2
  <2>3. g[{x}] = f[CHOOSE y \in {x} : TRUE] + g[{x} \ {CHOOSE y \in {x} : TRUE}]
    BY <2>1, <1>2
  <2>4. g[{x}] = f[x] + 0
    BY <2>2, <2>3, <1>2
  <2>5. QED
    BY <2>4
<1> HIDE DEF Iter
<1>5. Iter(CHOOSE g : Iter(g))
  BY <1>3
<1>6. QED
  BY <1>1, <1>4, <1>5

(* The sums over the live tasks, when there is at most one: a task that    *)
(* has ended contributes nothing.                                          *)
LEMMA TaskSums ==
  ASSUME NEW k \in [Task -> TaskState], NEW t \in Task, RequestInRange(k[t]),
         \A u \in Task : k[u].pc # "idle" => u = t
  PROVE  LET L == {u \in Task : k[u].pc # "idle"}
         IN  /\ SumFunctionOnSet([u \in Task |-> k[u].total - k[u].batch], L)
                  = k[t].total - k[t].batch
             /\ SumFunctionOnSet([u \in Task |-> k[u].batch], L) = k[t].batch
             /\ k[t].total \in Nat /\ k[t].batch \in Nat
             /\ k[t].batch <= k[t].total
<1> DEFINE L == {u \in Task : k[u].pc # "idle"}
           sent == [u \in Task |-> k[u].total - k[u].batch]
           hand == [u \in Task |-> k[u].batch]
<1>1. /\ k[t].total \in Nat /\ k[t].batch \in Nat
      /\ k[t].batch <= k[t].total
  BY ChannelAssumption DEF TaskState, RequestInRange, Awaiting
<1>2. /\ sent[t] = k[t].total - k[t].batch /\ sent[t] \in Int
      /\ hand[t] = k[t].batch /\ hand[t] \in Int
  BY <1>1
<1>3. \/ L = {t}
      \/ L = {} /\ k[t].total = 0 /\ k[t].batch = 0
  BY DEF RequestInRange
<1>4. /\ SumFunctionOnSet(sent, L) = k[t].total - k[t].batch
      /\ SumFunctionOnSet(hand, L) = k[t].batch
  <2> HIDE DEF sent, hand, L
  <2>1. CASE L = {t}
    BY <1>2, <2>1, SumOfOne
  <2>2. CASE L = {} /\ k[t].total = 0 /\ k[t].batch = 0
    BY <2>2, SumOfNone
  <2>3. QED
    BY <1>3, <2>1, <2>2
<1>5. QED
  BY <1>1, <1>4

(* The count of the only announcement under way.                           *)
LEMMA ArrivedSum ==
  ASSUME NEW q \in Seq(PollMessage), NEW i \in DOMAIN q
  PROVE  /\ SumFunctionOnSet([j \in DOMAIN q |-> q[j].count], {i}) = q[i].count
         /\ q[i].count \in Nat
<1> DEFINE counts == [j \in DOMAIN q |-> q[j].count]
<1>1. q[i] \in PollMessage
  BY LenProperties
<1>2. q[i].count \in Nat /\ counts[i] = q[i].count /\ counts[i] \in Int
  BY <1>1 DEF PollMessage
<1> HIDE DEF counts
<1>3. SumFunctionOnSet(counts, {i}) = counts[i]
  BY <1>2, SumOfOne
<1>4. QED
  BY <1>2, <1>3 DEF counts

-----------------------------------------------------------------------------
(***************************************************************************)
(* The JobFinished messages under way.                                     *)
(***************************************************************************)

(* The places of the messages of a kind are finitely many.                 *)
LEMMA QueuedFinite ==
  ASSUME NEW q \in Seq(PollMessage), NEW kind
  PROVE  LET S == {i \in DOMAIN q : q[i].kind = kind}
         IN  IsFiniteSet(S) /\ Cardinality(S) \in Nat
<1> DEFINE S == {i \in DOMAIN q : q[i].kind = kind}
<1>1. DOMAIN q = 1..Len(q) /\ Len(q) \in Nat
  BY LenProperties
<1>2. IsFiniteSet(1..Len(q)) /\ S \in SUBSET (1..Len(q))
  BY <1>1, FS_Interval
<1> HIDE DEF S
<1>3. IsFiniteSet(S)
  BY <1>2, FS_Subset
<1>4. Cardinality(S) \in Nat
  BY <1>3, FS_CardinalityType
<1>5. QED
  BY <1>3, <1>4 DEF S

(* A sent message adds one to the count of its kind.                       *)
LEMMA FinishedAfterSend ==
  ASSUME poll_queue \in Seq(PollMessage), NEW m \in PollMessage,
         poll_queue' = Append(poll_queue, m)
  PROVE  /\ Finished \in Nat /\ Finished' \in Nat
         /\ m.kind = "JobFinished" => Finished' = Finished + 1
         /\ m.kind # "JobFinished" => Finished' = Finished
<1> DEFINE S == Queued("JobFinished")
           T == Queued("JobFinished")'
           n == Len(poll_queue) + 1
<1>1. /\ poll_queue' \in Seq(PollMessage)
      /\ \A i \in DOMAIN poll_queue : i \in Nat /\ i < n
      /\ \A kind : Queued(kind)' = IF m.kind = kind THEN Queued(kind) \cup {n}
                                                     ELSE Queued(kind)
  BY AppendQueued
<1>2. /\ m.kind = "JobFinished" => T = S \cup {n}
      /\ m.kind # "JobFinished" => T = S
  BY <1>1
<1>3. n \notin S
  BY <1>1 DEF Queued
<1>4. IsFiniteSet(S) /\ Cardinality(S) \in Nat
  BY QueuedFinite DEF Queued
<1>5. Finished = Cardinality(S) /\ Finished' = Cardinality(T)
  BY DEF Finished
<1> HIDE DEF S, T, n
<1>6. Cardinality(S \cup {n}) = Cardinality(S) + 1
  BY <1>3, <1>4, FS_AddElement
<1>7. CASE m.kind = "JobFinished"
  <2>1. Cardinality(T) = Cardinality(S) + 1
    BY <1>2, <1>6, <1>7
  <2>2. QED
    BY <1>4, <1>5, <1>7, <2>1
<1>8. CASE m.kind # "JobFinished"
  <2>1. Cardinality(T) = Cardinality(S)
    BY <1>2, <1>8
  <2>2. QED
    BY <1>4, <1>5, <1>8, <2>1
<1>9. QED
  BY <1>7, <1>8

(* A received message takes one from the count of its kind: the others     *)
(* move up by one place.                                                   *)
LEMMA FinishedAfterReceive ==
  ASSUME poll_queue \in Seq(PollMessage), poll_queue # << >>,
         poll_queue' = Tail(poll_queue)
  PROVE  /\ Finished \in Nat /\ Finished' \in Nat
         /\ Head(poll_queue).kind = "JobFinished" => Finished' = Finished - 1
         /\ Head(poll_queue).kind # "JobFinished" => Finished' = Finished
<1> DEFINE S == Queued("JobFinished")
           T == Queued("JobFinished")'
           up == [i \in S \ {1} |-> i - 1]
<1>1. /\ poll_queue' \in Seq(PollMessage)
      /\ 1 \in DOMAIN poll_queue
      /\ Head(poll_queue) = poll_queue[1]
      /\ \A i \in DOMAIN poll_queue' : i \in Nat /\ i # 0
      /\ \A i \in DOMAIN poll_queue : i \in Nat
      /\ \A i \in T : i + 1 \in S
      /\ \A i \in S : i # 1 => i - 1 \in T
  <2>1. poll_queue' \in Seq(PollMessage)
    BY TailQueued
  <2>2. \A i \in DOMAIN poll_queue' : i # 0
    BY <2>1, LenProperties
  <2>3. QED
    BY <2>2, TailQueued
<1>2. /\ \A i \in T : i \in Nat /\ i # 0
      /\ \A i \in S : i \in Nat
  BY <1>1 DEF Queued
<1>3. 1 \in S <=> Head(poll_queue).kind = "JobFinished"
  BY <1>1 DEF Queued
<1>4. IsFiniteSet(S) /\ Cardinality(S) \in Nat
  BY QueuedFinite DEF Queued
<1>5. Finished = Cardinality(S) /\ Finished' = Cardinality(T)
  BY DEF Finished
<1> HIDE DEF S, T
<1>6. up \in Bijection(S \ {1}, T)
  <2>1. up \in [S \ {1} -> T]
    BY <1>1
  <2>2. \A i, j \in S \ {1} : up[i] = up[j] => i = j
    BY <1>2
  <2>3. \A j \in T : j + 1 \in S \ {1} /\ up[j + 1] = j
    BY <1>1, <1>2
  <2>4. up \in Injection(S \ {1}, T)
    BY <2>1, <2>2 DEF Injection, IsInjective
  <2>5. up \in Surjection(S \ {1}, T)
    BY <2>1, <2>3 DEF Surjection
  <2>6. QED
    BY <2>4, <2>5 DEF Bijection
<1> HIDE DEF up
<1>7. /\ IsFiniteSet(S \ {1})
      /\ Cardinality(S \ {1}) = IF 1 \in S THEN Cardinality(S) - 1 ELSE Cardinality(S)
      /\ Cardinality(S \ {1}) \in Nat
  BY <1>4, FS_RemoveElement, FS_CardinalityType
<1>8. Cardinality(T) = Cardinality(S \ {1})
  BY <1>6, <1>7, FS_Bijection DEF ExistsBijection
<1>9. QED
  BY <1>3, <1>4, <1>5, <1>7, <1>8

-----------------------------------------------------------------------------
(***************************************************************************)
(* The jobs announced and the jobs not yet announced.                      *)
(***************************************************************************)

(* Nothing is announced, or what the only JobsArrived says.                *)
LEMMA AnnouncedNow ==
  ASSUME IndInv
  PROVE  /\ Announced \in Nat
         /\ Queued("JobsArrived") = {} => Announced = 0
         /\ \A i \in Queued("JobsArrived") : Announced = poll_queue[i].count
<1>1. poll_queue \in Seq(PollMessage)
  BY DEF IndInv, TypeOK, ChannelsTypeOK
<1>2. Queued("JobsArrived") = {} => Announced = 0
  BY SumOfNone DEF Announced
<1>3. ASSUME NEW i \in Queued("JobsArrived")
      PROVE  Announced = poll_queue[i].count /\ Announced \in Nat
  <2>1. Queued("JobsArrived") = {i}
    BY DEF IndInv, RequestInv, ArrivalPrecedesCompletion
  <2>2. i \in DOMAIN poll_queue
    BY DEF Queued
  <2>3. QED
    BY <1>1, <2>1, <2>2, ArrivedSum DEF Announced
<1>4. QED
  BY <1>2, <1>3

(* A sent message that is no JobsArrived announces nothing.                *)
LEMMA AnnouncedAfterSend ==
  ASSUME IndInv, NEW m \in PollMessage, poll_queue' = Append(poll_queue, m)
  PROVE  /\ m.kind # "JobsArrived" => Announced' = Announced
         /\ m.kind = "JobsArrived" /\ Queued("JobsArrived") = {} =>
              Announced' = m.count
<1> DEFINE n == Len(poll_queue) + 1
<1>1. poll_queue \in Seq(PollMessage)
  BY DEF IndInv, TypeOK, ChannelsTypeOK
<1>2. /\ poll_queue' \in Seq(PollMessage)
      /\ DOMAIN poll_queue' = DOMAIN poll_queue \cup {n}
      /\ \A i \in DOMAIN poll_queue : poll_queue'[i] = poll_queue[i]
      /\ poll_queue'[n] = m
      /\ \A kind : Queued(kind)' = IF m.kind = kind THEN Queued(kind) \cup {n}
                                                     ELSE Queued(kind)
  BY <1>1, AppendQueued
<1> HIDE DEF n
<1>3. ASSUME NEW i, Queued("JobsArrived")' = {i}, i \in DOMAIN poll_queue'
      PROVE  Announced' = poll_queue'[i].count
  <2>1. Announced' = SumFunctionOnSet([j \in DOMAIN poll_queue' |-> poll_queue'[j].count],
                                      Queued("JobsArrived")')
    BY DEF Announced
  <2>2. QED
    BY <1>2, <1>3, <2>1, ArrivedSum
<1>4. CASE m.kind # "JobsArrived"
  <2>1. Queued("JobsArrived")' = Queued("JobsArrived")
    BY <1>2, <1>4
  <2>2. CASE Queued("JobsArrived") = {}
    BY <1>4, <2>1, <2>2, AnnouncedNow, SumOfNone DEF Announced
  <2>3. CASE \E i : i \in Queued("JobsArrived")
    <3>1. PICK i : i \in Queued("JobsArrived")
      BY <2>3
    <3>2. Queued("JobsArrived") = {i} /\ i \in DOMAIN poll_queue
      BY <3>1 DEF IndInv, RequestInv, ArrivalPrecedesCompletion, Queued
    <3>3. Announced = poll_queue[i].count
      BY <3>1, AnnouncedNow
    <3>4. Announced' = poll_queue'[i].count
      BY <1>2, <1>3, <2>1, <3>2
    <3>5. QED
      BY <1>2, <1>4, <3>2, <3>3, <3>4
  <2>4. QED
    BY <2>2, <2>3
<1>5. CASE m.kind = "JobsArrived" /\ Queued("JobsArrived") = {}
  <2>1. Queued("JobsArrived")' = {n}
    BY <1>2, <1>5
  <2>2. QED
    BY <1>2, <1>3, <1>5, <2>1
<1>6. QED
  BY <1>4, <1>5

(* A received message that is no JobsArrived leaves the announced jobs as  *)
(* they are; a JobsArrived takes all of them away.                         *)
LEMMA AnnouncedAfterReceive ==
  ASSUME IndInv, poll_queue # << >>, poll_queue' = Tail(poll_queue)
  PROVE  /\ Head(poll_queue).kind # "JobsArrived" => Announced' = Announced
         /\ Head(poll_queue).kind = "JobsArrived" =>
              Announced = Head(poll_queue).count /\ Announced' = 0
<1>1. poll_queue \in Seq(PollMessage)
  BY DEF IndInv, TypeOK, ChannelsTypeOK
<1>2. /\ poll_queue' \in Seq(PollMessage)
      /\ 1 \in DOMAIN poll_queue
      /\ Head(poll_queue) = poll_queue[1]
  BY <1>1, TailQueued
<1>3. Announced' = SumFunctionOnSet([j \in DOMAIN poll_queue' |-> poll_queue'[j].count],
                                    Queued("JobsArrived")')
  BY DEF Announced
<1>4. CASE Head(poll_queue).kind = "JobsArrived"
  <2>1. 1 \in Queued("JobsArrived")
    BY <1>2, <1>4 DEF Queued
  <2>2. Queued("JobsArrived") = {1}
    BY <2>1 DEF IndInv, RequestInv, ArrivalPrecedesCompletion
  <2>3. Queued("JobsArrived")' = {}
    BY <1>1, <2>2, TailQueuedSingle
  <2>4. Announced' = 0
    BY <1>3, <2>3, SumOfNone
  <2>5. Announced = Head(poll_queue).count
    BY <1>2, <2>1, AnnouncedNow
  <2>6. QED
    BY <1>4, <2>4, <2>5
<1>5. CASE Head(poll_queue).kind # "JobsArrived"
  <2>1. 1 \notin Queued("JobsArrived")
    BY <1>2, <1>5 DEF Queued
  <2>2. CASE Queued("JobsArrived") = {}
    <3>1. Queued("JobsArrived")' = {}
      BY <1>1, <2>2, TailQueuedSingle
    <3>2. QED
      BY <1>3, <1>5, <2>2, <3>1, AnnouncedNow, SumOfNone
  <2>3. CASE \E i : i \in Queued("JobsArrived")
    <3>1. PICK i : i \in Queued("JobsArrived")
      BY <2>3
    <3>2. Queued("JobsArrived") = {i} /\ i # 1 /\ i \in DOMAIN poll_queue
      BY <2>1, <3>1 DEF IndInv, RequestInv, ArrivalPrecedesCompletion, Queued
    <3>3. i \in Nat
      BY <1>1, <3>2, TailQueued
    <3>4. /\ Queued("JobsArrived")' = {i - 1}
          /\ \A j \in Queued("JobsArrived")' : poll_queue'[j] = poll_queue[j + 1]
      BY <1>1, <3>1, <3>2, TailQueuedSingle
    <3>5. i - 1 \in DOMAIN poll_queue'
      BY <3>4 DEF Queued
    <3>6. Announced' = poll_queue'[i - 1].count
      BY <1>2, <1>3, <3>4, <3>5, ArrivedSum
    <3>7. poll_queue'[i - 1] = poll_queue[i]
      <4>1. poll_queue'[i - 1] = poll_queue[(i - 1) + 1]
        BY <3>4
      <4>2. (i - 1) + 1 = i
        BY <3>3
      <4>3. QED
        BY <4>1, <4>2
    <3>8. Announced = poll_queue[i].count
      BY <3>1, AnnouncedNow
    <3>9. QED
      BY <1>5, <3>6, <3>7, <3>8
  <2>4. QED
    BY <2>2, <2>3
<1>6. QED
  BY <1>4, <1>5

(* What a live task has sent and not yet announced, before and after it    *)
(* moves: a task that has ended has nothing.                               *)
LEMMA UnannouncedNow ==
  ASSUME IndInv, NEW t \in Task, LiveTasks \subseteq {t}
  PROVE  /\ Unannounced = task[t].total - task[t].batch
         /\ SumFunctionOnSet([u \in Task |-> task[u].batch], LiveTasks) = task[t].batch
         /\ task[t].total \in Nat /\ task[t].batch \in Nat
         /\ task[t].batch <= task[t].total
<1>1. /\ task \in [Task -> TaskState]
      /\ RequestInRange(task[t])
      /\ \A u \in Task : task[u].pc # "idle" => u = t
  BY DEF IndInv, TypeOK, PollerTypeOK, LiveTasks
<1>2. QED
  BY <1>1, TaskSums DEF Unannounced, LiveTasks

LEMMA UnannouncedNext ==
  ASSUME IndInv', NEW t \in Task, LiveTasks' \subseteq {t}
  PROVE  /\ Unannounced' = task'[t].total - task'[t].batch
         /\ task'[t].total \in Nat /\ task'[t].batch \in Nat
<1>1. /\ task' \in [Task -> TaskState]
      /\ RequestInRange(task'[t])
      /\ \A u \in Task : task'[u].pc # "idle" => u = t
  BY DEF IndInv, TypeOK, PollerTypeOK, LiveTasks
<1>2. Unannounced' =
        SumFunctionOnSet([u \in Task |-> task'[u].total - task'[u].batch],
                         {u \in Task : task'[u].pc # "idle"})
  BY DEF Unannounced, LiveTasks
<1>3. QED
  BY <1>1, <1>2, TaskSums

-----------------------------------------------------------------------------
(***************************************************************************)
(* What each step does to Drift.                                           *)
(***************************************************************************)

(* Every term of Drift is a number.                                        *)
LEMMA TermsAreNumbers ==
  ASSUME IndInv
  PROVE  /\ remaining \in Nat /\ job_queue \in Nat
         /\ handling \in Nat /\ reporting \in Nat
         /\ Announced \in Nat /\ Unannounced \in Nat /\ Finished \in Nat
<1>1. /\ remaining \in Nat /\ job_queue \in Nat
      /\ handling \in Nat /\ reporting \in Nat
      /\ poll_queue \in Seq(PollMessage)
  BY ChannelAssumption
  DEF IndInv, TypeOK, ChannelsTypeOK, PollerTypeOK, DispatcherTypeOK
<1>2. Announced \in Nat
  BY AnnouncedNow
<1>3. Finished \in Nat
  BY <1>1, QueuedFinite DEF Finished, Queued
<1>4. Unannounced \in Nat
  <2>1. CASE LiveTasks = {}
    BY <2>1, SumOfNone DEF Unannounced
  <2>2. CASE LiveTasks # {}
    <3>1. PICK t \in LiveTasks : TRUE
      BY <2>2
    <3>2. t \in Task /\ LiveTasks \subseteq {t}
      BY DEF IndInv, RequestInv, OneRequestAtATime, LiveTasks
    <3>3. /\ Unannounced = task[t].total - task[t].batch
          /\ task[t].total \in Nat /\ task[t].batch \in Nat
          /\ task[t].batch <= task[t].total
      BY <3>2, UnannouncedNow
    <3>4. QED
      BY <3>3
  <2>3. QED
    BY <2>1, <2>2
<1>5. QED
  BY <1>1, <1>2, <1>3, <1>4

(* A message that the poller takes.  JobsArrived moves its count from the  *)
(* queue to remaining; JobFinished takes one from both sides of Drift,     *)
(* unless saturating_sub swallows it.                                      *)
LEMMA ReceiveDrift ==
  ASSUME IndInv, ReceiveMessage, UNCHANGED dispatcherVars
  PROVE  \/ Drift' = Drift
         \/ FinishedBeforeAnnounced /\ Drift' = Drift + 1
<1>1. /\ poll_queue # << >>
      /\ poll_queue' = Tail(poll_queue)
      /\ UNCHANGED <<job_queue, task, handling, reporting>>
  BY DEF ReceiveMessage, ReceiveJobsArrived, ReceiveJobFinished,
         ReceiveFetchJobsComplete, Receive, dispatcherVars
<1>2. poll_queue \in Seq(PollMessage)
  BY DEF IndInv, TypeOK, ChannelsTypeOK
<1>3. /\ remaining \in Nat /\ job_queue \in Nat
      /\ handling \in Nat /\ reporting \in Nat
      /\ Announced \in Nat /\ Unannounced \in Nat /\ Finished \in Nat
  BY TermsAreNumbers
<1>4. Unannounced' = Unannounced
  BY <1>1 DEF Unannounced, LiveTasks
<1>5. /\ Finished' \in Nat
      /\ Head(poll_queue).kind = "JobFinished" => Finished' = Finished - 1
      /\ Head(poll_queue).kind # "JobFinished" => Finished' = Finished
  BY <1>1, <1>2, FinishedAfterReceive
<1>6. /\ Head(poll_queue).kind # "JobsArrived" => Announced' = Announced
      /\ Head(poll_queue).kind = "JobsArrived" =>
           Announced = Head(poll_queue).count /\ Announced' = 0
  BY <1>1, AnnouncedAfterReceive
<1>7. CASE ReceiveJobsArrived
  <2>1. Head(poll_queue).kind = "JobsArrived" /\ remaining' = remaining + Announced
    BY <1>6, <1>7 DEF ReceiveJobsArrived, Receive
  <2>2. Announced' = 0 /\ Finished' = Finished
    BY <1>5, <1>6, <2>1
  <2>3. Drift' = Drift
    BY <1>1, <1>3, <1>4, <2>1, <2>2 DEF Drift
  <2>4. QED
    BY <2>3
<1>8. CASE ReceiveJobFinished
  <2>1. /\ Head(poll_queue).kind = "JobFinished"
        /\ remaining' = IF remaining = 0 THEN 0 ELSE remaining - 1
    BY <1>8 DEF ReceiveJobFinished, Receive
  <2>2. Announced' = Announced /\ Finished' = Finished - 1
    BY <1>5, <1>6, <2>1
  <2>3. CASE remaining = 0
    <3>1. Drift' = Drift + 1
      BY <1>1, <1>3, <1>4, <2>1, <2>2, <2>3 DEF Drift
    <3>2. QED
      BY <1>8, <2>3, <3>1 DEF FinishedBeforeAnnounced
  <2>4. CASE remaining # 0
    <3>1. Drift' = Drift
      BY <1>1, <1>3, <1>4, <2>1, <2>2, <2>4 DEF Drift
    <3>2. QED
      BY <3>1
  <2>5. QED
    BY <2>3, <2>4
<1>9. CASE ReceiveFetchJobsComplete
  <2>1. /\ Head(poll_queue).kind = "FetchJobsComplete"
        /\ remaining' = remaining
    BY <1>9 DEF ReceiveFetchJobsComplete, Receive
  <2>2. Announced' = Announced /\ Finished' = Finished
    BY <1>5, <1>6, <2>1
  <2>3. Drift' = Drift
    BY <1>1, <1>3, <1>4, <2>1, <2>2 DEF Drift
  <2>4. QED
    BY <2>3
<1>10. QED
  BY <1>7, <1>8, <1>9 DEF ReceiveMessage

(* A tick of the poll interval: a new task has sent nothing yet.           *)
LEMMA TickDrift ==
  ASSUME IndInv, IndInv', FetchJobs \/ IgnoreFetchJobs, UNCHANGED dispatcherVars
  PROVE  Drift' = Drift
<1>1. UNCHANGED <<job_queue, poll_queue, remaining, handling, reporting>>
  BY DEF FetchJobs, IgnoreFetchJobs, pollerVars, dispatcherVars
<1>2. Announced' = Announced /\ Finished' = Finished
  BY <1>1 DEF Announced, Finished, Queued
<1>3. Unannounced' = Unannounced
  <2>1. CASE FetchJobs
    <3>1. PICK t \in Task :
            task' = [task EXCEPT ![t] = At("calling", MaxJobsActive - remaining, 0, 0)]
      BY <2>1 DEF FetchJobs, activate_jobs
    <3>2. LiveTasks = {} /\ Unannounced = 0
      BY <2>1, SumOfNone
      DEF FetchJobs, should_activate_jobs, IndInv, RequestInv, FlagTracksRequest,
          Unannounced
    <3>3. /\ task'[t].total = 0 /\ task'[t].batch = 0 /\ task'[t].pc = "calling"
      BY <3>1 DEF At, IndInv, TypeOK, PollerTypeOK
    <3>4. LiveTasks' \subseteq {t}
      BY <3>3 DEF IndInv, RequestInv, OneRequestAtATime, LiveTasks
    <3>5. Unannounced' = 0
      BY <3>3, <3>4, UnannouncedNext
    <3>6. QED
      BY <3>2, <3>5
  <2>2. CASE IgnoreFetchJobs
    BY <2>2 DEF IgnoreFetchJobs, pollerVars, Unannounced, LiveTasks
  <2>3. QED
    BY <2>1, <2>2
<1>4. QED
  BY <1>1, <1>2, <1>3 DEF Drift

(* The dispatcher moves a job along: Drift counts it wherever it is.       *)
LEMMA DispatcherDrift ==
  ASSUME IndInv, DispatcherStep, UNCHANGED pollerVars
  PROVE  Drift' = Drift
<1>1. /\ remaining \in Nat /\ job_queue \in Nat
      /\ handling \in Nat /\ reporting \in Nat
      /\ Announced \in Nat /\ Unannounced \in Nat /\ Finished \in Nat
  BY TermsAreNumbers
<1>2. remaining' = remaining /\ Unannounced' = Unannounced
  BY DEF pollerVars, Unannounced, LiveTasks
<1>3. CASE Dispatch \/ HandlerReturns
  <2>1. Announced' = Announced /\ Finished' = Finished
    BY <1>3 DEF Dispatch, HandlerReturns, Announced, Finished, Queued
  <2>2. job_queue' + handling' + reporting' = job_queue + handling + reporting
    BY <1>1, <1>3 DEF Dispatch, HandlerReturns
  <2>3. /\ job_queue' \in Int /\ handling' \in Int /\ reporting' \in Int
    BY <1>1, <1>3 DEF Dispatch, HandlerReturns
  <2>4. QED
    BY <1>1, <1>2, <2>1, <2>2, <2>3 DEF Drift
<1>4. CASE ReportJobFinished
  <2>1. /\ poll_queue' = Append(poll_queue, JobFinished)
        /\ reporting' = reporting - 1
        /\ UNCHANGED <<job_queue, handling>>
    BY <1>4 DEF ReportJobFinished, SendMessage
  <2>2. JobFinished \in PollMessage /\ JobFinished.kind = "JobFinished"
    BY DEF JobFinished, PollMessage
  <2>3. Announced' = Announced
    BY <2>1, <2>2, AnnouncedAfterSend
  <2>4. Finished' = Finished + 1
    BY <2>1, <2>2, FinishedAfterSend DEF IndInv, TypeOK, ChannelsTypeOK
  <2>5. QED
    BY <1>1, <1>2, <2>1, <2>3, <2>4 DEF Drift
<1>5. QED
  BY <1>3, <1>4 DEF DispatcherStep

(* A step of an activation task, while the worker runs: a job that is sent *)
(* is counted as unannounced, an announcement takes all of them over, and  *)
(* only a timeout forgets them.                                            *)
LEMMA TaskDrift ==
  ASSUME IndInv, IndInv', ~dropped, NEW t \in Task, TaskStep(t),
         UNCHANGED dispatcherVars
  PROVE  \/ Drift' = Drift
         \/ TimesOutAfterSending(t) /\ Drift' = Drift - (task[t].total - task[t].batch)
<1> DEFINE s == task[t]
           r == task'[t]
<1>1. /\ s.pc # "idle"
      /\ UNCHANGED <<dropped, remaining, handling, reporting>>
  BY DEF TaskStep, CallSucceeds, CallFails, BatchArrives, SendJob, StreamEnds,
         Announce, TimeOut, Complete, Awaiting, taskUnchanged, dispatcherVars
<1>2. /\ task \in [Task -> TaskState]
      /\ RequestInRange(s)
      /\ LiveTasks = {t}
      /\ poll_queue \in Seq(PollMessage)
  <2>1. t \in LiveTasks
    BY <1>1 DEF LiveTasks
  <2>2. LiveTasks = {t}
    BY <2>1, LiveMeansInProgress
  <2>3. QED
    BY <2>2 DEF IndInv, TypeOK, PollerTypeOK, ChannelsTypeOK
<1>3. /\ remaining \in Nat /\ job_queue \in Nat
      /\ handling \in Nat /\ reporting \in Nat
      /\ Announced \in Nat /\ Unannounced \in Nat /\ Finished \in Nat
  BY TermsAreNumbers
<1>4. /\ Unannounced = s.total - s.batch
      /\ s.total \in Nat /\ s.batch \in Nat /\ s.batch <= s.total
  BY <1>2, UnannouncedNow
<1>5. /\ Unannounced' = r.total - r.batch
      /\ r.total \in Nat /\ r.batch \in Nat
  <2>1. \E x : task' = [task EXCEPT ![t] = x]
    BY DEF TaskStep, CallSucceeds, CallFails, BatchArrives, SendJob, StreamEnds,
           Announce, TimeOut, Complete
  <2>2. \A u \in Task : u # t => task'[u] = task[u]
    BY <1>2, <2>1
  <2>3. LiveTasks' \subseteq {t}
    BY <1>2, <2>2 DEF LiveTasks
  <2>4. QED
    BY <2>3, UnannouncedNext
<1>6. poll_queue' = poll_queue => Announced' = Announced /\ Finished' = Finished
  BY DEF Announced, Finished, Queued
<1>7. ASSUME UNCHANGED <<job_queue, poll_queue>>, r.total - r.batch = s.total - s.batch
      PROVE  Drift' = Drift
  BY <1>1, <1>3, <1>4, <1>5, <1>6, <1>7 DEF Drift
<1>8. CASE CallSucceeds(t)
  <2>1. s.total = 0 /\ s.batch = 0
    BY <1>2, <1>8 DEF CallSucceeds, RequestInRange
  <2>2. r.total = 0 /\ r.batch = 0
    BY <1>2, <1>8 DEF CallSucceeds, At
  <2>3. QED
    BY <1>7, <1>8, <2>1, <2>2 DEF CallSucceeds
<1>9. CASE CallFails(t)
  <2>1. s.total = 0 /\ s.batch = 0
    BY <1>2, <1>9 DEF CallFails, RequestInRange
  <2>2. r.total = 0 /\ r.batch = 0
    BY <1>2, <1>9 DEF CallFails, Completing, At
  <2>3. QED
    BY <1>7, <1>9, <2>1, <2>2 DEF CallFails
<1>10. CASE BatchArrives(t)
  <2>1. s.pc = "streaming"
    BY <1>10 DEF BatchArrives
  <2>2. s.batch = 0
    BY <1>2, <1>4, <2>1 DEF RequestInRange, Awaiting
  <2>3. PICK n \in 1..(s.requested - s.total) :
          task' = [task EXCEPT ![t] = At("sending", s.requested, s.total + n, n)]
    BY <1>2, <1>10 DEF BatchArrives
  <2>4. r.total = s.total + n /\ r.batch = n
    BY <1>2, <2>3 DEF At
  <2>5. r.total - r.batch = s.total - s.batch
    BY <1>4, <1>5, <2>2, <2>4
  <2>6. QED
    BY <1>7, <1>10, <2>5 DEF BatchArrives
<1>11. CASE SendJob(t)
  <2>1. /\ task' = [task EXCEPT ![t] =
             IF s.batch = 1 THEN At("streaming", s.requested, s.total, 0)
                            ELSE At("sending", s.requested, s.total, s.batch - 1)]
        /\ job_queue' = job_queue + 1 /\ poll_queue' = poll_queue
    BY <1>2, <1>11 DEF SendJob, SendToDispatcher
  <2>2. r.total = s.total /\ r.batch = s.batch - 1
    <3>1. CASE s.batch = 1
      BY <1>2, <2>1, <3>1 DEF At
    <3>2. CASE s.batch # 1
      BY <1>2, <2>1, <3>2 DEF At
    <3>3. QED
      BY <3>1, <3>2
  <2>3. Drift' = Drift
    BY <1>1, <1>3, <1>4, <1>5, <1>6, <2>1, <2>2 DEF Drift
  <2>4. QED
    BY <2>3
<1>12. CASE StreamEnds(t)
  <2>1. s.pc = "streaming"
    BY <1>12 DEF StreamEnds
  <2>2. s.batch = 0
    BY <1>2, <1>4, <2>1 DEF RequestInRange, Awaiting
  <2>3. r.total = s.total /\ r.batch = 0
    BY <1>2, <1>12 DEF StreamEnds, At
  <2>4. QED
    BY <1>7, <1>12, <2>2, <2>3 DEF StreamEnds
<1>13. CASE Announce(t)
  <2> DEFINE m == JobsArrived(s.total)
  <2>1. /\ s.pc = "announcing"
        /\ poll_queue' = Append(poll_queue, m)
        /\ job_queue' = job_queue
    BY <1>13 DEF Announce, SendMessage
  <2>2. m \in PollMessage /\ m.kind = "JobsArrived" /\ m.count = s.total
    BY <1>4 DEF JobsArrived, PollMessage
  <2>3. s.batch = 0
    BY <1>2, <1>4, <2>1 DEF RequestInRange, Awaiting
  <2>4. r.total = 0 /\ r.batch = 0
    BY <1>2, <1>13 DEF Announce, Completing, At
  <2> HIDE DEF m
  <2>5. Queued("JobsArrived") = {}
    <3>1. t \in LiveTasks /\ \A u \in Task : task[u].pc # "completing"
      BY <1>2, <2>1 DEF LiveTasks
    <3>2. Queued("FetchJobsComplete") = {}
      BY <3>1, LiveMeansInProgress
    <3>3. QED
      BY <3>1, <3>2 DEF IndInv, RequestInv, ArrivalPrecedesCompletion
  <2>6. Announced = 0 /\ Announced' = s.total
    BY <2>1, <2>2, <2>5, AnnouncedNow, AnnouncedAfterSend
  <2>7. Finished' = Finished
    BY <1>2, <2>1, <2>2, FinishedAfterSend
  <2>8. Unannounced = s.total /\ Unannounced' = 0
    BY <1>4, <1>5, <2>3, <2>4
  <2>9. Drift' = Drift
    BY <1>1, <1>3, <1>4, <2>1, <2>6, <2>7, <2>8 DEF Drift
  <2>10. QED
    BY <2>9
<1>14. CASE TimeOut(t)
  <2>1. r.total = 0 /\ r.batch = 0
    BY <1>2, <1>14 DEF TimeOut, Completing, At
  <2>2. UNCHANGED <<job_queue, poll_queue>>
    BY <1>14 DEF TimeOut
  <2>3. CASE s.total > s.batch
    <3>1. Drift' = Drift - (s.total - s.batch)
      BY <1>1, <1>3, <1>4, <1>5, <1>6, <2>1, <2>2 DEF Drift
    <3>2. QED
      BY <1>14, <2>3, <3>1 DEF TimesOutAfterSending
  <2>4. CASE s.total = s.batch
    BY <1>4, <1>5, <1>7, <2>1, <2>2, <2>4
  <2>5. QED
    BY <1>4, <2>3, <2>4
<1>15. CASE Complete(t)
  <2>1. /\ poll_queue' = Append(poll_queue, FetchJobsComplete)
        /\ job_queue' = job_queue
    BY <1>15 DEF Complete, SendMessage
  <2>2. FetchJobsComplete \in PollMessage /\ FetchJobsComplete.kind = "FetchJobsComplete"
    BY DEF FetchJobsComplete, PollMessage
  <2>3. s.total = 0 /\ s.batch = 0
    BY <1>2, <1>15 DEF Complete, RequestInRange
  <2>4. r.total = 0 /\ r.batch = 0
    BY <1>2, <1>15 DEF Complete, Idle, At
  <2>5. Announced' = Announced
    BY <2>1, <2>2, AnnouncedAfterSend
  <2>6. Finished' = Finished
    BY <1>2, <2>1, <2>2, FinishedAfterSend
  <2>7. Drift' = Drift
    BY <1>1, <1>3, <1>4, <1>5, <2>1, <2>3, <2>4, <2>5, <2>6 DEF Drift
  <2>8. QED
    BY <2>7
<1>16. QED
  BY <1>8, <1>9, <1>10, <1>11, <1>12, <1>13, <1>14, <1>15 DEF TaskStep

-----------------------------------------------------------------------------
(* The count is conserved by every step, with the two exceptions that      *)
(* CountConserved names: the poller of a running worker loses count only   *)
(* when it swallows a JobFinished that overtook its JobsArrived, and when  *)
(* a request that has sent jobs times out before it has announced them.    *)
THEOREM CountIsConserved == Spec => CountConserved
<1>1. ASSUME IndInv, IndInv', [Next]_vars
      PROVE  [ \/ Drift' = Drift
               \/ FinishedBeforeAnnounced /\ Drift' = Drift + 1
               \/ \E t \in Task : TimesOutAfterSending(t)
                    /\ Drift' = Drift - (task[t].total - task[t].batch)
               \/ dropped' ]_vars
  <2>1. CASE Poll /\ UNCHANGED dispatcherVars
    BY <1>1, <2>1, TickDrift, ReceiveDrift DEF Poll
  <2>2. ASSUME NEW t \in Task, TaskStep(t), UNCHANGED dispatcherVars
        PROVE  \/ Drift' = Drift
               \/ TimesOutAfterSending(t)
                    /\ Drift' = Drift - (task[t].total - task[t].batch)
               \/ dropped'
    <3>1. dropped' = dropped
      BY <2>2 DEF TaskStep, CallSucceeds, CallFails, BatchArrives, SendJob, StreamEnds,
                  Announce, TimeOut, Complete, taskUnchanged
    <3>2. CASE dropped
      BY <3>1, <3>2
    <3>3. CASE ~dropped
      BY <1>1, <2>2, <3>3, TaskDrift
    <3>4. QED
      BY <3>2, <3>3
  <2>3. CASE DispatcherStep /\ UNCHANGED pollerVars
    BY <1>1, <2>3, DispatcherDrift
  <2>4. CASE Drop
    BY <2>4 DEF Drop
  <2>5. CASE UNCHANGED vars
    BY <2>5
  <2>6. QED
    BY <1>1, <2>1, <2>2, <2>3, <2>4, <2>5 DEF Next
<1>2. QED
  BY <1>1, InvariantHolds, PTL DEF Spec, CountConserved

(* The jobs in the worker never exceed max_jobs_active by more than the    *)
(* poller has undercounted: what it counts, what is announced and all that *)
(* the live request has received fit the budget.                           *)
THEOREM ActiveJobsWithinBudget == Spec => []ActiveWithinBudget
<1>1. ASSUME IndInv, ~dropped
      PROVE  InHand + reporting + Finished + Drift <= MaxJobsActive
  <2> DEFINE hand == SumFunctionOnSet([t \in Task |-> task[t].batch], LiveTasks)
  <2>1. /\ remaining \in Nat /\ job_queue \in Nat
        /\ handling \in Nat /\ reporting \in Nat
        /\ Announced \in Nat /\ Unannounced \in Nat /\ Finished \in Nat
    BY <1>1, TermsAreNumbers
  <2>2. remaining + Announced <= MaxJobsActive
    <3>1. CASE Queued("JobsArrived") = {}
      <4>1. Announced = 0 /\ remaining <= MaxJobsActive
        BY <1>1, <3>1, AnnouncedNow DEF IndInv, RequestInv, BudgetRespected
      <4>2. QED
        BY <2>1, <4>1
    <3>2. CASE Queued("JobsArrived") # {}
      <4>1. PICK i \in Queued("JobsArrived") : TRUE
        BY <3>2
      <4>2. Announced = poll_queue[i].count
        BY <1>1, AnnouncedNow
      <4>3. remaining + poll_queue[i].count <= MaxJobsActive
        BY <1>1 DEF IndInv, RequestInv, BudgetRespected
      <4>4. QED
        BY <4>2, <4>3
    <3>3. QED
      BY <3>1, <3>2
  <2>3. hand \in Nat /\ remaining + Announced + Unannounced + hand <= MaxJobsActive
    <3>1. CASE LiveTasks = {}
      <4>1. hand = 0 /\ Unannounced = 0
        BY <3>1, SumOfNone DEF Unannounced
      <4>2. QED
        BY <2>1, <2>2, <4>1
    <3>2. CASE LiveTasks # {}
      <4>1. PICK t \in LiveTasks : TRUE
        BY <3>2
      <4>2. /\ t \in Task /\ LiveTasks = {t}
            /\ Queued("FetchJobsComplete") = {}
            /\ task[t].pc # "idle"
            /\ RequestInRange(task[t]) /\ task[t] \in TaskState
        BY <1>1, LiveMeansInProgress DEF LiveTasks, IndInv, TypeOK, PollerTypeOK
      <4>3. /\ Unannounced = task[t].total - task[t].batch
            /\ hand = task[t].batch
            /\ task[t].total \in Nat /\ task[t].batch \in Nat
        BY <1>1, <4>2, UnannouncedNow
      <4> HIDE DEF hand
      <4>4. CASE task[t].pc \in Awaiting
        <5>1. remaining + task[t].requested <= MaxJobsActive
          BY <1>1, <4>2, <4>4 DEF IndInv, RequestInv, BudgetRespected
        <5>2. task[t].total <= task[t].requested /\ task[t].requested \in Nat
          BY <4>2, <4>4, ChannelAssumption DEF RequestInRange, TaskState
        <5>3. Queued("JobsArrived") = {}
          <6>1. \A u \in Task : task[u].pc # "completing"
            BY <4>2, <4>4 DEF LiveTasks, Awaiting
          <6>2. QED
            BY <1>1, <4>2, <6>1 DEF IndInv, RequestInv, ArrivalPrecedesCompletion
        <5>4. Announced = 0
          BY <1>1, <5>3, AnnouncedNow
        <5>5. QED
          BY <2>1, <4>3, <5>1, <5>2, <5>4, ChannelAssumption
      <4>5. CASE task[t].pc \notin Awaiting
        <5>1. task[t].total = 0 /\ task[t].batch = 0
          BY <4>2, <4>5 DEF RequestInRange, TaskState
        <5>2. QED
          BY <2>1, <2>2, <4>3, <5>1
      <4>6. QED
        BY <4>4, <4>5
    <3>3. QED
      BY <3>1, <3>2
  <2>4. InHand = hand + job_queue + handling
    BY DEF InHand
  <2> HIDE DEF hand
  <2>5. QED
    BY <2>1, <2>3, <2>4, ChannelAssumption DEF Drift
<1>2. IndInv => ActiveWithinBudget
  BY <1>1 DEF ActiveWithinBudget
<1>3. QED
  BY <1>2, InvariantHolds, PTL
=============================================================================
