----------------------- MODULE SolveCoordinatorProofs -----------------------
(***************************************************************************)
(* What TLAPS proves about SolveCoordinator, for any number of requests,    *)
(* workers and completion workers and any admission configuration.          *)
(***************************************************************************)
EXTENDS SolveCoordinator, FiniteSetTheorems, SequenceTheorems, TLAPS

-----------------------------------------------------------------------------
(* Sequences *)

\* A sequence without its i-th element.
LEMMA RemoveAtProperties ==
  ASSUME NEW S, NEW s \in Seq(S), NEW i \in 1..Len(s)
  PROVE  /\ RemoveAt(s, i) \in Seq(S)
         /\ Len(RemoveAt(s, i)) = Len(s) - 1
         /\ \A j \in 1..(Len(s) - 1) :
              RemoveAt(s, i)[j] = IF j < i THEN s[j] ELSE s[j + 1]
<1> DEFINE front == SubSeq(s, 1, i - 1)
           back  == SubSeq(s, i + 1, Len(s))
<1>1. Len(s) \in Nat /\ \A j \in 1..Len(s) : s[j] \in S
  BY LenProperties, ElementOfSeq
<1>2. /\ front \in Seq(S) /\ Len(front) = i - 1
      /\ \A j \in 1..(i - 1) : front[j] = s[j]
  <2>1. \A j \in 1..(i - 1) : s[j] \in S
    BY <1>1
  <2> QED BY <2>1, <1>1, SubSeqProperties, i - 1 \in Int, 1 \in Int
<1>3. /\ back \in Seq(S) /\ Len(back) = Len(s) - i
      /\ \A j \in 1..(Len(s) - i) : back[j] = s[i + j]
  <2>1. \A j \in (i + 1)..Len(s) : s[j] \in S
    BY <1>1
  <2>2. /\ back \in Seq(S)
        /\ Len(back) = IF i + 1 <= Len(s) THEN Len(s) - (i + 1) + 1 ELSE 0
        /\ \A j \in 1..(Len(s) - (i + 1) + 1) : back[j] = s[(i + 1) + j - 1]
    BY <2>1, <1>1, SubSeqProperties, i + 1 \in Int, Len(s) \in Int
  <2> QED BY <2>2, <1>1
<1>4. /\ front \o back \in Seq(S)
      /\ Len(front \o back) = Len(front) + Len(back)
      /\ \A j \in 1..(Len(front) + Len(back)) :
           (front \o back)[j] = IF j <= Len(front) THEN front[j]
                                ELSE back[j - Len(front)]
  BY <1>2, <1>3, ConcatProperties
<1>5. RemoveAt(s, i) = front \o back
  BY DEF RemoveAt
<1> HIDE DEF front, back
<1>6. ASSUME NEW j \in 1..(Len(s) - 1)
      PROVE  RemoveAt(s, i)[j] = IF j < i THEN s[j] ELSE s[j + 1]
  <2>1. RemoveAt(s, i)[j] = IF j <= i - 1 THEN front[j] ELSE back[j - (i - 1)]
    <3>1. Len(front) = i - 1 /\ Len(back) = Len(s) - i
      BY <1>2, <1>3
    <3>2. j \in 1..(Len(front) + Len(back))
      BY <3>1, <1>1
    <3>3. (front \o back)[j] = IF j <= Len(front) THEN front[j]
                              ELSE back[j - Len(front)]
      BY <3>2, <1>4
    <3> QED BY <3>1, <3>3, <1>5
  <2>2. CASE j < i
    BY <2>1, <2>2, <1>1, <1>2
  <2>3. CASE ~(j < i)
    <3>1. j - (i - 1) \in 1..(Len(s) - i) /\ i + (j - (i - 1)) = j + 1
      BY <2>3, <1>1
    <3>2. RemoveAt(s, i)[j] = back[j - (i - 1)]
      BY <2>1, <2>3, <1>1
    <3> QED BY <3>1, <3>2, <2>3, <1>3
  <2> QED BY <2>2, <2>3
<1>7. Len(RemoveAt(s, i)) = Len(s) - 1
  <2>1. Len(RemoveAt(s, i)) = (i - 1) + (Len(s) - i)
    BY <1>2, <1>3, <1>4, <1>5
  <2> QED BY <2>1, <1>1
<1> QED BY <1>4, <1>5, <1>6, <1>7

\* A set of naturals has a least element.
LEMMA LeastNatural ==
  ASSUME NEW T \in SUBSET Nat, T # {}
  PROVE  \E x \in T : \A y \in T : x <= y
<1>1. IsWellFoundedOn(OpToRel(<, Nat), Nat)
  BY NatLessThanWellFounded
<1>2. PICK x \in T : \A y \in T : ~ (<<y, x>> \in OpToRel(<, Nat))
  BY <1>1, WFMin
<1>3. \A y \in T : <<y, x>> \in Nat \X Nat /\ <<y, x>>[1] = y /\ <<y, x>>[2] = x
  OBVIOUS
<1>4. \A y \in T : ~ (y < x)
  BY <1>2, <1>3, Zenon DEF OpToRel
<1> QED BY <1>4

\* std::min_element of a non-empty queue is one of its entries.
LEMMA EarliestIndexIsIndex ==
  ASSUME queue \in Seq(QueuedSolveRequest), queue # << >>, MaxClock \in Nat
  PROVE  EarliestIndex \in DOMAIN queue
<1>1. /\ DOMAIN queue = 1..Len(queue) /\ Len(queue) \in Nat /\ 1 \in DOMAIN queue
      /\ \A i \in DOMAIN queue : queue[i].deadline \in Nat
  <2>1. \A i \in DOMAIN queue : queue[i] \in QueuedSolveRequest
    BY ElementOfSeq, LenProperties
  <2> QED BY <2>1, LenProperties, EmptySeq DEF QueuedSolveRequest, Forever
<1> DEFINE deadlines == {queue[i].deadline : i \in DOMAIN queue}
<1>2. PICK d \in deadlines : \A e \in deadlines : d <= e
  <2>1. deadlines \in SUBSET Nat /\ deadlines # {}
    BY <1>1
  <2> HIDE DEF deadlines
  <2> QED BY <2>1, LeastNatural
<1> DEFINE earliest == {i \in DOMAIN queue : queue[i].deadline = d}
<1>3. PICK i \in earliest : \A j \in earliest : i <= j
  <2>1. earliest \in SUBSET Nat /\ earliest # {}
    BY <1>1, <1>2
  <2> HIDE DEF earliest
  <2> QED BY <2>1, LeastNatural
<1>4. i \in DOMAIN queue /\ queue[i].deadline = d
  BY <1>3
<1>5. ASSUME NEW j \in DOMAIN queue
      PROVE  \/ queue[i].deadline < queue[j].deadline
             \/ queue[i].deadline = queue[j].deadline /\ i <= j
  <2>1. d <= queue[j].deadline /\ d \in Nat /\ queue[j].deadline \in Nat
    BY <1>1, <1>2
  <2>2. queue[j].deadline = d => i <= j
    BY <1>3
  <2> QED BY <1>4, <2>1, <2>2
<1> QED BY <1>4, <1>5 DEF EarliestIndex

-----------------------------------------------------------------------------
(* The inductive invariant *)

\* A thread that works on something holds it, and each thread stays in its loop.
WorkHeld ==
  /\ \A t \in SolveThreads :
       /\ pc[t] \in {"idle", "dispatch", "solving", "report", "watching", "exited"}
       /\ pc[t] \in {"dispatch", "solving", "report"} => held[t] \in Requests
       /\ pc[t] = "report" => result[t] \in Statuses
  /\ pc[Timer] \notin {"dispatch", "solving"}
  /\ \A c \in CompletionWorkers : pc[c] = "running" => task[c] \in CompletionTask

\* The drained queue stays empty: nothing is admitted after shutting_down_.
ShutdownDrained ==
  /\ shuttingDown <=> stage # "alive"
  /\ shuttingDown => queue = << >>

SlotsCounted == active = Cardinality(Solving)

QueueBounded == active + Len(queue) <= MaxConcurrency + MaxQueueSize

IInv ==
  /\ TypeOK /\ WorkHeld /\ ShutdownDrained
  /\ SlotsCounted /\ QueueBounded /\ ImmediateKeepsSlot /\ GaugeExact

-----------------------------------------------------------------------------
(* Facts the steps share *)

\* Which thread belongs to which set.
LEMMA ThreadSets ==
  /\ Timer \in SolveThreads /\ Timer \in Threads
  /\ \A w \in Workers : w \in SolveThreads /\ w \in Threads /\ w # Timer
  /\ \A c \in CompletionWorkers : c \in Threads /\ c \notin SolveThreads
  /\ \A t \in SolveThreads : t \in Threads /\ t \notin CompletionWorkers
BY ThreadAssumption DEF SolveThreads, Threads

\* Forever is beyond the clock, and a resolved deadline is never beyond Forever.
LEMMA DeadlineTypes ==
  ASSUME NEW clock \in 0..MaxClock
  PROVE  /\ Forever \in 0..Forever /\ Forever \in Nat
         /\ ResolveDeadline(clock) \in 0..Forever
         /\ clock \in 0..Forever
         /\ ~HasQueueWaitExpired(clock, Forever)
BY AdmissionConfig DEF Forever, ResolveDeadline, Lesser, HasQueueWaitExpired

\* EvaluateSolveAdmission accepts exactly the requests within both size limits
\* that find fewer than MaxConcurrency + MaxQueueSize requests ahead of them.
THEOREM AdmissionIsCapacity ==
  ASSUME NEW size \in [jobs : Nat, vehicles : Nat],
         NEW activeSolves \in Nat, NEW queuedSolves \in Nat
  PROVE  /\ EvaluateSolveAdmission(size, activeSolves, queuedSolves) \in AdmissionStatuses
         /\ EvaluateSolveAdmission(size, activeSolves, queuedSolves) = "kAccepted"
              <=> /\ size.jobs <= MaxSyncJobs /\ size.vehicles <= MaxSyncVehicles
                  /\ activeSolves + queuedSolves < MaxConcurrency + MaxQueueSize
<1> DEFINE accepted == activeSolves + queuedSolves
           status == EvaluateSolveAdmission(size, activeSolves, queuedSolves)
<1> USE AdmissionConfig
<1>1. CASE size.jobs > MaxSyncJobs
  BY <1>1 DEF EvaluateSolveAdmission, AdmissionStatuses
<1>2. CASE size.jobs <= MaxSyncJobs /\ size.vehicles > MaxSyncVehicles
  BY <1>2 DEF EvaluateSolveAdmission, AdmissionStatuses
<1>3. CASE size.jobs <= MaxSyncJobs /\ size.vehicles <= MaxSyncVehicles
  <2>1. status = IF /\ Lesser(accepted, MaxConcurrency) >= MaxConcurrency
                    /\ (IF accepted > MaxConcurrency
                        THEN accepted - MaxConcurrency ELSE 0) >= MaxQueueSize
                 THEN "kRejectedQueueFull" ELSE "kAccepted"
    BY <1>3 DEF EvaluateSolveAdmission
  <2>2. status = IF accepted >= MaxConcurrency + MaxQueueSize
                 THEN "kRejectedQueueFull" ELSE "kAccepted"
    BY <2>1 DEF Lesser
  <2> QED BY <1>3, <2>2 DEF AdmissionStatuses
<1> QED BY <1>1, <1>2, <1>3

\* What CheckAdmission answers under mutex_.
LEMMA CheckAdmissionFacts ==
  ASSUME TypeOK, NEW size \in RequestSizes
  PROVE  /\ CheckAdmission(size) \in AdmissionStatuses
         /\ CheckAdmission(size) = "kAccepted" =>
              /\ ~shuttingDown
              /\ active + Len(queue) < MaxConcurrency + MaxQueueSize
<1>1. active \in Nat /\ Len(queue) \in Nat /\ size \in [jobs : Nat, vehicles : Nat]
  BY AdmissionConfig, LenProperties DEF TypeOK
<1>2. CASE shuttingDown
  BY <1>2 DEF CheckAdmission, AdmissionStatuses
<1>3. CASE ~shuttingDown
  BY <1>1, <1>3, AdmissionIsCapacity DEF CheckAdmission
<1> QED BY <1>2, <1>3

\* The entry the front of the queue holds.
LEMMA QueueHead ==
  ASSUME TypeOK, queue # << >>
  PROVE  /\ Head(queue) \in QueuedSolveRequest
         /\ Head(queue) = queue[1] /\ 1 \in DOMAIN queue
         /\ Tail(queue) \in Seq(QueuedSolveRequest)
         /\ Len(Tail(queue)) = Len(queue) - 1 /\ Len(queue) \in Nat
         /\ \A i \in DOMAIN Tail(queue) : i + 1 \in DOMAIN queue
                                        /\ Tail(queue)[i] = queue[i + 1]
<1>1. queue \in Seq(QueuedSolveRequest)
  BY DEF TypeOK
<1>2. Len(queue) \in Nat /\ DOMAIN queue = 1..Len(queue) /\ Len(queue) > 0
  BY <1>1, LenProperties, EmptySeq
<1>3. /\ Tail(queue) \in Seq(QueuedSolveRequest)
      /\ Len(Tail(queue)) = Len(queue) - 1
      /\ \A i \in 1..Len(Tail(queue)) : Tail(queue)[i] = queue[i + 1]
  BY <1>1, HeadTailProperties
<1>4. DOMAIN Tail(queue) = 1..(Len(queue) - 1)
  BY <1>3, LenProperties
<1>5. Head(queue) = queue[1] /\ Head(queue) \in QueuedSolveRequest
  BY <1>1, HeadTailProperties
<1> QED BY <1>2, <1>3, <1>4, <1>5

\* The queue after the timer has removed its earliest entry.
LEMMA QueueWithoutEarliest ==
  ASSUME TypeOK, queue # << >>
  PROVE  /\ EarliestIndex \in 1..Len(queue) /\ DOMAIN queue = 1..Len(queue)
         /\ queue[EarliestIndex] \in QueuedSolveRequest
         /\ RemoveAt(queue, EarliestIndex) \in Seq(QueuedSolveRequest)
         /\ Len(RemoveAt(queue, EarliestIndex)) = Len(queue) - 1
         /\ Len(queue) \in Nat
         /\ \A j \in 1..(Len(queue) - 1) :
              RemoveAt(queue, EarliestIndex)[j] =
                IF j < EarliestIndex THEN queue[j] ELSE queue[j + 1]
<1>1. queue \in Seq(QueuedSolveRequest) /\ MaxClock \in Nat
  BY AdmissionConfig DEF TypeOK
<1>2. EarliestIndex \in DOMAIN queue
  BY <1>1, EarliestIndexIsIndex
<1>3. DOMAIN queue = 1..Len(queue) /\ Len(queue) \in Nat
  BY <1>1, LenProperties
<1>4. queue[EarliestIndex] \in QueuedSolveRequest
  BY <1>1, <1>2, <1>3, ElementOfSeq
<1> QED BY <1>1, <1>2, <1>3, <1>4, RemoveAtProperties

\* Enqueueing a completion keeps the completion queue well-typed.
LEMMA EnqueueCompletionType ==
  ASSUME TypeOK, NEW r \in Requests, NEW status \in Statuses,
         EnqueueCompletion(r, status)
  PROVE  /\ completionQueue' \in Seq(CompletionTask)
         /\ completionWaiting' \subseteq CompletionWorkers
         /\ completionShuttingDown' = completionShuttingDown
<1>1. [req |-> r, status |-> status] \in CompletionTask
  BY DEF CompletionTask
<1>2. completionQueue \in Seq(CompletionTask) /\ completionWaiting \subseteq CompletionWorkers
  BY DEF TypeOK
<1>3. completionQueue' \in Seq(CompletionTask)
  BY <1>1, <1>2, AppendProperties DEF EnqueueCompletion, PushCompletion
<1>4. completionWaiting' \subseteq CompletionWorkers
  BY <1>2 DEF EnqueueCompletion, NotifyOneCompletion
<1> QED BY <1>3, <1>4 DEF EnqueueCompletion

-----------------------------------------------------------------------------
(* Type correctness *)

\* Every step of every thread keeps the variables in their types.
LEMMA TypeStep ==
  ASSUME TypeOK, WorkHeld, SlotsCounted, [Next]_vars
  PROVE  TypeOK'
<1> USE ThreadSets
    DEF TypeOK, queueVars, completionVars, localVars, destructorVars,
        lifecycleVars, callerVars, NotifyAll, SetSolverState, StampCompleted
<1>1. ASSUME NEW r \in Requests, NEW size \in RequestSizes, SubmitRejected(r, size)
      PROVE  TypeOK'
  BY <1>1, CheckAdmissionFacts DEF SubmitRejected
<1>2. ASSUME NEW r \in Requests, NEW size \in RequestSizes, SubmitAccepted(r, size)
      PROVE  TypeOK'
  <2> DEFINE entry ==
        [req |-> r, immediate |-> StartsImmediately(active, Len(queue)),
         deadline |-> IF StartsImmediately(active, Len(queue))
                      THEN Forever ELSE ResolveDeadline(now)]
  <2>1. entry \in QueuedSolveRequest
    <3>1. StartsImmediately(active, Len(queue)) \in BOOLEAN
      BY DEF StartsImmediately
    <3>2. Forever \in 0..Forever /\ ResolveDeadline(now) \in 0..Forever
      BY DeadlineTypes
    <3> QED BY <3>1, <3>2, Zenon DEF QueuedSolveRequest
  <2>2. queue' = Append(queue, entry)
    BY <1>2 DEF SubmitAccepted
  <2>3. queue' \in Seq(QueuedSolveRequest) /\ Len(queue') \in Nat
    <3> HIDE DEF entry
    <3> QED BY <2>1, <2>2, AppendProperties, LenProperties
  <2>4. "kAccepted" \in AdmissionStatuses
    BY DEF AdmissionStatuses
  <2>5. admission' \in [Requests -> AdmissionStatuses \cup {None}]
    BY <1>2, <2>4 DEF SubmitAccepted
  <2>6. /\ queueVersion' \in Nat /\ gauge' \in [queued : Nat, inflight : Nat]
        /\ startedAt' \subseteq Requests /\ completedAt' \subseteq Requests
        /\ waiting' \subseteq SolveThreads
    BY <1>2, <2>3 DEF SubmitAccepted
  <2> HIDE DEF entry
  <2> QED BY <1>2, <2>3, <2>5, <2>6 DEF SubmitAccepted
<1>3. ASSUME Tick PROVE TypeOK'
  BY <1>3, AdmissionConfig DEF Tick
<1>4. ASSUME NEW t \in SolveThreads, AwaitWork(t) \/ SpuriousWakeup(t) PROVE TypeOK'
  BY <1>4 DEF AwaitWork, SpuriousWakeup
<1>5. ASSUME NEW t \in SolveThreads, ExitLoop(t) PROVE TypeOK'
  BY <1>5 DEF ExitLoop
<1>6. ASSUME NEW t \in SolveThreads, Report(t) PROVE TypeOK'
  <2>1. held[t] \in Requests /\ result[t] \in Statuses
    BY <1>6 DEF Report, WorkHeld
  <2>2. /\ completionQueue' \in Seq(CompletionTask)
        /\ completionWaiting' \subseteq CompletionWorkers
        /\ completionShuttingDown' = completionShuttingDown
    BY <1>6, <2>1, EnqueueCompletionType DEF Report
  <2> QED BY <1>6, <2>2 DEF Report
<1>7. ASSUME NEW w \in Workers, WorkerTake(w) PROVE TypeOK'
  <2>1. Head(queue).req \in Requests /\ Tail(queue) \in Seq(QueuedSolveRequest)
    BY <1>7, QueueHead DEF WorkerTake, QueuedSolveRequest
  <2>2. Len(queue') \in Nat
    BY <1>7, <2>1, LenProperties DEF WorkerTake
  <2>3. /\ held' \in [SolveThreads -> Requests \cup {None}]
        /\ startedAt' \subseteq Requests
    BY <1>7, <2>1 DEF WorkerTake
  <2>4. /\ active' \in Nat /\ queueVersion' \in Nat
        /\ gauge' \in [queued : Nat, inflight : Nat]
    BY <1>7, <2>2 DEF WorkerTake
  <2>5. pc' \in [Threads -> {"idle", "dispatch", "solving", "report", "watching",
                            "running", "exited"}]
    BY <1>7 DEF WorkerTake
  <2>6. queue' \in Seq(QueuedSolveRequest)
    BY <1>7, <2>1 DEF WorkerTake
  <2> QED BY <1>7, <2>3, <2>4, <2>5, <2>6 DEF WorkerTake
<1>8. ASSUME NEW w \in Workers, WorkerTakeExpired(w) PROVE TypeOK'
  <2>1. Head(queue).req \in Requests /\ Tail(queue) \in Seq(QueuedSolveRequest)
    BY <1>8, QueueHead DEF WorkerTakeExpired, QueuedSolveRequest
  <2>2. Len(queue') \in Nat
    BY <1>8, <2>1, LenProperties DEF WorkerTakeExpired
  <2>3. "kQueueWaitTimedOut" \in Statuses
    BY DEF Statuses
  <2>4. held' \in [SolveThreads -> Requests \cup {None}]
    BY <1>8, <2>1 DEF WorkerTakeExpired
  <2>5. result' \in [SolveThreads -> Statuses \cup {None}]
    BY <1>8, <2>3 DEF WorkerTakeExpired
  <2>6. pc' \in [Threads -> {"idle", "dispatch", "solving", "report", "watching",
                            "running", "exited"}]
    BY <1>8 DEF WorkerTakeExpired
  <2>7. /\ queueVersion' \in Nat /\ gauge' \in [queued : Nat, inflight : Nat]
        /\ completedAt' \subseteq Requests /\ queue' \in Seq(QueuedSolveRequest)
    BY <1>8, <2>1, <2>2 DEF WorkerTakeExpired
  <2> QED BY <1>8, <2>4, <2>5, <2>6, <2>7 DEF WorkerTakeExpired
<1>9. ASSUME NEW w \in Workers, WorkerRun(w) PROVE TypeOK'
  <2>1. held[w] \in Requests /\ runs[held[w]] + 1 \in Nat
    BY <1>9 DEF WorkerRun, WorkHeld
  <2>2. runs' \in [Requests -> Nat]
    BY <1>9, <2>1 DEF WorkerRun
  <2> QED BY <1>9, <2>2 DEF WorkerRun
<1>10. ASSUME NEW w \in Workers, WorkerFinish(w) PROVE TypeOK'
  <2>1. held[w] \in Requests /\ SolveStatuses \subseteq Statuses
    BY <1>10 DEF WorkerFinish, WorkHeld, Statuses
  <2>2. active - 1 \in Nat /\ Len(queue) \in Nat
    <3>1. Solving \subseteq Workers /\ w \in Solving
      BY <1>10 DEF WorkerFinish, Solving
    <3>2. IsFiniteSet(Solving) /\ Cardinality(Solving) # 0
      BY <3>1, ThreadAssumption, FS_Subset, FS_EmptySet
    <3> QED BY <3>2, LenProperties DEF SlotsCounted
  <2>3. PICK status \in SolveStatuses : result' = [result EXCEPT ![w] = status]
    BY <1>10 DEF WorkerFinish
  <2> QED BY <1>10, <2>1, <2>2, <2>3 DEF WorkerFinish
<1>11. ASSUME TimerWatch PROVE TypeOK'
  <2>1. queue[EarliestIndex].deadline \in 0..Forever
    BY <1>11, QueueWithoutEarliest DEF TimerWatch, QueuedSolveRequest
  <2> QED BY <1>11, <2>1 DEF TimerWatch
<1>12. ASSUME TimerQueueChanged \/ TimerWatchAgain PROVE TypeOK'
  BY <1>12 DEF TimerQueueChanged, TimerWatchAgain
<1>13. ASSUME TimerExpire PROVE TypeOK'
  <2>1. queue # << >>
    BY <1>13 DEF TimerExpire, QueueChanged
  <2>2. /\ queue[EarliestIndex].req \in Requests
        /\ RemoveAt(queue, EarliestIndex) \in Seq(QueuedSolveRequest)
    BY <2>1, QueueWithoutEarliest DEF QueuedSolveRequest
  <2>3. Len(queue') \in Nat
    BY <1>13, <2>2, LenProperties DEF TimerExpire
  <2>4. "kQueueWaitTimedOut" \in Statuses
    BY DEF Statuses
  <2>5. /\ held' \in [SolveThreads -> Requests \cup {None}]
        /\ result' \in [SolveThreads -> Statuses \cup {None}]
        /\ completedAt' \subseteq Requests
    BY <1>13, <2>2, <2>4 DEF TimerExpire
  <2>6. /\ queue' \in Seq(QueuedSolveRequest) /\ queueVersion' \in Nat
        /\ gauge' \in [queued : Nat, inflight : Nat]
        /\ waiting' \subseteq SolveThreads
    BY <1>13, <2>2, <2>3 DEF TimerExpire
  <2>7. pc' \in [Threads -> {"idle", "dispatch", "solving", "report", "watching",
                            "running", "exited"}]
    BY <1>13 DEF TimerExpire
  <2> QED BY <1>13, <2>5, <2>6, <2>7 DEF TimerExpire
<1>14. ASSUME NEW c \in CompletionWorkers, CompletionAwait(c) \/ CompletionExit(c)
       PROVE  TypeOK'
  BY <1>14 DEF CompletionAwait, CompletionExit
<1>15. ASSUME NEW c \in CompletionWorkers, CompletionTake(c) PROVE TypeOK'
  <2>1. /\ Head(completionQueue) \in CompletionTask
        /\ Tail(completionQueue) \in Seq(CompletionTask)
    BY <1>15, HeadTailProperties DEF CompletionTake
  <2> QED BY <1>15, <2>1 DEF CompletionTake
<1>16. ASSUME NEW c \in CompletionWorkers, CompletionRun(c) PROVE TypeOK'
  <2>1. task[c] \in CompletionTask
    BY <1>16 DEF CompletionRun, WorkHeld
  <2>2. task[c].req \in Requests /\ task[c].status \in Statuses
    BY <2>1 DEF CompletionTask
  <2>3. Append(replies[task[c].req], task[c].status) \in Seq(Statuses)
    BY <2>2, AppendProperties
  <2> QED BY <1>16, <2>2, <2>3 DEF CompletionRun
<1>17. ASSUME DestroyBegin PROVE TypeOK'
  <2>1. << >> \in Seq(QueuedSolveRequest)
    BY EmptySeq
  <2> QED BY <1>17, <2>1 DEF DestroyBegin
<1>18. ASSUME DestroyAnnounce PROVE TypeOK'
  BY <1>18 DEF DestroyAnnounce
<1>19. ASSUME DestroyFailQueued PROVE TypeOK'
  <2>1. /\ Head(drained) \in QueuedSolveRequest
        /\ Tail(drained) \in Seq(QueuedSolveRequest)
    BY <1>19, HeadTailProperties DEF DestroyFailQueued
  <2>2. Head(drained).req \in Requests /\ "kFailed" \in Statuses
    BY <2>1 DEF QueuedSolveRequest, Statuses, SolveStatuses
  <2>3. /\ completionQueue' \in Seq(CompletionTask)
        /\ completionWaiting' \subseteq CompletionWorkers
        /\ completionShuttingDown' = completionShuttingDown
    BY <1>19, <2>2, EnqueueCompletionType DEF DestroyFailQueued
  <2> QED BY <1>19, <2>1, <2>2, <2>3 DEF DestroyFailQueued
<1>20. ASSUME DestroyStamp PROVE TypeOK'
  BY <1>20 DEF DestroyStamp
<1>21. ASSUME DestroyCloseCompletions \/ DestroyFinish PROVE TypeOK'
  BY <1>21 DEF DestroyCloseCompletions, DestroyFinish
<1>22. CASE UNCHANGED vars
  BY <1>22 DEF vars
<1> QED
  BY <1>1, <1>2, <1>3, <1>4, <1>5, <1>6, <1>7, <1>8, <1>9, <1>10, <1>11, <1>12,
     <1>13, <1>14, <1>15, <1>16, <1>17, <1>18, <1>19, <1>20, <1>21, <1>22, Zenon
  DEF Next, Submit, WorkerStep, TimerStep, CompletionStep, DestructorStep, Destroyed

-----------------------------------------------------------------------------
(* The other parts of the inductive invariant *)

\* Threads keep what they work on until they have handed it over.
LEMMA WorkHeldStep ==
  ASSUME TypeOK, WorkHeld, [Next]_vars
  PROVE  WorkHeld'
<1> USE ThreadSets
    DEF WorkHeld, TypeOK, queueVars, completionVars, localVars, destructorVars,
        lifecycleVars, callerVars
<1>1. ASSUME NEW w \in Workers, WorkerTake(w) \/ WorkerTakeExpired(w) PROVE WorkHeld'
  <2>1. Head(queue).req \in Requests /\ "kQueueWaitTimedOut" \in Statuses
    BY <1>1, QueueHead
    DEF WorkerTake, WorkerTakeExpired, QueuedSolveRequest, Statuses
  <2> QED BY <1>1, <2>1 DEF WorkerTake, WorkerTakeExpired, Idle
<1>2. ASSUME NEW w \in Workers, WorkerRun(w) PROVE WorkHeld'
  BY <1>2 DEF WorkerRun
<1>3. ASSUME NEW w \in Workers, WorkerFinish(w) PROVE WorkHeld'
  BY <1>3 DEF WorkerFinish, Statuses
<1>4. ASSUME NEW t \in SolveThreads, AwaitWork(t) \/ SpuriousWakeup(t) \/ ExitLoop(t)
      PROVE  WorkHeld'
  BY <1>4 DEF AwaitWork, SpuriousWakeup, ExitLoop
<1>5. ASSUME NEW t \in SolveThreads, Report(t) PROVE WorkHeld'
  BY <1>5 DEF Report
<1>6. ASSUME TimerWatch \/ TimerQueueChanged \/ TimerWatchAgain PROVE WorkHeld'
  BY <1>6 DEF TimerWatch, TimerQueueChanged, TimerWatchAgain
<1>7. ASSUME TimerExpire PROVE WorkHeld'
  <2>1. queue[EarliestIndex].req \in Requests /\ "kQueueWaitTimedOut" \in Statuses
    BY <1>7, QueueWithoutEarliest
    DEF TimerExpire, QueueChanged, QueuedSolveRequest, Statuses
  <2> QED BY <1>7, <2>1 DEF TimerExpire
<1>8. ASSUME NEW c \in CompletionWorkers, CompletionTake(c) PROVE WorkHeld'
  <2>1. Head(completionQueue) \in CompletionTask
    BY <1>8, HeadTailProperties DEF CompletionTake
  <2> QED BY <1>8, <2>1 DEF CompletionTake
<1>9. ASSUME NEW c \in CompletionWorkers,
             CompletionAwait(c) \/ CompletionRun(c) \/ CompletionExit(c)
      PROVE  WorkHeld'
  BY <1>9 DEF CompletionAwait, CompletionRun, CompletionExit
<1>10. ASSUME UNCHANGED <<pc, held, result, task>> PROVE WorkHeld'
  BY <1>10
<1>11. ASSUME \/ Submit \/ Tick \/ DestroyBegin \/ DestructorStep \/ UNCHANGED vars
       PROVE  UNCHANGED <<pc, held, result, task>>
  BY <1>11
  DEF Submit, SubmitRejected, SubmitAccepted, Tick, DestroyBegin, DestructorStep,
      DestroyAnnounce, DestroyFailQueued, DestroyStamp, DestroyCloseCompletions,
      DestroyFinish, vars
<1> QED
  BY <1>1, <1>2, <1>3, <1>4, <1>5, <1>6, <1>7, <1>8, <1>9, <1>10, <1>11, Zenon
  DEF Next, WorkerStep, TimerStep, CompletionStep, Destroyed

\* Nothing enters the queue again after the destructor has drained it.
LEMMA ShutdownDrainedStep ==
  ASSUME TypeOK, ShutdownDrained, [Next]_vars
  PROVE  ShutdownDrained'
<1> USE DEF ShutdownDrained, queueVars, completionVars, localVars, destructorVars,
            lifecycleVars, callerVars
<1>1. ASSUME NEW r \in Requests, NEW size \in RequestSizes, SubmitAccepted(r, size)
      PROVE  ShutdownDrained'
  BY <1>1, CheckAdmissionFacts DEF SubmitAccepted
<1>2. ASSUME NEW w \in Workers, WorkerTake(w) \/ WorkerTakeExpired(w)
      PROVE  ShutdownDrained'
  BY <1>2 DEF WorkerTake, WorkerTakeExpired
<1>3. ASSUME TimerExpire PROVE ShutdownDrained'
  BY <1>3 DEF TimerExpire, QueueChanged
<1>4. ASSUME DestroyBegin PROVE ShutdownDrained'
  BY <1>4 DEF DestroyBegin
<1>5. ASSUME DestructorStep PROVE ShutdownDrained'
  BY <1>5
  DEF DestructorStep, DestroyAnnounce, DestroyFailQueued, DestroyStamp,
      DestroyCloseCompletions, DestroyFinish
<1>6. ASSUME UNCHANGED <<queue, shuttingDown, stage>> PROVE ShutdownDrained'
  BY <1>6
<1>7. ASSUME NEW r \in Requests, NEW size \in RequestSizes, SubmitRejected(r, size)
      PROVE  UNCHANGED <<queue, shuttingDown, stage>>
  BY <1>7 DEF SubmitRejected
<1>8. ASSUME NEW w \in Workers, WorkerRun(w) \/ WorkerFinish(w)
      PROVE  UNCHANGED <<queue, shuttingDown, stage>>
  BY <1>8 DEF WorkerRun, WorkerFinish
<1>9. ASSUME NEW t \in SolveThreads,
             AwaitWork(t) \/ SpuriousWakeup(t) \/ ExitLoop(t) \/ Report(t)
      PROVE  UNCHANGED <<queue, shuttingDown, stage>>
  BY <1>9 DEF AwaitWork, SpuriousWakeup, ExitLoop, Report
<1>10. ASSUME Tick \/ TimerWatch \/ TimerQueueChanged \/ TimerWatchAgain \/ UNCHANGED vars
       PROVE  UNCHANGED <<queue, shuttingDown, stage>>
  BY <1>10 DEF Tick, TimerWatch, TimerQueueChanged, TimerWatchAgain, vars
<1>11. ASSUME NEW c \in CompletionWorkers, CompletionStep(c) \/ CompletionRun(c)
       PROVE  UNCHANGED <<queue, shuttingDown, stage>>
  BY <1>11
  DEF CompletionStep, CompletionAwait, CompletionTake, CompletionRun, CompletionExit
<1> QED
  BY ThreadSets, <1>1, <1>2, <1>3, <1>4, <1>5, <1>6, <1>7, <1>8, <1>9, <1>10, <1>11,
     Zenon
  DEF Next, Submit, WorkerStep, TimerStep, Destroyed

\* The steps that change the queue or the number of running solves.
QueueStep ==
  \/ \E r \in Requests, size \in RequestSizes : SubmitAccepted(r, size)
  \/ \E w \in Workers : WorkerTake(w) \/ WorkerTakeExpired(w) \/ WorkerFinish(w)
  \/ TimerExpire
  \/ DestroyBegin

\* Every other step leaves the queue and the count alone, and publishes nothing
\* before the destructor has started.
LEMMA OtherSteps ==
  ASSUME [Next]_vars
  PROVE  \/ QueueStep
         \/ UNCHANGED <<queue, active, shuttingDown>> /\ (stage = "alive" => UNCHANGED gauge)
<1> DEFINE Rest == UNCHANGED <<queue, active, shuttingDown>>
                   /\ (stage = "alive" => UNCHANGED gauge)
<1> USE DEF queueVars, completionVars, localVars, destructorVars, lifecycleVars,
            callerVars
<1>1. ASSUME NEW r \in Requests, NEW size \in RequestSizes, SubmitRejected(r, size)
      PROVE  Rest
  BY <1>1 DEF SubmitRejected
<1>2. ASSUME NEW w \in Workers, WorkerRun(w) PROVE Rest
  BY <1>2 DEF WorkerRun
<1>3. ASSUME NEW t \in SolveThreads,
             AwaitWork(t) \/ SpuriousWakeup(t) \/ ExitLoop(t) \/ Report(t)
      PROVE  Rest
  BY <1>3 DEF AwaitWork, SpuriousWakeup, ExitLoop, Report
<1>4. ASSUME Tick \/ TimerWatch \/ TimerQueueChanged \/ TimerWatchAgain \/ UNCHANGED vars
      PROVE  Rest
  BY <1>4 DEF Tick, TimerWatch, TimerQueueChanged, TimerWatchAgain, vars
<1>5. ASSUME NEW c \in CompletionWorkers, CompletionStep(c) \/ CompletionRun(c)
      PROVE  Rest
  BY <1>5
  DEF CompletionStep, CompletionAwait, CompletionTake, CompletionRun, CompletionExit
<1>6. ASSUME DestructorStep PROVE Rest
  BY <1>6
  DEF DestructorStep, DestroyAnnounce, DestroyFailQueued, DestroyStamp,
      DestroyCloseCompletions, DestroyFinish
<1> HIDE DEF Rest
<1>7. QueueStep \/ Rest
  BY ThreadSets, <1>1, <1>2, <1>3, <1>4, <1>5, <1>6, Zenon
  DEF Next, Submit, WorkerStep, TimerStep, Destroyed, QueueStep
<1> QED BY <1>7 DEF Rest

\* active_solves_ counts the workers inside a solve.
LEMMA SlotsCountedStep ==
  ASSUME TypeOK, WorkHeld, SlotsCounted, [Next]_vars
  PROVE  SlotsCounted'
<1> USE ThreadSets
    DEF TypeOK, queueVars, completionVars, localVars, destructorVars,
        lifecycleVars, callerVars
<1>0. IsFiniteSet(Solving) /\ Solving \subseteq Workers
  BY ThreadAssumption, FS_Subset DEF Solving
<1>1. ASSUME NEW w \in Workers, WorkerTake(w) PROVE SlotsCounted'
  <2>1. w \notin Solving /\ Solving' = Solving \cup {w}
    BY <1>1 DEF WorkerTake, Idle, Solving
  <2>2. Cardinality(Solving') = Cardinality(Solving) + 1
    BY <1>0, <2>1, FS_AddElement
  <2> QED BY <1>1, <2>2 DEF WorkerTake, SlotsCounted
<1>2. ASSUME NEW w \in Workers, WorkerFinish(w) PROVE SlotsCounted'
  <2>1. w \in Solving /\ Solving' = Solving \ {w}
    BY <1>2 DEF WorkerFinish, Solving
  <2>2. Cardinality(Solving') = Cardinality(Solving) - 1
    BY <1>0, <2>1, FS_RemoveElement
  <2> QED BY <1>2, <2>2 DEF WorkerFinish, SlotsCounted
<1>3. ASSUME Solving' = Solving, active' = active PROVE SlotsCounted'
  BY <1>3 DEF SlotsCounted
<1>4. ASSUME NEW w \in Workers, WorkerTakeExpired(w) \/ WorkerRun(w)
      PROVE  Solving' = Solving /\ active' = active
  BY <1>4 DEF WorkerTakeExpired, WorkerRun, Idle, Solving
<1>5. ASSUME NEW t \in SolveThreads,
             AwaitWork(t) \/ SpuriousWakeup(t) \/ ExitLoop(t) \/ Report(t)
      PROVE  Solving' = Solving /\ active' = active
  BY <1>5 DEF AwaitWork, SpuriousWakeup, ExitLoop, Report, Idle, Solving
<1>6. ASSUME \/ TimerWatch \/ TimerQueueChanged \/ TimerWatchAgain \/ TimerExpire
      PROVE  Solving' = Solving /\ active' = active
  BY <1>6, ThreadAssumption
  DEF TimerWatch, TimerQueueChanged, TimerWatchAgain, TimerExpire, Solving
<1>7. ASSUME NEW c \in CompletionWorkers, CompletionStep(c) \/ CompletionRun(c)
      PROVE  Solving' = Solving /\ active' = active
  BY <1>7
  DEF CompletionStep, CompletionAwait, CompletionTake, CompletionRun, CompletionExit,
      Solving
<1>8. ASSUME \/ Submit \/ Tick \/ DestroyBegin \/ DestructorStep \/ UNCHANGED vars
      PROVE  Solving' = Solving /\ active' = active
  BY <1>8
  DEF Submit, SubmitRejected, SubmitAccepted, Tick, DestroyBegin, DestructorStep,
      DestroyAnnounce, DestroyFailQueued, DestroyStamp, DestroyCloseCompletions,
      DestroyFinish, vars, Solving
<1> QED
  BY <1>1, <1>2, <1>3, <1>4, <1>5, <1>6, <1>7, <1>8, Zenon
  DEF Next, WorkerStep, TimerStep, Destroyed

\* The bound on queued and running solves, and the slot of an immediate request.
LEMMA QueueInvariantsStep ==
  ASSUME TypeOK, QueueBounded, ImmediateKeepsSlot, [Next]_vars
  PROVE  QueueBounded' /\ ImmediateKeepsSlot'
<1> USE AdmissionConfig DEF QueueBounded, ImmediateKeepsSlot, queueVars
<1>0. /\ active \in Nat /\ Len(queue) \in Nat /\ DOMAIN queue = 1..Len(queue)
      /\ now \in 0..MaxClock
  BY LenProperties DEF TypeOK
<1>1. ASSUME NEW r \in Requests, NEW size \in RequestSizes, SubmitAccepted(r, size)
      PROVE  QueueBounded' /\ ImmediateKeepsSlot'
  <2> DEFINE immediate == StartsImmediately(active, Len(queue))
             entry == [req |-> r, immediate |-> immediate,
                       deadline |-> IF immediate THEN Forever ELSE ResolveDeadline(now)]
  <2>1. active + Len(queue) < MaxConcurrency + MaxQueueSize /\ active' = active
    BY <1>1, CheckAdmissionFacts DEF SubmitAccepted
  <2>2. queue' = Append(queue, entry)
    BY <1>1 DEF SubmitAccepted
  <2>3. /\ Len(queue') = Len(queue) + 1 /\ DOMAIN queue' = 1..(Len(queue) + 1)
        /\ \A i \in 1..Len(queue) : queue'[i] = queue[i]
        /\ queue'[Len(queue) + 1] = entry
    <3>1. /\ queue \in Seq(QueuedSolveRequest \cup {entry})
          /\ entry \in QueuedSolveRequest \cup {entry}
      BY SeqMonotonic DEF TypeOK
    <3> HIDE DEF entry
    <3>2. /\ Append(queue, entry) \in Seq(QueuedSolveRequest \cup {entry})
          /\ Len(Append(queue, entry)) = Len(queue) + 1
          /\ \A i \in 1..Len(queue) : Append(queue, entry)[i] = queue[i]
          /\ Append(queue, entry)[Len(queue) + 1] = entry
      BY <3>1, AppendProperties
    <3> QED BY <2>2, <3>2, LenProperties
  <2>4. QueueBounded'
    BY <1>0, <2>1, <2>3
  <2>5. ASSUME NEW i \in DOMAIN queue', queue'[i].immediate
        PROVE  active' + (i - 1) < MaxConcurrency /\ queue'[i].deadline = Forever
    <3>1. CASE i \in 1..Len(queue)
      <4>1. queue[i].immediate /\ queue'[i].deadline = queue[i].deadline
        BY <2>3, <2>5, <3>1
      <4> QED BY <1>0, <2>1, <3>1, <4>1
    <3>2. CASE i = Len(queue) + 1
      <4>1. immediate /\ queue'[i].deadline = Forever
        BY <2>3, <2>5, <3>2
      <4> QED BY <1>0, <2>1, <3>2, <4>1 DEF StartsImmediately
    <3> QED BY <1>0, <2>3, <3>1, <3>2
  <2> QED BY <2>4, <2>5
<1>2. ASSUME NEW w \in Workers, WorkerTake(w) \/ WorkerTakeExpired(w)
      PROVE  QueueBounded' /\ ImmediateKeepsSlot'
  <2>1. /\ queue' = Tail(queue) /\ queue # << >>
        /\ active' \in {active, active + 1}
    BY <1>2 DEF WorkerTake, WorkerTakeExpired
  <2>2. /\ Len(queue') = Len(queue) - 1
        /\ \A i \in DOMAIN queue' : i + 1 \in DOMAIN queue /\ queue'[i] = queue[i + 1]
    BY <2>1, QueueHead
  <2>3. QueueBounded'
    BY <1>0, <2>1, <2>2
  <2>4. ASSUME NEW i \in DOMAIN queue', queue'[i].immediate
        PROVE  active' + (i - 1) < MaxConcurrency /\ queue'[i].deadline = Forever
    <3>1. i + 1 \in DOMAIN queue /\ queue'[i] = queue[i + 1]
      BY <2>2
    <3>2. active + ((i + 1) - 1) < MaxConcurrency /\ queue[i + 1].deadline = Forever
      BY <2>4, <3>1
    <3>3. i \in Int
      BY <1>0, <2>1, <2>2, LenProperties, QueueHead
    <3> QED BY <1>0, <2>1, <3>1, <3>2, <3>3
  <2> QED BY <2>3, <2>4
<1>3. ASSUME NEW w \in Workers, WorkerFinish(w)
      PROVE  QueueBounded' /\ ImmediateKeepsSlot'
  <2>1. queue' = queue /\ active' = active - 1
    BY <1>3 DEF WorkerFinish
  <2> QED BY <1>0, <2>1
<1>4. ASSUME TimerExpire PROVE QueueBounded' /\ ImmediateKeepsSlot'
  <2>1. /\ queue' = RemoveAt(queue, EarliestIndex) /\ queue # << >>
        /\ active' = active
    BY <1>4 DEF TimerExpire, QueueChanged
  <2>2. /\ Len(queue') = Len(queue) - 1 /\ EarliestIndex \in 1..Len(queue)
        /\ DOMAIN queue' = 1..(Len(queue) - 1)
        /\ \A i \in 1..(Len(queue) - 1) :
             queue'[i] = IF i < EarliestIndex THEN queue[i] ELSE queue[i + 1]
    BY <2>1, QueueWithoutEarliest, LenProperties
  <2>3. QueueBounded'
    BY <1>0, <2>1, <2>2
  <2>4. ASSUME NEW i \in DOMAIN queue', queue'[i].immediate
        PROVE  active' + (i - 1) < MaxConcurrency /\ queue'[i].deadline = Forever
    <3>1. i \in 1..(Len(queue) - 1)
      BY <2>2
    <3>2. CASE i < EarliestIndex
      <4>1. i \in DOMAIN queue /\ queue'[i] = queue[i]
        BY <1>0, <2>2, <3>1, <3>2
      <4> QED BY <2>1, <2>4, <4>1
    <3>3. CASE ~(i < EarliestIndex)
      <4>1. i + 1 \in DOMAIN queue /\ queue'[i] = queue[i + 1] /\ i \in Int
        BY <1>0, <2>2, <3>1, <3>3
      <4>2. active + ((i + 1) - 1) < MaxConcurrency /\ queue[i + 1].deadline = Forever
        BY <2>4, <4>1
      <4> QED BY <1>0, <2>1, <4>1, <4>2
    <3> QED BY <3>2, <3>3
  <2> QED BY <2>3, <2>4
<1>5. ASSUME DestroyBegin PROVE QueueBounded' /\ ImmediateKeepsSlot'
  <2>1. queue' = << >> /\ Len(queue') = 0 /\ DOMAIN queue' = {} /\ active' = active
    BY <1>5, EmptySeq DEF DestroyBegin
  <2> QED BY <1>0, <2>1
<1>6. ASSUME UNCHANGED <<queue, active>> PROVE QueueBounded' /\ ImmediateKeepsSlot'
  BY <1>6
<1> QED BY <1>1, <1>2, <1>3, <1>4, <1>5, <1>6, OtherSteps DEF QueueStep

\* Every critical section that changes the queue or the count publishes both.
LEMMA GaugeExactStep ==
  ASSUME TypeOK, ShutdownDrained, GaugeExact, [Next]_vars
  PROVE  GaugeExact'
<1> USE DEF GaugeExact, queueVars, SetSolverState
<1>1. ASSUME NEW r \in Requests, NEW size \in RequestSizes, SubmitAccepted(r, size)
      PROVE  GaugeExact'
  BY <1>1 DEF SubmitAccepted
<1>2. ASSUME NEW w \in Workers,
             WorkerTake(w) \/ WorkerTakeExpired(w) \/ WorkerFinish(w)
      PROVE  GaugeExact'
  BY <1>2 DEF WorkerTake, WorkerTakeExpired, WorkerFinish
<1>3. ASSUME TimerExpire PROVE GaugeExact'
  BY <1>3 DEF TimerExpire
<1>4. ASSUME DestroyBegin PROVE GaugeExact'
  BY <1>4 DEF DestroyBegin
<1>5. ASSUME UNCHANGED <<queue, active, shuttingDown>>, stage = "alive" => UNCHANGED gauge
      PROVE  GaugeExact'
  BY <1>5 DEF ShutdownDrained
<1> QED BY <1>1, <1>2, <1>3, <1>4, <1>5, OtherSteps DEF QueueStep
-----------------------------------------------------------------------------
(* The theorems *)

\* A coordinator starts empty, with every thread idle and nothing published.
LEMMA InitIInv == Init => IInv
<1> SUFFICES ASSUME Init PROVE IInv
  OBVIOUS
<1> USE ThreadSets, AdmissionConfig DEF Init
<1>1. /\ \A S : << >> \in Seq(S)
      /\ Len(queue) = 0 /\ DOMAIN queue = {}
  BY EmptySeq
<1>2. TypeOK
  <2>1. 0 \in 0..MaxClock /\ 0 \in 0..Forever
    BY DEF Forever
  <2>2. /\ queue \in Seq(QueuedSolveRequest) /\ drained \in Seq(QueuedSolveRequest)
        /\ completionQueue \in Seq(CompletionTask)
        /\ replies \in [Requests -> Seq(Statuses)]
    BY <1>1
  <2> QED BY <2>1, <2>2 DEF TypeOK
<1>3. WorkHeld
  BY DEF WorkHeld
<1>4. ShutdownDrained
  BY DEF ShutdownDrained
<1>5. SlotsCounted
  <2>1. Solving = {}
    BY DEF Solving
  <2> QED BY <2>1, FS_EmptySet DEF SlotsCounted
<1>6. QueueBounded
  BY <1>1 DEF QueueBounded
<1>7. ImmediateKeepsSlot
  BY <1>1 DEF ImmediateKeepsSlot
<1>8. GaugeExact
  BY <1>1 DEF GaugeExact
<1> QED BY <1>2, <1>3, <1>4, <1>5, <1>6, <1>7, <1>8 DEF IInv

\* IInv is inductive: no step of any thread breaks it.
LEMMA IInvStep == IInv /\ [Next]_vars => IInv'
BY TypeStep, WorkHeldStep, ShutdownDrainedStep, SlotsCountedStep,
   QueueInvariantsStep, GaugeExactStep
DEF IInv

\* In every state of every behaviour the inductive invariant holds.
THEOREM Invariance == Spec => []IInv
<1>1. IInv /\ UNCHANGED vars => IInv'
  BY IInvStep
<1> QED BY InitIInv, IInvStep, PTL DEF Spec

\* Every variable keeps its type, whatever the configuration.
THEOREM TypeCorrect == Spec => []TypeOK
<1>1. IInv => TypeOK
  BY DEF IInv
<1> QED BY <1>1, Invariance, PTL

\* For any number of workers and any queue size: active_solves_ counts exactly
\* the workers inside a solve, never exceeds max_concurrency, and together with
\* the queue never exceeds max_concurrency + max_queue_size.
THEOREM CapacityRespected == Spec => []CapacityBound
<1>1. IInv => CapacityBound
  <2> SUFFICES ASSUME IInv PROVE CapacityBound
    OBVIOUS
  <2>1. Solving \subseteq Workers
    BY DEF Solving
  <2>2. Cardinality(Solving) <= MaxConcurrency
    BY <2>1, ThreadAssumption, FS_Subset
  <2> QED BY <2>2 DEF IInv, SlotsCounted, QueueBounded, CapacityBound
<1> QED BY <1>1, Invariance, PTL

\* A request accepted into a free slot, which has no queue deadline, always has
\* a free worker left for it, so dropping its deadline is justified.
THEOREM ImmediateSlotKept == Spec => []ImmediateKeepsSlot
<1>1. IInv => ImmediateKeepsSlot
  BY DEF IInv
<1> QED BY <1>1, Invariance, PTL

\* Both limits hold, and the requests that were promised a worker have one left.
THEOREM LimitsKept == Spec => []WithinLimits
<1>1. CapacityBound /\ ImmediateKeepsSlot => WithinLimits
  BY DEF WithinLimits
<1> QED BY <1>1, CapacityRespected, ImmediateSlotKept, PTL

\* Until shutdown the published gauges are those of the last critical section.
THEOREM GaugeCorrect == Spec => []GaugeExact
<1>1. IInv => GaugeExact
  BY DEF IInv
<1> QED BY <1>1, Invariance, PTL

\* After the destructor has drained the queue, no step of any thread puts a
\* request in it, starts a solve or accepts a request.
THEOREM NothingStartsAfterShutdown == Spec => ShutdownStartsNothing
<1> DEFINE Nothing ==
      shuttingDown => /\ queue' = << >>
                      /\ startedAt' = startedAt
                      /\ \A r \in Requests \ Accepted : admission'[r] # "kAccepted"
<1> USE DEF queueVars, lifecycleVars, callerVars
<1>1. ASSUME IInv, shuttingDown, [Next]_vars PROVE queue' = << >>
  <2>1. ShutdownDrained' /\ ShutdownDrained
    BY <1>1, ShutdownDrainedStep DEF IInv
  <2>2. shuttingDown'
    BY <1>1, <2>1, OtherSteps, CheckAdmissionFacts
    DEF QueueStep, SubmitAccepted, WorkerTake, WorkerTakeExpired, WorkerFinish,
        TimerExpire, DestroyBegin, IInv
  <2> QED BY <2>1, <2>2 DEF ShutdownDrained
<1>2. ASSUME IInv, shuttingDown, [Next]_vars
      PROVE  UNCHANGED <<startedAt, admission>> \/
             \E r \in Requests, size \in RequestSizes : SubmitRejected(r, size)
  <2> DEFINE Same == UNCHANGED <<startedAt, admission>>
  <2>1. ASSUME NEW r \in Requests, NEW size \in RequestSizes, SubmitAccepted(r, size)
        PROVE  FALSE
    BY <1>2, <2>1, CheckAdmissionFacts DEF SubmitAccepted, IInv
  <2>2. ASSUME NEW w \in Workers, WorkerStep(w) \/ WorkerFinish(w) PROVE Same
    BY <1>2, <2>2
    DEF IInv, ShutdownDrained, WorkerStep, WorkerFinish, AwaitWork, WorkerTake,
        WorkerTakeExpired, WorkerRun, Report, ExitLoop
  <2>3. ASSUME TimerStep \/ \E t \in SolveThreads : SpuriousWakeup(t) PROVE Same
    BY <2>3
    DEF TimerStep, SpuriousWakeup, AwaitWork, TimerWatch, TimerQueueChanged,
        TimerWatchAgain, TimerExpire, Report, ExitLoop
  <2>4. ASSUME NEW c \in CompletionWorkers, CompletionStep(c) \/ CompletionRun(c)
        PROVE  Same
    BY <2>4
    DEF CompletionStep, CompletionAwait, CompletionTake, CompletionRun, CompletionExit
  <2>5. ASSUME Tick \/ DestroyBegin \/ DestructorStep \/ UNCHANGED vars PROVE Same
    BY <2>5
    DEF Tick, DestroyBegin, DestructorStep, DestroyAnnounce, DestroyFailQueued,
        DestroyStamp, DestroyCloseCompletions, DestroyFinish, vars
  <2> HIDE DEF Same
  <2>6. Same \/ \E r \in Requests, size \in RequestSizes : SubmitRejected(r, size)
    BY <1>2, <2>1, <2>2, <2>3, <2>4, <2>5, Zenon DEF Next, Submit, Destroyed
  <2> QED BY <2>6 DEF Same
<1>3. ASSUME IInv, NEW r \in Requests, NEW size \in RequestSizes, SubmitRejected(r, size)
      PROVE  /\ startedAt' = startedAt
             /\ \A s \in Requests \ Accepted : admission'[s] # "kAccepted"
  BY <1>3 DEF SubmitRejected, Accepted, IInv, TypeOK
<1>4. IInv /\ [Next]_vars => [Nothing]_vars
  BY <1>1, <1>2, <1>3 DEF Accepted
<1> QED BY <1>4, Invariance, PTL DEF Spec, ShutdownStartsNothing
=============================================================================
