------------------------- MODULE SolvePlacesProofs -------------------------
(***************************************************************************)
(* Where a request is, and what its callers can tell.  TLAPS proves, for    *)
(* any number of requests and of threads, that every accepted request is in *)
(* one place until its callback has been called once, that the callback     *)
(* hears the truth about the solver, that it runs after the end of the      *)
(* request was stamped, and that the destructor leaves nothing behind.      *)
(* From the places follows the refinement: under the mapping of             *)
(* SolveCoordinator the initial states are initial states of SolveService,  *)
(* and every step of a thread, a caller or the destructor is a step of      *)
(* SolveService or changes nothing of it.                                   *)
(***************************************************************************)
EXTENDS SolveCoordinatorProofs

\* The requests a queue of the coordinator holds, each of them once.
Reqs(s) == {s[i].req : i \in DOMAIN s}
Distinct(s) == \A i, j \in DOMAIN s : s[i].req = s[j].req => i = j

\* The places of a request.
InQueue(r) == r \in Reqs(queue)
IsHeld(r) == \E t \in SolveThreads : held[t] = r
IsDrained(r) == r \in Reqs(drained)
IsHandedOver(r) == r \in Reqs(completionQueue)
IsRunning(r) == \E c \in CompletionWorkers : task[c] # None /\ task[c].req = r
IsAnswered(r) == replies[r] # << >>

Busy == {"dispatch", "solving", "report"}

\* A thread holds a request while it works on it, and only then.
BusyHold ==
  /\ \A t \in SolveThreads : held[t] # None <=> pc[t] \in Busy
  /\ \A c \in CompletionWorkers : task[c] # None <=> pc[c] = "running"

\* No place holds a request twice.
HeldOnce == \A t, u \in SolveThreads : held[t] # None /\ held[t] = held[u] => t = u
RunningOnce ==
  \A c, d \in CompletionWorkers :
    task[c] # None /\ task[d] # None /\ task[c].req = task[d].req => c = d
AnsweredOnce == \A r \in Requests : Len(replies[r]) <= 1

NoTwin ==
  /\ Distinct(queue) /\ Distinct(drained) /\ Distinct(completionQueue)
  /\ HeldOnce /\ RunningOnce /\ AnsweredOnce

\* An accepted request is in one of the places, and in none of the others.
OnePlace ==
  \A r \in Requests :
    /\ r \in Accepted <=> \/ InQueue(r) \/ IsHeld(r) \/ IsDrained(r)
                          \/ IsHandedOver(r) \/ IsRunning(r) \/ IsAnswered(r)
    /\ InQueue(r) => ~(IsHeld(r) \/ IsDrained(r) \/ IsHandedOver(r) \/ IsRunning(r)
                       \/ IsAnswered(r))
    /\ IsHeld(r) => ~(IsDrained(r) \/ IsHandedOver(r) \/ IsRunning(r) \/ IsAnswered(r))
    /\ IsDrained(r) => ~(IsHandedOver(r) \/ IsRunning(r) \/ IsAnswered(r))
    /\ IsHandedOver(r) => ~(IsRunning(r) \/ IsAnswered(r))
    /\ IsRunning(r) => ~IsAnswered(r)

\* What a status says of the solver: the cases of HonestReply.
Honest(r, status) ==
  /\ status \in {"kSucceeded", "kTimedOut"} => runs[r] = 1
  /\ status = "kFailed" => runs[r] = 1 \/ (runs[r] = 0 /\ shuttingDown)
  /\ status = "kQueueWaitTimedOut" => runs[r] = 0

\* The end of the request was stamped, or the destructor is about to stamp it.
Stamped(r, status) == r \in completedAt \/ (status = "kFailed" /\ stamping = r)

Sound(r, status) == Honest(r, status) /\ Stamped(r, status)

\* A request runs once, while a worker holds it.
RunsCounted ==
  /\ \A r \in Requests : InQueue(r) \/ IsDrained(r) \/ r \notin Accepted => runs[r] = 0
  /\ \A t \in SolveThreads : /\ pc[t] = "dispatch" => runs[held[t]] = 0
                             /\ pc[t] = "solving" => runs[held[t]] = 1

\* Every status on its way to a callback is true of its request.
StatusesSound ==
  /\ \A t \in SolveThreads :
       pc[t] = "report" => held[t] \in completedAt /\ Honest(held[t], result[t])
  /\ \A i \in DOMAIN completionQueue :
       Sound(completionQueue[i].req, completionQueue[i].status)
  /\ \A c \in CompletionWorkers : task[c] # None => Sound(task[c].req, task[c].status)
  /\ \A r \in Requests : \A k \in DOMAIN replies[r] : Sound(r, replies[r][k])

\* What the stages of the destructor leave for the next one.
Stages ==
  /\ stage = "alive" => drained = << >> /\ stamping = None
  /\ completionShuttingDown <=> stage \in {"closing", "destroyed"}
  /\ completionShuttingDown =>
       /\ drained = << >> /\ stamping = None
       /\ \A t \in SolveThreads : pc[t] = "exited"
  /\ \A c \in CompletionWorkers :
       pc[c] = "exited" => completionShuttingDown /\ completionQueue = << >>
  /\ stage = "destroyed" => \A c \in CompletionWorkers : pc[c] = "exited"

PInv ==
  /\ IInv
  /\ BusyHold /\ NoTwin /\ OnePlace /\ RunsCounted /\ StatusesSound /\ Stages

-----------------------------------------------------------------------------
(* Sequences of requests *)

\* One entry more.
LEMMA AppendFacts ==
  ASSUME NEW S, NEW s \in Seq(S), NEW e
  PROVE  /\ Len(s) \in Nat /\ DOMAIN s = 1..Len(s)
         /\ DOMAIN Append(s, e) = 1..(Len(s) + 1)
         /\ \A i \in 1..Len(s) : Append(s, e)[i] = s[i]
         /\ Append(s, e)[Len(s) + 1] = e
         /\ Len(Append(s, e)) = Len(s) + 1
<1>1. s \in Seq(S \cup {e}) /\ e \in S \cup {e}
  BY SeqMonotonic
<1>2. /\ Append(s, e) \in Seq(S \cup {e})
      /\ Len(Append(s, e)) = Len(s) + 1
      /\ \A i \in 1..Len(s) : Append(s, e)[i] = s[i]
      /\ Append(s, e)[Len(s) + 1] = e
  BY <1>1, AppendProperties
<1> QED BY <1>1, <1>2, LenProperties

LEMMA AppendReqs ==
  ASSUME NEW S, NEW s \in Seq(S), NEW e
  PROVE  /\ Reqs(Append(s, e)) = Reqs(s) \cup {e.req}
         /\ Distinct(s) /\ e.req \notin Reqs(s) => Distinct(Append(s, e))
<1> DEFINE t == Append(s, e)
<1>1. /\ Len(s) \in Nat /\ DOMAIN s = 1..Len(s) /\ DOMAIN t = 1..(Len(s) + 1)
      /\ \A i \in 1..Len(s) : t[i] = s[i]
      /\ t[Len(s) + 1] = e
  BY AppendFacts
<1> HIDE DEF t
<1>2. Reqs(t) = Reqs(s) \cup {e.req}
  <2>1. ASSUME NEW i \in DOMAIN t PROVE t[i].req \in Reqs(s) \cup {e.req}
    BY <1>1 DEF Reqs
  <2>2. ASSUME NEW i \in DOMAIN s PROVE s[i].req \in Reqs(t)
    <3>1. i \in DOMAIN t /\ t[i].req = s[i].req
      BY <1>1
    <3> QED BY <3>1 DEF Reqs
  <2>3. e.req \in Reqs(t)
    <3>1. Len(s) + 1 \in DOMAIN t
      BY <1>1
    <3> QED BY <1>1, <3>1 DEF Reqs
  <2> QED BY <2>1, <2>2, <2>3 DEF Reqs
<1>3. ASSUME Distinct(s), e.req \notin Reqs(s), NEW i \in DOMAIN t, NEW j \in DOMAIN t,
             t[i].req = t[j].req
      PROVE  i = j
  BY <1>1, <1>3 DEF Distinct, Reqs
<1>4. Distinct(s) /\ e.req \notin Reqs(s) => Distinct(t)
  BY <1>3 DEF Distinct
<1> QED BY <1>2, <1>4 DEF t

\* One entry less: s becomes t, without s[k] and with every other entry once.
Without(s, t, k) ==
  \E f \in [DOMAIN t -> DOMAIN s] :
    /\ \A i \in DOMAIN t : t[i] = s[f[i]] /\ f[i] # k
    /\ \A i, j \in DOMAIN t : f[i] = f[j] => i = j
    /\ \A m \in DOMAIN s \ {k} : \E i \in DOMAIN t : f[i] = m

LEMMA WithoutReqs ==
  ASSUME NEW s, NEW t, NEW k \in DOMAIN s, Distinct(s), Without(s, t, k)
  PROVE  /\ Distinct(t)
         /\ s[k].req \in Reqs(s) /\ \A r : r \in Reqs(t) <=> r \in Reqs(s) /\ r # s[k].req
         /\ \A i \in DOMAIN t : \E m \in DOMAIN s : t[i] = s[m]
<1> PICK f \in [DOMAIN t -> DOMAIN s] :
           /\ \A i \in DOMAIN t : t[i] = s[f[i]] /\ f[i] # k
           /\ \A i, j \in DOMAIN t : f[i] = f[j] => i = j
           /\ \A m \in DOMAIN s \ {k} : \E i \in DOMAIN t : f[i] = m
  BY DEF Without
<1>1. Distinct(t)
  BY DEF Distinct
<1>2. ASSUME NEW i \in DOMAIN t PROVE t[i].req \in Reqs(s) /\ t[i].req # s[k].req
  BY DEF Distinct, Reqs
<1>3. ASSUME NEW m \in DOMAIN s, s[m].req # s[k].req PROVE s[m].req \in Reqs(t)
  <2>1. PICK i \in DOMAIN t : f[i] = m
    BY <1>3
  <2> QED BY <2>1 DEF Reqs
<1>4. s[k].req \in Reqs(s)
  BY DEF Reqs
<1> QED BY <1>1, <1>2, <1>3, <1>4 DEF Reqs

\* Head and Tail, and the removal of an entry, are of that kind.
LEMMA TailWithout ==
  ASSUME NEW S, NEW s \in Seq(S), s # << >>
  PROVE  /\ Without(s, Tail(s), 1) /\ 1 \in DOMAIN s /\ Head(s) = s[1]
<1>1. /\ Len(s) \in Nat \ {0} /\ DOMAIN s = 1..Len(s)
      /\ Tail(s) \in Seq(S) /\ Len(Tail(s)) = Len(s) - 1
      /\ \A i \in 1..Len(Tail(s)) : Tail(s)[i] = s[i + 1]
  BY EmptySeq, LenProperties, HeadTailProperties
<1>2. DOMAIN Tail(s) = 1..(Len(s) - 1)
  BY <1>1, LenProperties
<1> DEFINE f == [i \in DOMAIN Tail(s) |-> i + 1]
<1>3. /\ f \in [DOMAIN Tail(s) -> DOMAIN s]
      /\ \A i \in DOMAIN Tail(s) : Tail(s)[i] = s[f[i]] /\ f[i] # 1
      /\ \A i, j \in DOMAIN Tail(s) : f[i] = f[j] => i = j
  BY <1>1, <1>2
<1>4. ASSUME NEW m \in DOMAIN s \ {1} PROVE \E i \in DOMAIN Tail(s) : f[i] = m
  <2>1. m - 1 \in DOMAIN Tail(s) /\ f[m - 1] = m
    BY <1>1, <1>2
  <2> QED BY <2>1
<1> HIDE DEF f
<1>5. Without(s, Tail(s), 1)
  BY <1>3, <1>4 DEF Without
<1> QED BY <1>1, <1>5

LEMMA RemoveWithout ==
  ASSUME NEW S, NEW s \in Seq(S), NEW k \in 1..Len(s)
  PROVE  Without(s, RemoveAt(s, k), k) /\ k \in DOMAIN s
<1>1. /\ Len(s) \in Nat /\ DOMAIN s = 1..Len(s)
      /\ RemoveAt(s, k) \in Seq(S) /\ Len(RemoveAt(s, k)) = Len(s) - 1
      /\ \A j \in 1..(Len(s) - 1) :
           RemoveAt(s, k)[j] = IF j < k THEN s[j] ELSE s[j + 1]
  BY LenProperties, RemoveAtProperties
<1> DEFINE t == RemoveAt(s, k)
           f == [i \in DOMAIN t |-> IF i < k THEN i ELSE i + 1]
<1>2. DOMAIN t = 1..(Len(s) - 1)
  BY <1>1, LenProperties
<1>3. \A j \in 1..(Len(s) - 1) : t[j] = IF j < k THEN s[j] ELSE s[j + 1]
  BY <1>1
<1> HIDE DEF t
<1>4. /\ f \in [DOMAIN t -> DOMAIN s]
      /\ \A i \in DOMAIN t : t[i] = s[f[i]] /\ f[i] # k
      /\ \A i, j \in DOMAIN t : f[i] = f[j] => i = j
  BY <1>1, <1>2, <1>3
<1>5. ASSUME NEW m \in DOMAIN s \ {k} PROVE \E i \in DOMAIN t : f[i] = m
  <2>1. CASE m < k
    <3>1. m \in DOMAIN t /\ f[m] = m
      BY <1>1, <1>2, <2>1
    <3> QED BY <3>1
  <2>2. CASE ~(m < k)
    <3>1. m - 1 \in DOMAIN t /\ f[m - 1] = m
      BY <1>1, <1>2, <2>2
    <3> QED BY <3>1
  <2> QED BY <2>1, <2>2
<1> HIDE DEF f
<1>6. Without(s, t, k)
  BY <1>4, <1>5 DEF Without
<1> QED BY <1>1, <1>6 DEF t

-----------------------------------------------------------------------------
(* The steps that move a request, run it or stamp it, and the others *)

Move ==
  \/ \E r \in Requests, size \in RequestSizes : SubmitAccepted(r, size)
  \/ \E w \in Workers :
       WorkerTake(w) \/ WorkerTakeExpired(w) \/ WorkerRun(w) \/ WorkerFinish(w)
  \/ \E t \in SolveThreads : Report(t)
  \/ TimerExpire
  \/ \E c \in CompletionWorkers : CompletionTake(c) \/ CompletionRun(c)
  \/ DestroyBegin \/ DestroyFailQueued \/ DestroyStamp

\* What every other step leaves alone.
Rest ==
  /\ UNCHANGED <<queue, held, result, drained, completionQueue, task, replies, runs,
                 stamping, completedAt, shuttingDown>>
  /\ Accepted' = Accepted
  /\ \A t \in SolveThreads : pc[t] \in Busy \/ pc'[t] \in Busy => pc'[t] = pc[t]
  /\ \A c \in CompletionWorkers : pc'[c] = "running" <=> pc[c] = "running"

LEMMA MoveOrRest ==
  ASSUME TypeOK, [Next]_vars
  PROVE  Move \/ Rest
<1> USE ThreadSets
    DEF TypeOK, queueVars, completionVars, localVars, destructorVars, lifecycleVars,
        callerVars
<1>1. ASSUME NEW r \in Requests, NEW size \in RequestSizes, SubmitRejected(r, size)
      PROVE  Rest
  <2>1. Accepted' = Accepted
    BY <1>1, NoneAssumption DEF SubmitRejected, Accepted, AdmissionStatuses
  <2> QED BY <1>1, <2>1 DEF SubmitRejected, Rest
<1>2. ASSUME NEW t \in SolveThreads, AwaitWork(t) \/ SpuriousWakeup(t) PROVE Rest
  BY <1>2 DEF AwaitWork, SpuriousWakeup, Rest, Accepted
<1>3. ASSUME NEW t \in SolveThreads, ExitLoop(t) PROVE Rest
  BY <1>3 DEF ExitLoop, Idle, Rest, Accepted, Busy
<1>4. ASSUME TimerWatch PROVE Rest
  BY <1>4 DEF TimerWatch, Idle, Rest, Accepted, Busy
<1>5. ASSUME TimerQueueChanged \/ TimerWatchAgain PROVE Rest
  BY <1>5 DEF TimerQueueChanged, TimerWatchAgain, TimerAwake, Rest, Accepted, Busy
<1>6. ASSUME NEW c \in CompletionWorkers, CompletionAwait(c) \/ CompletionExit(c) PROVE Rest
  BY <1>6 DEF CompletionAwait, CompletionExit, CompletionIdle, Rest, Accepted
<1>7. ASSUME Tick \/ DestroyAnnounce \/ DestroyCloseCompletions \/ DestroyFinish PROVE Rest
  BY <1>7 DEF Tick, DestroyAnnounce, DestroyCloseCompletions, DestroyFinish, Rest, Accepted
<1>8. ASSUME UNCHANGED vars PROVE Rest
  BY <1>8 DEF vars, Rest, Accepted
<1> QED
  BY <1>1, <1>2, <1>3, <1>4, <1>5, <1>6, <1>7, <1>8, Zenon
  DEF Next, Submit, WorkerStep, TimerStep, CompletionStep, DestructorStep, Destroyed, Move

\* A busy thread holds a request, and no other does.
LEMMA BusyHoldStep ==
  ASSUME TypeOK, WorkHeld, BusyHold, [Next]_vars
  PROVE  BusyHold'
<1> USE ThreadSets, ThreadAssumption
    DEF TypeOK, BusyHold, queueVars, completionVars, localVars, destructorVars,
        lifecycleVars, callerVars
<1>1. ASSUME NEW w \in Workers, WorkerTake(w) \/ WorkerTakeExpired(w) PROVE BusyHold'
  <2>1. Head(queue).req # None
    BY <1>1, QueueHead DEF WorkerTake, WorkerTakeExpired, QueuedSolveRequest
  <2>2. /\ held' = [held EXCEPT ![w] = Head(queue).req] /\ task' = task
        /\ pc' = [pc EXCEPT ![w] = "dispatch"] \/ pc' = [pc EXCEPT ![w] = "report"]
    BY <1>1 DEF WorkerTake, WorkerTakeExpired
  <2> QED BY <2>1, <2>2 DEF Busy
<1>2. ASSUME NEW w \in Workers, WorkerRun(w) \/ WorkerFinish(w) PROVE BusyHold'
  BY <1>2 DEF WorkerRun, WorkerFinish, Busy
<1>3. ASSUME NEW t \in SolveThreads, Report(t) PROVE BusyHold'
  BY <1>3 DEF Report, Busy
<1>4. ASSUME TimerExpire PROVE BusyHold'
  <2>1. queue[EarliestIndex].req # None
    BY <1>4, QueueWithoutEarliest DEF TimerExpire, QueueChanged, QueuedSolveRequest
  <2> QED BY <1>4, <2>1 DEF TimerExpire, Busy
<1>5. ASSUME NEW c \in CompletionWorkers, CompletionTake(c) PROVE BusyHold'
  <2>1. Head(completionQueue) # None
    <3>1. Head(completionQueue) \in CompletionTask
      BY <1>5, HeadTailProperties DEF CompletionTake
    <3> QED BY <3>1, NoneAssumption
  <2> QED BY <1>5, <2>1 DEF CompletionTake
<1>6. ASSUME NEW c \in CompletionWorkers, CompletionRun(c) PROVE BusyHold'
  BY <1>6 DEF CompletionRun
<1>7. ASSUME UNCHANGED <<pc, held, task>> PROVE BusyHold'
  BY <1>7
<1>8. ASSUME \/ \E r \in Requests, size \in RequestSizes : SubmitAccepted(r, size)
             \/ DestroyBegin \/ DestroyFailQueued \/ DestroyStamp
      PROVE  UNCHANGED <<pc, held, task>>
  BY <1>8 DEF SubmitAccepted, DestroyBegin, DestroyFailQueued, DestroyStamp
<1>9. ASSUME Rest PROVE BusyHold'
  BY <1>9 DEF Rest, Busy
<1> QED
  BY <1>1, <1>2, <1>3, <1>4, <1>5, <1>6, <1>7, <1>8, <1>9, MoveOrRest, Zenon DEF Move

-----------------------------------------------------------------------------
(* One request moves *)

\* A thread takes a request, or hands the one it holds on.
LEMMA Taken ==
  ASSUME TypeOK, HeldOnce, NEW t \in SolveThreads, held[t] = None,
         NEW q \in Requests, ~IsHeld(q), held' = [held EXCEPT ![t] = q]
  PROVE  HeldOnce' /\ \A r \in Requests : IsHeld(r)' <=> IsHeld(r) \/ r = q
<1>1. \A u \in SolveThreads : held'[u] = IF u = t THEN q ELSE held[u]
  BY DEF TypeOK
<1>2. HeldOnce'
  BY <1>1, ThreadAssumption DEF HeldOnce, IsHeld
<1>3. ASSUME NEW r \in Requests PROVE IsHeld(r)' <=> IsHeld(r) \/ r = q
  BY <1>1, ThreadAssumption DEF IsHeld
<1> QED BY <1>2, <1>3

LEMMA Given ==
  ASSUME TypeOK, HeldOnce, NEW t \in SolveThreads, held[t] # None,
         held' = [held EXCEPT ![t] = None]
  PROVE  HeldOnce' /\ \A r \in Requests : IsHeld(r)' <=> IsHeld(r) /\ r # held[t]
<1>1. \A u \in SolveThreads : held'[u] = IF u = t THEN None ELSE held[u]
  BY DEF TypeOK
<1>2. HeldOnce'
  BY <1>1 DEF HeldOnce
<1>3. ASSUME NEW r \in Requests PROVE IsHeld(r)' <=> IsHeld(r) /\ r # held[t]
  BY <1>1, ThreadAssumption DEF IsHeld, HeldOnce
<1> QED BY <1>2, <1>3

\* The head of the queue leaves it, or its earliest entry.
LEMMA HeadLeaves ==
  ASSUME TypeOK, Distinct(queue), queue # << >>, queue' = Tail(queue)
  PROVE  /\ Head(queue).req \in Requests /\ InQueue(Head(queue).req) /\ Distinct(queue)'
         /\ \A r \in Requests : InQueue(r)' <=> InQueue(r) /\ r # Head(queue).req
<1>1. Without(queue, queue', 1) /\ 1 \in DOMAIN queue /\ Head(queue) = queue[1]
  BY TailWithout DEF TypeOK
<1>2. Head(queue).req \in Requests
  BY QueueHead DEF QueuedSolveRequest
<1>3. /\ Distinct(queue') /\ queue[1].req \in Reqs(queue)
      /\ \A r : r \in Reqs(queue') <=> r \in Reqs(queue) /\ r # queue[1].req
  BY <1>1, WithoutReqs
<1> QED BY <1>1, <1>2, <1>3 DEF InQueue

LEMMA EarliestLeaves ==
  ASSUME TypeOK, Distinct(queue), queue # << >>, NEW q, q = queue[EarliestIndex].req,
         queue' = RemoveAt(queue, EarliestIndex)
  PROVE  /\ q \in Requests /\ InQueue(q) /\ Distinct(queue)'
         /\ \A r \in Requests : InQueue(r)' <=> InQueue(r) /\ r # q
<1>1. EarliestIndex \in 1..Len(queue) /\ queue[EarliestIndex] \in QueuedSolveRequest
  BY QueueWithoutEarliest
<1>2. Without(queue, queue', EarliestIndex) /\ EarliestIndex \in DOMAIN queue
  BY <1>1, RemoveWithout DEF TypeOK
<1>3. q \in Requests
  BY <1>1 DEF QueuedSolveRequest
<1>4. /\ Distinct(queue') /\ q \in Reqs(queue)
      /\ \A r : r \in Reqs(queue') <=> r \in Reqs(queue) /\ r # q
  BY <1>2, WithoutReqs
<1> QED BY <1>3, <1>4 DEF InQueue

\* A completion task is handed over.
LEMMA HandedOverNow ==
  ASSUME TypeOK, Distinct(completionQueue), NEW q \in Requests, NEW status,
         ~IsHandedOver(q), PushCompletion(q, status)
  PROVE  /\ Distinct(completionQueue)'
         /\ \A r \in Requests : IsHandedOver(r)' <=> IsHandedOver(r) \/ r = q
<1> DEFINE e == [req |-> q, status |-> status]
<1>1. completionQueue' = Append(completionQueue, e) /\ e.req = q
  BY DEF PushCompletion
<1> HIDE DEF e
<1>2. /\ Reqs(completionQueue') = Reqs(completionQueue) \cup {q}
      /\ Distinct(completionQueue')
  BY <1>1, AppendReqs DEF TypeOK, IsHandedOver
<1> QED BY <1>2 DEF IsHandedOver

-----------------------------------------------------------------------------
(* Every request stays in one place *)

LEMMA PlacesStep ==
  ASSUME TypeOK, WorkHeld, ShutdownDrained, BusyHold, NoTwin, OnePlace, Stages,
         [Next]_vars
  PROVE  NoTwin' /\ OnePlace'
<1> USE DEF queueVars, completionVars, localVars, destructorVars, lifecycleVars, callerVars
<1>0. /\ Distinct(queue) /\ Distinct(drained) /\ Distinct(completionQueue)
      /\ HeldOnce /\ RunningOnce /\ AnsweredOnce
  BY DEF NoTwin
<1>1. ASSUME NEW r \in Requests, NEW size \in RequestSizes, SubmitAccepted(r, size)
      PROVE  NoTwin' /\ OnePlace'
  <2>1. /\ r \notin Accepted /\ Accepted' = Accepted \cup {r}
        /\ UNCHANGED <<held, drained, completionQueue, task, replies>>
    BY <1>1, NoneAssumption DEF SubmitAccepted, Accepted, TypeOK, AdmissionStatuses
  <2>2. PICK e : queue' = Append(queue, e) /\ e.req = r
    BY <1>1 DEF SubmitAccepted
  <2>3. r \notin Reqs(queue)
    BY <2>1 DEF OnePlace, InQueue
  <2>4. Distinct(queue') /\ Reqs(queue') = Reqs(queue) \cup {r}
    BY <1>0, <2>2, <2>3, AppendReqs DEF TypeOK
  <2>5. NoTwin'
    BY <1>0, <2>1, <2>4 DEF NoTwin, HeldOnce, RunningOnce, AnsweredOnce
  <2>6. ASSUME NEW q \in Requests
        PROVE  /\ InQueue(q)' <=> InQueue(q) \/ q = r
               /\ (IsHeld(q)' <=> IsHeld(q)) /\ (IsDrained(q)' <=> IsDrained(q))
               /\ (IsHandedOver(q)' <=> IsHandedOver(q)) /\ (IsRunning(q)' <=> IsRunning(q))
               /\ (IsAnswered(q)' <=> IsAnswered(q))
    BY <2>1, <2>4 DEF InQueue, IsHeld, IsDrained, IsHandedOver, IsRunning, IsAnswered
  <2> QED BY <2>1, <2>5, <2>6 DEF OnePlace
<1>2. ASSUME NEW t \in SolveThreads, NEW q \in Requests, InQueue(q), Distinct(queue)',
             \A r \in Requests : InQueue(r)' <=> InQueue(r) /\ r # q,
             held[t] = None, held' = [held EXCEPT ![t] = q],
             UNCHANGED <<drained, completionQueue, task, replies, admission>>
      PROVE  NoTwin' /\ OnePlace'
  <2>1. ~IsHeld(q)
    BY <1>2 DEF OnePlace
  <2>2. HeldOnce' /\ \A r \in Requests : IsHeld(r)' <=> IsHeld(r) \/ r = q
    BY <1>0, <1>2, <2>1, Taken
  <2>3. NoTwin'
    BY <1>0, <1>2, <2>2 DEF NoTwin, RunningOnce, AnsweredOnce
  <2>4. ASSUME NEW r \in Requests
        PROVE  /\ (IsDrained(r)' <=> IsDrained(r)) /\ (IsHandedOver(r)' <=> IsHandedOver(r))
               /\ (IsRunning(r)' <=> IsRunning(r)) /\ (IsAnswered(r)' <=> IsAnswered(r))
               /\ (r \in Accepted' <=> r \in Accepted)
    BY <1>2 DEF IsDrained, IsHandedOver, IsRunning, IsAnswered, Accepted
  <2> QED BY <1>2, <2>2, <2>3, <2>4 DEF OnePlace
<1>3. ASSUME NEW w \in Workers, WorkerTake(w) \/ WorkerTakeExpired(w)
      PROVE  NoTwin' /\ OnePlace'
  <2>1. /\ queue # << >> /\ queue' = Tail(queue) /\ w \in SolveThreads
        /\ held' = [held EXCEPT ![w] = Head(queue).req]
        /\ UNCHANGED <<drained, completionQueue, task, replies, admission>>
    BY <1>3, ThreadSets DEF WorkerTake, WorkerTakeExpired
  <2>2. held[w] = None
    BY <1>3, <2>1 DEF WorkerTake, WorkerTakeExpired, Idle, BusyHold, Busy
  <2> QED BY <1>0, <1>2, <2>1, <2>2, HeadLeaves
<1>4. ASSUME TimerExpire PROVE NoTwin' /\ OnePlace'
  <2> DEFINE q == queue[EarliestIndex].req
  <2>1. /\ queue # << >> /\ queue' = RemoveAt(queue, EarliestIndex)
        /\ held' = [held EXCEPT ![Timer] = q]
        /\ UNCHANGED <<drained, completionQueue, task, replies, admission>>
    BY <1>4 DEF TimerExpire, QueueChanged
  <2>2. held[Timer] = None /\ Timer \in SolveThreads
    BY <1>4, ThreadSets DEF TimerExpire, TimerAwake, BusyHold, Busy
  <2> HIDE DEF q
  <2>3. /\ q \in Requests /\ InQueue(q) /\ Distinct(queue)'
        /\ \A r \in Requests : InQueue(r)' <=> InQueue(r) /\ r # q
    BY <1>0, <2>1, EarliestLeaves DEF q
  <2> QED BY <1>2, <2>1, <2>2, <2>3
<1>5. ASSUME NEW t \in SolveThreads, Report(t) PROVE NoTwin' /\ OnePlace'
  <2> DEFINE q == held[t]
  <2>1. /\ q \in Requests /\ held[t] # None /\ IsHeld(q)
        /\ held' = [held EXCEPT ![t] = None] /\ PushCompletion(q, result[t])
        /\ UNCHANGED <<queue, drained, task, replies, admission>>
    BY <1>5, ThreadAssumption DEF Report, EnqueueCompletion, WorkHeld, IsHeld
  <2> HIDE DEF q
  <2>2. HeldOnce' /\ \A r \in Requests : IsHeld(r)' <=> IsHeld(r) /\ r # q
    BY <1>0, <2>1, Given DEF q
  <2>3. /\ Distinct(completionQueue)'
        /\ \A r \in Requests : IsHandedOver(r)' <=> IsHandedOver(r) \/ r = q
    <3>1. ~IsHandedOver(q)
      BY <2>1 DEF OnePlace
    <3> QED BY <1>0, <2>1, <3>1, HandedOverNow
  <2>4. NoTwin'
    BY <1>0, <2>1, <2>2, <2>3 DEF NoTwin, RunningOnce, AnsweredOnce
  <2>5. ASSUME NEW r \in Requests
        PROVE  /\ (InQueue(r)' <=> InQueue(r)) /\ (IsDrained(r)' <=> IsDrained(r))
               /\ (IsRunning(r)' <=> IsRunning(r)) /\ (IsAnswered(r)' <=> IsAnswered(r))
               /\ (r \in Accepted' <=> r \in Accepted)
    BY <2>1 DEF InQueue, IsDrained, IsRunning, IsAnswered, Accepted
  <2> QED BY <2>1, <2>2, <2>3, <2>4, <2>5 DEF OnePlace
<1>6. ASSUME NEW c \in CompletionWorkers, CompletionTake(c) PROVE NoTwin' /\ OnePlace'
  <2> DEFINE e == Head(completionQueue)
             q == e.req
  <2>1. /\ completionQueue # << >> /\ completionQueue' = Tail(completionQueue)
        /\ task' = [task EXCEPT ![c] = e] /\ task[c] = None
        /\ UNCHANGED <<queue, held, drained, replies, admission>>
    BY <1>6 DEF CompletionTake, CompletionIdle, BusyHold
  <2>2. /\ Without(completionQueue, completionQueue', 1) /\ 1 \in DOMAIN completionQueue
        /\ e = completionQueue[1] /\ e \in CompletionTask
    BY <2>1, TailWithout, HeadTailProperties DEF TypeOK
  <2>3. e # None /\ q \in Requests
    BY <2>2, NoneAssumption DEF CompletionTask
  <2> HIDE DEF e
  <2>4. /\ Distinct(completionQueue)' /\ IsHandedOver(q)
        /\ \A r \in Requests : IsHandedOver(r)' <=> IsHandedOver(r) /\ r # q
    BY <1>0, <2>2, WithoutReqs DEF IsHandedOver
  <2>5. \A d \in CompletionWorkers : task'[d] = IF d = c THEN e ELSE task[d]
    BY <2>1 DEF TypeOK
  <2>6. ~IsRunning(q)
    BY <2>3, <2>4 DEF OnePlace
  <2>7. RunningOnce' /\ \A r \in Requests : IsRunning(r)' <=> IsRunning(r) \/ r = q
    <3>1. RunningOnce'
      BY <1>0, <2>3, <2>5, <2>6 DEF RunningOnce, IsRunning
    <3>2. ASSUME NEW r \in Requests PROVE IsRunning(r)' <=> IsRunning(r) \/ r = q
      BY <2>1, <2>3, <2>5 DEF IsRunning
    <3> QED BY <3>1, <3>2
  <2>8. NoTwin'
    BY <1>0, <2>1, <2>4, <2>7 DEF NoTwin, HeldOnce, AnsweredOnce
  <2>9. ASSUME NEW r \in Requests
        PROVE  /\ (InQueue(r)' <=> InQueue(r)) /\ (IsDrained(r)' <=> IsDrained(r))
               /\ (IsHeld(r)' <=> IsHeld(r)) /\ (IsAnswered(r)' <=> IsAnswered(r))
               /\ (r \in Accepted' <=> r \in Accepted)
    BY <2>1 DEF InQueue, IsDrained, IsHeld, IsAnswered, Accepted
  <2> QED BY <2>3, <2>4, <2>7, <2>8, <2>9 DEF OnePlace
<1>7. ASSUME NEW c \in CompletionWorkers, CompletionRun(c) PROVE NoTwin' /\ OnePlace'
  <2> DEFINE q == task[c].req
  <2>1. /\ task[c] # None /\ task[c] \in CompletionTask
        /\ task' = [task EXCEPT ![c] = None]
        /\ replies' = [replies EXCEPT ![q] = Append(replies[q], task[c].status)]
        /\ UNCHANGED <<queue, held, drained, completionQueue, admission>>
    BY <1>7 DEF CompletionRun, BusyHold, WorkHeld
  <2>2. q \in Requests /\ IsRunning(q)
    BY <2>1 DEF CompletionTask, IsRunning
  <2>3. \A d \in CompletionWorkers : task'[d] = IF d = c THEN None ELSE task[d]
    BY <2>1 DEF TypeOK
  <2>4. RunningOnce' /\ \A r \in Requests : IsRunning(r)' <=> IsRunning(r) /\ r # q
    <3>1. RunningOnce'
      BY <1>0, <2>3 DEF RunningOnce
    <3>2. ASSUME NEW r \in Requests PROVE IsRunning(r)' <=> IsRunning(r) /\ r # q
      BY <1>0, <2>1, <2>3 DEF RunningOnce, IsRunning
    <3> QED BY <3>1, <3>2
  <2>5. ~IsAnswered(q)
    BY <2>2 DEF OnePlace
  <2> HIDE DEF q
  <2>6. /\ replies'[q] # << >> /\ Len(replies'[q]) = 1
        /\ \A r \in Requests \ {q} : replies'[r] = replies[r]
    <3>1. /\ replies'[q] = Append(<< >>, task[c].status)
          /\ \A r \in Requests \ {q} : replies'[r] = replies[r]
      BY <2>1, <2>2, <2>5 DEF IsAnswered, TypeOK
    <3>2. << >> \in Seq({task[c].status}) /\ Len(<< >>) = 0
      BY EmptySeq
    <3>3. /\ Append(<< >>, task[c].status) # << >>
          /\ Len(Append(<< >>, task[c].status)) = 0 + 1
      BY <3>2, AppendProperties
    <3> QED BY <3>1, <3>3
  <2>7. AnsweredOnce'
    <3>1. ASSUME NEW r \in Requests PROVE Len(replies'[r]) <= 1
      <4>1. CASE r = q
        <5>1. Len(replies'[r]) = 1
          BY <2>6, <4>1, Zenon
        <5> QED BY <5>1
      <4>2. CASE r # q
        <5>1. replies'[r] = replies[r]
          BY <2>6, <4>2
        <5>2. Len(replies[r]) <= 1
          BY <1>0 DEF AnsweredOnce
        <5> QED BY <5>1, <5>2
      <4> QED BY <4>1, <4>2
    <3> QED BY <3>1 DEF AnsweredOnce
  <2>8. \A r \in Requests : IsAnswered(r)' <=> IsAnswered(r) \/ r = q
    BY <2>2, <2>6 DEF IsAnswered
  <2>9. NoTwin'
    BY <1>0, <2>1, <2>4, <2>7 DEF NoTwin, HeldOnce
  <2>10. ASSUME NEW r \in Requests
         PROVE  /\ (InQueue(r)' <=> InQueue(r)) /\ (IsDrained(r)' <=> IsDrained(r))
                /\ (IsHeld(r)' <=> IsHeld(r)) /\ (IsHandedOver(r)' <=> IsHandedOver(r))
                /\ (r \in Accepted' <=> r \in Accepted)
    BY <2>1 DEF InQueue, IsDrained, IsHeld, IsHandedOver, Accepted
  <2> QED BY <2>2, <2>4, <2>8, <2>9, <2>10 DEF OnePlace
<1>8. ASSUME DestroyBegin PROVE NoTwin' /\ OnePlace'
  <2>1. /\ drained = << >> /\ drained' = queue /\ queue' = << >>
        /\ UNCHANGED <<held, completionQueue, task, replies, admission>>
    BY <1>8 DEF DestroyBegin, Stages
  <2>2. Reqs(<< >>) = {} /\ Distinct(<< >>)
    BY DEF Reqs, Distinct
  <2>3. NoTwin'
    BY <1>0, <2>1, <2>2 DEF NoTwin, HeldOnce, RunningOnce, AnsweredOnce
  <2>4. ASSUME NEW r \in Requests
        PROVE  /\ ~InQueue(r)' /\ ~IsDrained(r) /\ (IsDrained(r)' <=> InQueue(r))
               /\ (IsHeld(r)' <=> IsHeld(r)) /\ (IsHandedOver(r)' <=> IsHandedOver(r))
               /\ (IsRunning(r)' <=> IsRunning(r)) /\ (IsAnswered(r)' <=> IsAnswered(r))
               /\ (r \in Accepted' <=> r \in Accepted)
    BY <2>1, <2>2
    DEF InQueue, IsHeld, IsDrained, IsHandedOver, IsRunning, IsAnswered, Accepted
  <2> QED BY <2>3, <2>4 DEF OnePlace
<1>9. ASSUME DestroyFailQueued PROVE NoTwin' /\ OnePlace'
  <2> DEFINE q == Head(drained).req
  <2>1. /\ drained # << >> /\ drained' = Tail(drained) /\ PushCompletion(q, "kFailed")
        /\ UNCHANGED <<queue, held, task, replies, admission>>
    BY <1>9 DEF DestroyFailQueued, EnqueueCompletion
  <2>2. /\ Without(drained, drained', 1) /\ 1 \in DOMAIN drained
        /\ q = drained[1].req /\ q \in Requests
    <3>1. /\ Head(drained) \in QueuedSolveRequest /\ Head(drained) = drained[1]
          /\ Without(drained, drained', 1) /\ 1 \in DOMAIN drained
      BY <2>1, TailWithout, HeadTailProperties DEF TypeOK
    <3> QED BY <3>1 DEF QueuedSolveRequest
  <2> HIDE DEF q
  <2>3. /\ Distinct(drained)' /\ IsDrained(q)
        /\ \A r \in Requests : IsDrained(r)' <=> IsDrained(r) /\ r # q
    BY <1>0, <2>2, WithoutReqs DEF IsDrained
  <2>4. /\ Distinct(completionQueue)'
        /\ \A r \in Requests : IsHandedOver(r)' <=> IsHandedOver(r) \/ r = q
    <3>1. ~IsHandedOver(q)
      BY <2>2, <2>3 DEF OnePlace
    <3> QED BY <1>0, <2>1, <2>2, <3>1, HandedOverNow
  <2>5. NoTwin'
    BY <1>0, <2>1, <2>3, <2>4 DEF NoTwin, HeldOnce, RunningOnce, AnsweredOnce
  <2>6. ASSUME NEW r \in Requests
        PROVE  /\ (InQueue(r)' <=> InQueue(r)) /\ (IsHeld(r)' <=> IsHeld(r))
               /\ (IsRunning(r)' <=> IsRunning(r)) /\ (IsAnswered(r)' <=> IsAnswered(r))
               /\ (r \in Accepted' <=> r \in Accepted)
    BY <2>1 DEF InQueue, IsHeld, IsRunning, IsAnswered, Accepted
  <2> QED BY <2>2, <2>3, <2>4, <2>5, <2>6 DEF OnePlace
<1>10. ASSUME UNCHANGED <<queue, held, drained, completionQueue, task, replies>>,
              Accepted' = Accepted
       PROVE  NoTwin' /\ OnePlace'
  <2>1. NoTwin'
    BY <1>10 DEF NoTwin, Distinct, HeldOnce, RunningOnce, AnsweredOnce
  <2>2. ASSUME NEW r \in Requests
        PROVE  /\ (InQueue(r)' <=> InQueue(r)) /\ (IsHeld(r)' <=> IsHeld(r))
               /\ (IsDrained(r)' <=> IsDrained(r)) /\ (IsHandedOver(r)' <=> IsHandedOver(r))
               /\ (IsRunning(r)' <=> IsRunning(r)) /\ (IsAnswered(r)' <=> IsAnswered(r))
    BY <1>10 DEF InQueue, IsHeld, IsDrained, IsHandedOver, IsRunning, IsAnswered
  <2> QED BY <1>10, <2>1, <2>2 DEF OnePlace
<1>11. ASSUME (\E w \in Workers : WorkerRun(w) \/ WorkerFinish(w)) \/ DestroyStamp \/ Rest
       PROVE  /\ UNCHANGED <<queue, held, drained, completionQueue, task, replies>>
              /\ Accepted' = Accepted
  BY <1>11 DEF WorkerRun, WorkerFinish, DestroyStamp, Rest, Accepted
<1> QED
  BY <1>1, <1>3, <1>4, <1>5, <1>6, <1>7, <1>8, <1>9, <1>10, <1>11, MoveOrRest, Zenon
  DEF Move

-----------------------------------------------------------------------------
(* Runs and statuses *)

\* The number of runs changes in WorkerRun only.
LEMMA RunsKept ==
  ASSUME TypeOK, [Next]_vars
  PROVE  runs' = runs \/ \E w \in Workers : WorkerRun(w)
<1> USE DEF callerVars
<1>1. Move => runs' = runs \/ \E w \in Workers : WorkerRun(w)
  BY DEF Move, SubmitAccepted, WorkerTake, WorkerTakeExpired, WorkerFinish, Report,
         TimerExpire, CompletionTake, CompletionRun, DestroyBegin, DestroyFailQueued,
         DestroyStamp
<1> QED BY <1>1, MoveOrRest DEF Rest

LEMMA RunsCountedStep ==
  ASSUME TypeOK, WorkHeld, ShutdownDrained, BusyHold, NoTwin, OnePlace, Stages,
         RunsCounted, [Next]_vars
  PROVE  RunsCounted'
<1> USE DEF queueVars, completionVars, localVars, destructorVars, lifecycleVars, callerVars
<1>0. /\ Distinct(queue) /\ Distinct(drained) /\ HeldOnce
      /\ \A r \in Requests : InQueue(r) \/ IsDrained(r) \/ r \notin Accepted => runs[r] = 0
      /\ \A t \in SolveThreads : /\ pc[t] = "dispatch" => runs[held[t]] = 0
                                 /\ pc[t] = "solving" => runs[held[t]] = 1
  BY DEF NoTwin, RunsCounted
<1>1. ASSUME NEW r \in Requests, NEW size \in RequestSizes, SubmitAccepted(r, size)
      PROVE  RunsCounted'
  <2>1. /\ r \notin Accepted /\ Accepted' = Accepted \cup {r}
        /\ UNCHANGED <<pc, held, drained, runs>>
    BY <1>1, NoneAssumption DEF SubmitAccepted, Accepted, TypeOK, AdmissionStatuses
  <2>2. PICK e : queue' = Append(queue, e) /\ e.req = r
    BY <1>1 DEF SubmitAccepted
  <2>3. Reqs(queue') = Reqs(queue) \cup {r}
    BY <2>2, AppendReqs DEF TypeOK
  <2> QED BY <1>0, <2>1, <2>3 DEF RunsCounted, InQueue, IsDrained
<1>2. ASSUME NEW w \in Workers, WorkerTake(w) \/ WorkerTakeExpired(w)
      PROVE  RunsCounted'
  <2> DEFINE q == Head(queue).req
  <2>1. /\ queue # << >> /\ queue' = Tail(queue) /\ w \in SolveThreads
        /\ held' = [held EXCEPT ![w] = q]
        /\ pc' = [pc EXCEPT ![w] = "dispatch"] \/ pc' = [pc EXCEPT ![w] = "report"]
        /\ UNCHANGED <<drained, runs, admission>>
    BY <1>2, ThreadSets DEF WorkerTake, WorkerTakeExpired
  <2>2. /\ q \in Requests /\ InQueue(q)
        /\ \A r \in Requests : InQueue(r)' <=> InQueue(r) /\ r # q
    BY <1>0, <2>1, HeadLeaves
  <2> HIDE DEF q
  <2>3. runs'[q] = 0
    BY <1>0, <2>1, <2>2
  <2>4. \A t \in SolveThreads : t # w => held'[t] = held[t] /\ pc'[t] = pc[t]
    BY <2>1, ThreadSets DEF TypeOK
  <2>5. held'[w] = q /\ pc'[w] \in {"dispatch", "report"}
    BY <2>1, ThreadSets DEF TypeOK
  <2>6. Accepted' = Accepted /\ \A r \in Requests : IsDrained(r)' <=> IsDrained(r)
    BY <2>1 DEF Accepted, IsDrained
  <2> QED BY <1>0, <2>1, <2>2, <2>3, <2>4, <2>5, <2>6 DEF RunsCounted
<1>3. ASSUME NEW w \in Workers, WorkerRun(w) PROVE RunsCounted'
  <2> DEFINE q == held[w]
  <2>1. /\ w \in SolveThreads /\ q \in Requests /\ q # None /\ IsHeld(q)
        /\ pc[w] = "dispatch" /\ pc' = [pc EXCEPT ![w] = "solving"]
        /\ runs' = [runs EXCEPT ![q] = runs[q] + 1]
        /\ UNCHANGED <<queue, drained, held, admission>>
    BY <1>3, ThreadSets, ThreadAssumption DEF WorkerRun, WorkHeld, IsHeld
  <2> HIDE DEF q
  <2>2. \A r \in Requests : runs'[r] = IF r = q THEN 1 ELSE runs[r]
    BY <1>0, <2>1 DEF TypeOK, q
  <2>3. ASSUME NEW r \in Requests, (InQueue(r) \/ IsDrained(r) \/ r \notin Accepted)'
        PROVE  runs'[r] = 0
    <3>1. InQueue(r) \/ IsDrained(r) \/ r \notin Accepted
      BY <2>1, <2>3 DEF InQueue, IsDrained, Accepted
    <3>2. r # q
      BY <2>1, <3>1 DEF OnePlace
    <3> QED BY <1>0, <2>2, <3>1, <3>2
  <2>4. ASSUME NEW t \in SolveThreads
        PROVE  /\ pc'[t] = "dispatch" => runs'[held'[t]] = 0
               /\ pc'[t] = "solving" => runs'[held'[t]] = 1
    <3>1. pc'[t] = (IF t = w THEN "solving" ELSE pc[t]) /\ held'[t] = held[t]
      BY <2>1, ThreadSets DEF TypeOK
    <3>2. t # w /\ pc[t] \in {"dispatch", "solving"} => held[t] # q /\ held[t] \in Requests
      BY <1>0, <2>1, ThreadAssumption DEF HeldOnce, WorkHeld, q
    <3>3. t = w => held[t] = q
      BY DEF q
    <3> QED BY <1>0, <2>1, <2>2, <3>1, <3>2, <3>3
  <2> QED BY <2>3, <2>4 DEF RunsCounted
<1>4. ASSUME UNCHANGED <<held, runs>>, Accepted' = Accepted,
             \A r \in Requests : (InQueue(r) \/ IsDrained(r))' => InQueue(r) \/ IsDrained(r),
             \A t \in SolveThreads : pc'[t] \in {"dispatch", "solving"} => pc'[t] = pc[t]
      PROVE  RunsCounted'
  BY <1>0, <1>4 DEF RunsCounted
<1>5. ASSUME NEW w \in Workers, WorkerFinish(w) PROVE RunsCounted'
  <2>1. UNCHANGED <<held, runs, admission, queue, drained>>
    BY <1>5 DEF WorkerFinish
  <2>2. \A t \in SolveThreads : pc'[t] \in {"dispatch", "solving"} => pc'[t] = pc[t]
    BY <1>5, ThreadSets DEF WorkerFinish, TypeOK
  <2>3. /\ Accepted' = Accepted
        /\ \A r \in Requests : (InQueue(r) \/ IsDrained(r))' => InQueue(r) \/ IsDrained(r)
    BY <2>1 DEF Accepted, InQueue, IsDrained
  <2> QED BY <1>4, <2>1, <2>2, <2>3
<1>6. ASSUME NEW t \in SolveThreads, Report(t) PROVE RunsCounted'
  <2>1. /\ UNCHANGED <<runs, admission, queue, drained>>
        /\ pc' = [pc EXCEPT ![t] = "idle"] /\ held' = [held EXCEPT ![t] = None]
    BY <1>6 DEF Report
  <2>2. \A u \in SolveThreads :
          pc'[u] \in {"dispatch", "solving"} => pc'[u] = pc[u] /\ held'[u] = held[u]
    BY <2>1, ThreadSets DEF TypeOK
  <2>3. /\ Accepted' = Accepted
        /\ \A r \in Requests : (InQueue(r) \/ IsDrained(r))' => InQueue(r) \/ IsDrained(r)
    BY <2>1 DEF Accepted, InQueue, IsDrained
  <2> QED BY <1>0, <2>1, <2>2, <2>3 DEF RunsCounted
<1>7. ASSUME TimerExpire PROVE RunsCounted'
  <2> DEFINE q == queue[EarliestIndex].req
  <2>1. /\ queue # << >> /\ queue' = RemoveAt(queue, EarliestIndex)
        /\ held' = [held EXCEPT ![Timer] = q] /\ pc' = [pc EXCEPT ![Timer] = "report"]
        /\ UNCHANGED <<drained, runs, admission>>
    BY <1>7 DEF TimerExpire, QueueChanged
  <2>2. \A u \in SolveThreads :
          pc'[u] \in {"dispatch", "solving"} => pc'[u] = pc[u] /\ held'[u] = held[u]
    BY <2>1, ThreadSets DEF TypeOK
  <2> HIDE DEF q
  <2>3. \A r \in Requests : InQueue(r)' <=> InQueue(r) /\ r # q
    BY <1>0, <2>1, EarliestLeaves DEF q
  <2>4. /\ Accepted' = Accepted
        /\ \A r \in Requests : (InQueue(r) \/ IsDrained(r))' => InQueue(r) \/ IsDrained(r)
    BY <2>1, <2>3 DEF Accepted, IsDrained
  <2> QED BY <1>0, <2>1, <2>2, <2>4 DEF RunsCounted
<1>8. ASSUME NEW c \in CompletionWorkers, CompletionTake(c) \/ CompletionRun(c)
      PROVE  RunsCounted'
  <2>1. UNCHANGED <<held, runs, admission, queue, drained>>
    BY <1>8 DEF CompletionTake, CompletionRun
  <2>2. \A t \in SolveThreads : pc'[t] = pc[t]
    BY <1>8, ThreadSets DEF CompletionTake, CompletionRun, TypeOK
  <2>3. /\ Accepted' = Accepted
        /\ \A r \in Requests : (InQueue(r) \/ IsDrained(r))' => InQueue(r) \/ IsDrained(r)
    BY <2>1 DEF Accepted, InQueue, IsDrained
  <2> QED BY <1>4, <2>1, <2>2, <2>3
<1>9. ASSUME DestroyBegin PROVE RunsCounted'
  <2>1. /\ drained' = queue /\ queue' = << >> /\ UNCHANGED <<pc, held, runs, admission>>
    BY <1>9 DEF DestroyBegin
  <2>2. /\ Accepted' = Accepted
        /\ \A r \in Requests : (InQueue(r) \/ IsDrained(r))' => InQueue(r) \/ IsDrained(r)
    BY <2>1 DEF Accepted, InQueue, IsDrained, Reqs
  <2> QED BY <1>4, <2>1, <2>2
<1>10. ASSUME DestroyFailQueued PROVE RunsCounted'
  <2>1. /\ drained # << >> /\ drained' = Tail(drained)
        /\ UNCHANGED <<pc, held, runs, admission, queue>>
    BY <1>10 DEF DestroyFailQueued
  <2>2. Without(drained, drained', 1) /\ 1 \in DOMAIN drained
    BY <2>1, TailWithout DEF TypeOK
  <2>3. \A r \in Requests : IsDrained(r)' => IsDrained(r)
    BY <1>0, <2>2, WithoutReqs DEF IsDrained
  <2>4. /\ Accepted' = Accepted
        /\ \A r \in Requests : (InQueue(r) \/ IsDrained(r))' => InQueue(r) \/ IsDrained(r)
    BY <2>1, <2>3 DEF Accepted, InQueue
  <2> QED BY <1>4, <2>1, <2>4
<1>11. ASSUME DestroyStamp \/ Rest PROVE RunsCounted'
  <2>1. /\ UNCHANGED <<held, runs, queue, drained>> /\ Accepted' = Accepted
        /\ \A t \in SolveThreads : pc'[t] \in {"dispatch", "solving"} => pc'[t] = pc[t]
    BY <1>11 DEF DestroyStamp, Rest, Accepted, Busy
  <2>2. \A r \in Requests : (InQueue(r) \/ IsDrained(r))' => InQueue(r) \/ IsDrained(r)
    BY <2>1 DEF InQueue, IsDrained
  <2> QED BY <1>4, <2>1, <2>2
<1> QED
  BY <1>1, <1>2, <1>3, <1>5, <1>6, <1>7, <1>8, <1>9, <1>10, <1>11, MoveOrRest, Zenon
  DEF Move

\* What a status says stays true of a request that no worker is about to run.
LEMMA SoundKept ==
  ASSUME TypeOK, WorkHeld, [Next]_vars, NEW r \in Requests, r \in Accepted,
         \A w \in Workers : pc[w] = "dispatch" => held[w] # r, NEW status
  PROVE  /\ Sound(r, status) => Sound(r, status)'
         /\ Honest(r, status) => Honest(r, status)'
         /\ r \in completedAt => r \in completedAt'
<1> USE DEF queueVars, completionVars, localVars, destructorVars, lifecycleVars, callerVars
<1>1. runs'[r] = runs[r]
  <2>1. ASSUME NEW w \in Workers, WorkerRun(w) PROVE runs'[r] = runs[r]
    BY <2>1 DEF WorkerRun, TypeOK
  <2> QED BY <2>1, RunsKept
<1>2. /\ shuttingDown => shuttingDown'
      /\ r \in completedAt => r \in completedAt'
      /\ stamping = r => stamping' = r \/ r \in completedAt'
  <2> DEFINE Goal == /\ shuttingDown => shuttingDown'
                     /\ r \in completedAt => r \in completedAt'
                     /\ stamping = r => stamping' = r \/ r \in completedAt'
  <2>1. ASSUME NEW q \in Requests, NEW size \in RequestSizes, SubmitAccepted(q, size)
        PROVE  Goal
    <3>1. q # r
      BY <2>1, NoneAssumption DEF SubmitAccepted, Accepted, AdmissionStatuses
    <3> QED BY <2>1, <3>1 DEF SubmitAccepted
  <2>2. ASSUME NEW w \in Workers,
               WorkerTake(w) \/ WorkerTakeExpired(w) \/ WorkerRun(w) \/ WorkerFinish(w)
        PROVE  Goal
    BY <2>2 DEF WorkerTake, WorkerTakeExpired, WorkerRun, WorkerFinish, StampCompleted
  <2>3. ASSUME NEW t \in SolveThreads, Report(t) PROVE Goal
    BY <2>3 DEF Report
  <2>4. ASSUME TimerExpire PROVE Goal
    BY <2>4 DEF TimerExpire, StampCompleted
  <2>5. ASSUME NEW c \in CompletionWorkers, CompletionTake(c) \/ CompletionRun(c) PROVE Goal
    BY <2>5 DEF CompletionTake, CompletionRun
  <2>6. ASSUME DestroyBegin \/ DestroyStamp PROVE Goal
    BY <2>6 DEF DestroyBegin, DestroyStamp, StampCompleted
  <2>7. ASSUME DestroyFailQueued PROVE Goal
    BY <2>7, ThreadAssumption DEF DestroyFailQueued
  <2>8. ASSUME Rest PROVE Goal
    BY <2>8 DEF Rest
  <2> HIDE DEF Goal
  <2>9. Goal
    BY <2>1, <2>2, <2>3, <2>4, <2>5, <2>6, <2>7, <2>8, MoveOrRest, Zenon DEF Move
  <2> QED BY <2>9 DEF Goal
<1>3. Honest(r, status) => Honest(r, status)'
  <2> SUFFICES ASSUME Honest(r, status) PROVE Honest(r, status)'
    OBVIOUS
  <2>1. status \in {"kSucceeded", "kTimedOut"} => runs'[r] = 1
    BY <1>1 DEF Honest
  <2>2. status = "kQueueWaitTimedOut" => runs'[r] = 0
    BY <1>1 DEF Honest
  <2>3. status = "kFailed" => runs'[r] = 1 \/ (runs'[r] = 0 /\ shuttingDown')
    <3>1. status = "kFailed" => runs[r] = 1 \/ (runs[r] = 0 /\ shuttingDown)
      BY DEF Honest
    <3> QED BY <1>1, <1>2, <3>1, Zenon
  <2> QED BY <2>1, <2>2, <2>3, Zenon DEF Honest
<1>4. Stamped(r, status) => Stamped(r, status)'
  BY <1>2, Zenon DEF Stamped
<1> QED BY <1>2, <1>3, <1>4 DEF Sound

\* Where the statuses on their way to a callback come from.
LEMMA Origins ==
  ASSUME TypeOK, [Next]_vars
  PROVE  /\ \A i \in DOMAIN completionQueue' :
              \/ \E m \in DOMAIN completionQueue : completionQueue'[i] = completionQueue[m]
              \/ \E t \in SolveThreads :
                   pc[t] = "report" /\ completionQueue'[i] = [req |-> held[t], status |-> result[t]]
              \/ /\ DestroyFailQueued
                 /\ completionQueue'[i] = [req |-> Head(drained).req, status |-> "kFailed"]
         /\ \A c \in CompletionWorkers :
              \/ task'[c] = None \/ task'[c] = task[c]
              \/ \E m \in DOMAIN completionQueue : task'[c] = completionQueue[m]
<1> USE DEF queueVars, completionVars, localVars, destructorVars, lifecycleVars, callerVars
<1>1. ASSUME NEW e, completionQueue' = Append(completionQueue, e), NEW i \in DOMAIN completionQueue'
      PROVE  \/ \E m \in DOMAIN completionQueue : completionQueue'[i] = completionQueue[m]
             \/ completionQueue'[i] = e
  BY <1>1, AppendFacts DEF TypeOK
<1>2. ASSUME completionQueue # << >>
      PROVE  /\ \A i \in DOMAIN Tail(completionQueue) :
                  \E m \in DOMAIN completionQueue : Tail(completionQueue)[i] = completionQueue[m]
             /\ \E m \in DOMAIN completionQueue : Head(completionQueue) = completionQueue[m]
  <2>1. /\ Without(completionQueue, Tail(completionQueue), 1)
        /\ 1 \in DOMAIN completionQueue /\ Head(completionQueue) = completionQueue[1]
    BY <1>2, TailWithout DEF TypeOK
  <2> QED BY <2>1 DEF Without
<1> DEFINE Handed ==
      \A i \in DOMAIN completionQueue' :
        \/ \E m \in DOMAIN completionQueue : completionQueue'[i] = completionQueue[m]
        \/ \E t \in SolveThreads :
             pc[t] = "report" /\ completionQueue'[i] = [req |-> held[t], status |-> result[t]]
        \/ /\ DestroyFailQueued
           /\ completionQueue'[i] = [req |-> Head(drained).req, status |-> "kFailed"]
    Taken1 ==
      \A c \in CompletionWorkers :
        \/ task'[c] = None \/ task'[c] = task[c]
        \/ \E m \in DOMAIN completionQueue : task'[c] = completionQueue[m]
<1>3. ASSUME NEW t \in SolveThreads, Report(t) PROVE Handed /\ Taken1
  <2>1. /\ completionQueue' = Append(completionQueue, [req |-> held[t], status |-> result[t]])
        /\ pc[t] = "report" /\ task' = task
    BY <1>3 DEF Report, EnqueueCompletion, PushCompletion
  <2> QED BY <1>1, <2>1
<1>4. ASSUME DestroyFailQueued PROVE Handed /\ Taken1
  <2>1. /\ completionQueue' = Append(completionQueue, [req |-> Head(drained).req, status |-> "kFailed"])
        /\ task' = task
    BY <1>4 DEF DestroyFailQueued, EnqueueCompletion, PushCompletion
  <2> QED BY <1>1, <1>4, <2>1
<1>5. ASSUME NEW c \in CompletionWorkers, CompletionTake(c) PROVE Handed /\ Taken1
  <2>1. /\ completionQueue # << >> /\ completionQueue' = Tail(completionQueue)
        /\ \A d \in CompletionWorkers : task'[d] = IF d = c THEN Head(completionQueue) ELSE task[d]
    BY <1>5 DEF CompletionTake, TypeOK
  <2> QED BY <1>2, <2>1
<1>6. ASSUME NEW c \in CompletionWorkers, CompletionRun(c) PROVE Handed /\ Taken1
  <2>1. /\ completionQueue' = completionQueue
        /\ \A d \in CompletionWorkers : task'[d] = IF d = c THEN None ELSE task[d]
    BY <1>6 DEF CompletionRun, TypeOK
  <2> QED BY <2>1
<1>7. ASSUME UNCHANGED <<completionQueue, task>> PROVE Handed /\ Taken1
  BY <1>7
<1>8. ASSUME \/ \E r \in Requests, size \in RequestSizes : SubmitAccepted(r, size)
             \/ \E w \in Workers :
                  WorkerTake(w) \/ WorkerTakeExpired(w) \/ WorkerRun(w) \/ WorkerFinish(w)
             \/ TimerExpire \/ DestroyBegin \/ DestroyStamp \/ Rest
      PROVE  UNCHANGED <<completionQueue, task>>
  BY <1>8 DEF SubmitAccepted, WorkerTake, WorkerTakeExpired, WorkerRun, WorkerFinish,
              TimerExpire, DestroyBegin, DestroyStamp, Rest
<1> HIDE DEF Handed, Taken1
<1>9. Handed /\ Taken1
  BY <1>3, <1>4, <1>5, <1>6, <1>7, <1>8, MoveOrRest, Zenon DEF Move
<1> QED BY <1>9 DEF Handed, Taken1

\* Where a status about to be reported comes from, and a reply.
LEMMA ReportOrigins ==
  ASSUME TypeOK, [Next]_vars, NEW t \in SolveThreads, pc'[t] = "report"
  PROVE  \/ pc[t] = "report" /\ held'[t] = held[t] /\ result'[t] = result[t]
         \/ t \in Workers /\ (WorkerTakeExpired(t) \/ WorkerFinish(t))
         \/ t = Timer /\ TimerExpire
<1> DEFINE Goal ==
      \/ pc[t] = "report" /\ held'[t] = held[t] /\ result'[t] = result[t]
      \/ t \in Workers /\ (WorkerTakeExpired(t) \/ WorkerFinish(t))
      \/ t = Timer /\ TimerExpire
<1> USE ThreadSets
    DEF TypeOK, queueVars, completionVars, localVars, destructorVars, lifecycleVars,
        callerVars
<1>1. ASSUME NEW w \in Workers,
             WorkerTake(w) \/ WorkerTakeExpired(w) \/ WorkerRun(w) \/ WorkerFinish(w)
      PROVE  Goal
  BY <1>1 DEF WorkerTake, WorkerTakeExpired, WorkerRun, WorkerFinish
<1>2. ASSUME NEW u \in SolveThreads, Report(u) PROVE Goal
  BY <1>2 DEF Report
<1>3. ASSUME TimerExpire PROVE Goal
  BY <1>3 DEF TimerExpire
<1>4. ASSUME NEW c \in CompletionWorkers, CompletionTake(c) \/ CompletionRun(c) PROVE Goal
  BY <1>4 DEF CompletionTake, CompletionRun
<1>5. ASSUME UNCHANGED <<held, result>>, pc'[t] = pc[t] PROVE Goal
  BY <1>5
<1>6. ASSUME \/ \E r \in Requests, size \in RequestSizes : SubmitAccepted(r, size)
             \/ DestroyBegin \/ DestroyFailQueued \/ DestroyStamp \/ Rest
      PROVE  UNCHANGED <<held, result>> /\ pc'[t] = pc[t]
  BY <1>6 DEF SubmitAccepted, DestroyBegin, DestroyFailQueued, DestroyStamp, Rest, Busy
<1> HIDE DEF Goal
<1>7. Goal
  BY <1>1, <1>2, <1>3, <1>4, <1>5, <1>6, MoveOrRest, Zenon DEF Move
<1> QED BY <1>7 DEF Goal

LEMMA ReplyOrigins ==
  ASSUME TypeOK, [Next]_vars, NEW r \in Requests
  PROVE  \/ replies'[r] = replies[r]
         \/ \E c \in CompletionWorkers : CompletionRun(c) /\ task[c].req = r
<1> USE DEF callerVars
<1>1. ASSUME NEW c \in CompletionWorkers, CompletionRun(c), task[c].req # r
      PROVE  replies'[r] = replies[r]
  BY <1>1 DEF CompletionRun, TypeOK
<1>2. Move => replies' = replies \/ \E c \in CompletionWorkers : CompletionRun(c)
  BY DEF Move, SubmitAccepted, WorkerTake, WorkerTakeExpired, WorkerRun, WorkerFinish,
         Report, TimerExpire, CompletionTake, DestroyBegin, DestroyFailQueued,
         DestroyStamp
<1>3. replies' = replies \/ \E c \in CompletionWorkers : CompletionRun(c)
  BY <1>2, MoveOrRest DEF Rest
<1> QED BY <1>1, <1>3

\* No worker is about to run a request whose status is on its way.
LEMMA PlaceKept ==
  ASSUME TypeOK, WorkHeld, OnePlace, [Next]_vars, NEW r \in Requests,
         IsHandedOver(r) \/ IsRunning(r) \/ IsAnswered(r), NEW status, Sound(r, status)
  PROVE  Sound(r, status)'
<1>1. r \in Accepted /\ ~IsHeld(r)
  BY DEF OnePlace
<1>2. \A w \in Workers : pc[w] = "dispatch" => held[w] # r
  BY <1>1, ThreadSets DEF IsHeld
<1> QED BY <1>1, <1>2, SoundKept, Zenon

LEMMA HeldKept ==
  ASSUME TypeOK, WorkHeld, NoTwin, OnePlace, StatusesSound, [Next]_vars,
         NEW t \in SolveThreads, pc[t] = "report", NEW r, r = held[t],
         NEW status, status = result[t]
  PROVE  /\ r \in Requests /\ r \in completedAt'
         /\ Honest(r, status)' /\ Sound(r, status)'
<1>1. r \in Requests /\ r # None
  BY ThreadAssumption DEF WorkHeld
<1>2. r \in Accepted
  BY <1>1 DEF OnePlace, IsHeld
<1>3. \A w \in Workers : pc[w] = "dispatch" => held[w] # r
  <2>1. ASSUME NEW w \in Workers, pc[w] = "dispatch", held[w] = r PROVE FALSE
    <3>1. w = t
      BY <1>1, <2>1, ThreadSets DEF NoTwin, HeldOnce
    <3> QED BY <2>1, <3>1
  <2> QED BY <2>1
<1>4. r \in completedAt /\ Honest(r, status)
  BY DEF StatusesSound
<1>5. r \in completedAt' /\ Honest(r, status)'
  BY <1>1, <1>2, <1>3, <1>4, SoundKept, Zenon
<1>6. Sound(r, status)'
  BY <1>5 DEF Sound, Stamped
<1> QED BY <1>1, <1>5, <1>6

\* Every step keeps them true.
LEMMA StatusesSoundStep ==
  ASSUME TypeOK, WorkHeld, ShutdownDrained, BusyHold, NoTwin, OnePlace, RunsCounted,
         StatusesSound, [Next]_vars
  PROVE  StatusesSound'
<1> USE DEF queueVars, completionVars, localVars, destructorVars, lifecycleVars, callerVars
<1>1. ASSUME NEW t \in SolveThreads, pc'[t] = "report",
             NEW q, q = held'[t], NEW status, status = result'[t]
      PROVE  q \in completedAt' /\ Honest(q, status)'
  <2>1. CASE pc[t] = "report" /\ held'[t] = held[t] /\ result'[t] = result[t]
    BY <1>1, <2>1, HeldKept, Zenon
  <2>2. CASE t \in Workers /\ WorkerTakeExpired(t)
    <3>1. InQueue(Head(queue).req) /\ Head(queue).req \in Requests
      BY <2>2, HeadLeaves DEF WorkerTakeExpired, NoTwin
    <3>2. /\ q = Head(queue).req /\ status = "kQueueWaitTimedOut"
          /\ completedAt' = completedAt \cup {Head(queue).req} /\ runs' = runs
      BY <1>1, <2>2 DEF WorkerTakeExpired, StampCompleted, TypeOK
    <3> QED BY <3>1, <3>2 DEF RunsCounted, Honest
  <2>3. CASE t \in Workers /\ WorkerFinish(t)
    <3>1. /\ q = held[t] /\ status \in SolveStatuses
          /\ completedAt' = completedAt \cup {held[t]} /\ runs' = runs
          /\ pc[t] = "solving"
      BY <1>1, <2>3 DEF WorkerFinish, StampCompleted, TypeOK
    <3> QED BY <3>1 DEF RunsCounted, Honest, SolveStatuses
  <2>4. CASE t = Timer /\ TimerExpire
    <3>1. /\ q = queue[EarliestIndex].req /\ status = "kQueueWaitTimedOut"
          /\ completedAt' = completedAt \cup {q} /\ runs' = runs
          /\ queue # << >> /\ queue' = RemoveAt(queue, EarliestIndex)
      BY <1>1, <2>4, ThreadSets DEF TimerExpire, StampCompleted, QueueChanged, TypeOK
    <3>2. InQueue(q) /\ q \in Requests
      BY <3>1, EarliestLeaves DEF NoTwin
    <3> QED BY <3>1, <3>2 DEF RunsCounted, Honest
  <2> QED BY <1>1, <2>1, <2>2, <2>3, <2>4, ReportOrigins
<1>2. ASSUME NEW m \in DOMAIN completionQueue,
             NEW q, q = completionQueue[m].req, NEW status, status = completionQueue[m].status
      PROVE  q \in Requests /\ Sound(q, status)'
  <2>1. completionQueue[m] \in CompletionTask
    BY <1>2, LenProperties, ElementOfSeq DEF TypeOK
  <2>2. q \in Requests /\ IsHandedOver(q) /\ Sound(q, status)
    BY <1>2, <2>1 DEF CompletionTask, IsHandedOver, Reqs, StatusesSound
  <2> QED BY <2>2, PlaceKept, Zenon
<1>3. ASSUME DestroyFailQueued, NEW q, q = Head(drained).req
      PROVE  Sound(q, "kFailed")'
  <2>1. /\ drained # << >> /\ stamping' = q /\ shuttingDown' /\ runs' = runs
    BY <1>3, Zenon DEF DestroyFailQueued, ShutdownDrained
  <2>2. 1 \in DOMAIN drained /\ Head(drained) = drained[1]
    BY <2>1, TailWithout DEF TypeOK
  <2>3. q \in Requests /\ IsDrained(q)
    <3>1. drained[1] \in QueuedSolveRequest
      BY <2>2, LenProperties, ElementOfSeq DEF TypeOK
    <3> QED BY <1>3, <2>2, <3>1 DEF QueuedSolveRequest, IsDrained, Reqs
  <2>4. runs'[q] = 0
    BY <2>1, <2>3 DEF RunsCounted
  <2> QED BY <2>1, <2>4 DEF Sound, Honest, Stamped
<1>4. ASSUME NEW i \in DOMAIN completionQueue',
             NEW q, q = completionQueue'[i].req, NEW status, status = completionQueue'[i].status
      PROVE  Sound(q, status)'
  <2>1. CASE \E m \in DOMAIN completionQueue : completionQueue'[i] = completionQueue[m]
    BY <1>2, <1>4, <2>1
  <2>2. CASE \E t \in SolveThreads :
               pc[t] = "report" /\ completionQueue'[i] = [req |-> held[t], status |-> result[t]]
    <3> PICK t \in SolveThreads :
          pc[t] = "report" /\ completionQueue'[i] = [req |-> held[t], status |-> result[t]]
      BY <2>2
    <3>1. q = held[t] /\ status = result[t]
      BY <1>4
    <3> QED BY <3>1, HeldKept, Zenon
  <2>3. CASE /\ DestroyFailQueued
             /\ completionQueue'[i] = [req |-> Head(drained).req, status |-> "kFailed"]
    BY <1>3, <1>4, <2>3
  <2> QED BY <1>4, <2>1, <2>2, <2>3, Origins
<1>5. ASSUME NEW c \in CompletionWorkers, task[c] # None,
             NEW q, q = task[c].req, NEW status, status = task[c].status
      PROVE  q \in Requests /\ IsRunning(q) /\ Sound(q, status) /\ Sound(q, status)'
  <2>1. task[c] \in CompletionTask
    BY <1>5 DEF TypeOK
  <2>2. q \in Requests /\ IsRunning(q) /\ Sound(q, status)
    BY <1>5, <2>1 DEF CompletionTask, IsRunning, StatusesSound
  <2> QED BY <2>2, PlaceKept, Zenon
<1>6. ASSUME NEW c \in CompletionWorkers, task'[c] # None,
             NEW q, q = task'[c].req, NEW status, status = task'[c].status
      PROVE  Sound(q, status)'
  <2>1. CASE task'[c] = task[c]
    BY <1>5, <1>6, <2>1
  <2>2. CASE \E m \in DOMAIN completionQueue : task'[c] = completionQueue[m]
    BY <1>2, <1>6, <2>2
  <2> QED BY <1>6, <2>1, <2>2, Origins
<1>7. ASSUME NEW r \in Requests, NEW k \in DOMAIN replies'[r],
             NEW status, status = replies'[r][k]
      PROVE  Sound(r, status)'
  <2>1. CASE replies'[r] = replies[r]
    <3>1. IsAnswered(r)
      BY <1>7, <2>1, EmptySeq DEF IsAnswered
    <3>2. Sound(r, status)
      BY <1>7, <2>1 DEF StatusesSound
    <3> QED BY <3>1, <3>2, PlaceKept, Zenon
  <2>2. CASE \E c \in CompletionWorkers : CompletionRun(c) /\ task[c].req = r
    <3> PICK c \in CompletionWorkers : CompletionRun(c) /\ task[c].req = r
      BY <2>2
    <3>1. task[c] # None
      BY DEF CompletionRun, BusyHold
    <3>2. ~IsAnswered(r)
      BY <3>1 DEF OnePlace, IsRunning
    <3>3. replies'[r] = Append(<< >>, task[c].status)
      BY <3>2 DEF CompletionRun, IsAnswered, TypeOK
    <3>4. << >> \in Seq({}) /\ Len(<< >>) = 0
      BY EmptySeq
    <3>5. DOMAIN replies'[r] = 1..1 /\ replies'[r][1] = task[c].status
      BY <3>3, <3>4, AppendFacts
    <3>6. status = task[c].status
      BY <1>7, <3>5
    <3> QED BY <1>5, <3>1, <3>6
  <2> QED BY <2>1, <2>2, ReplyOrigins
<1> QED
  BY <1>1, <1>4, <1>6, <1>7 DEF StatusesSound, Sound, Honest, Stamped

-----------------------------------------------------------------------------
(* The stages of the destructor *)

LEMMA StagesStep ==
  ASSUME TypeOK, WorkHeld, ShutdownDrained, Stages, [Next]_vars
  PROVE  Stages'
<1> USE ThreadSets
    DEF TypeOK, queueVars, completionVars, localVars, destructorVars, lifecycleVars,
        callerVars
\* A step of a solver thread or of the timer.
<1>1. ASSUME NEW t \in SolveThreads, pc[t] # "exited",
             \A u \in Threads : u # t => pc'[u] = pc[u],
             UNCHANGED <<completionShuttingDown, stage, drained, stamping>>
      PROVE  Stages'
  <2>1. ~completionShuttingDown
    BY <1>1 DEF Stages
  <2> QED BY <1>1, <2>1 DEF Stages
<1>2. ASSUME NEW w \in Workers,
             WorkerTake(w) \/ WorkerTakeExpired(w) \/ WorkerRun(w) \/ WorkerFinish(w)
      PROVE  Stages'
  <2>1. /\ w \in SolveThreads /\ pc[w] # "exited"
        /\ \A u \in Threads : u # w => pc'[u] = pc[u]
        /\ UNCHANGED <<completionShuttingDown, stage, drained, stamping>>
    BY <1>2 DEF WorkerTake, WorkerTakeExpired, WorkerRun, WorkerFinish, Idle
  <2> QED BY <1>1, <2>1
<1>3. ASSUME NEW t \in SolveThreads, ExitLoop(t) \/ Report(t)
      PROVE  Stages'
  BY <1>1, <1>3 DEF ExitLoop, Report, EnqueueCompletion, Idle
<1>4. ASSUME TimerWatch \/ TimerQueueChanged \/ TimerExpire
      PROVE  Stages'
  BY <1>1, <1>4 DEF TimerWatch, TimerQueueChanged, TimerExpire, TimerAwake, Idle
\* A step of a completion worker.
<1>5. ASSUME NEW c \in CompletionWorkers, CompletionTake(c) PROVE Stages'
  <2>1. \A d \in CompletionWorkers : pc'[d] # "exited"
    BY <1>5 DEF CompletionTake, Stages
  <2>2. /\ stage # "destroyed"
        /\ \A t \in SolveThreads : pc'[t] = pc[t]
        /\ UNCHANGED <<completionShuttingDown, stage, drained, stamping>>
    BY <1>5 DEF CompletionTake, CompletionIdle, Stages
  <2> QED BY <2>1, <2>2 DEF Stages
<1>6. ASSUME NEW c \in CompletionWorkers, CompletionRun(c) \/ CompletionExit(c)
      PROVE  Stages'
  <2>1. /\ \A u \in Threads : u # c => pc'[u] = pc[u]
        /\ pc'[c] = "exited" => completionShuttingDown /\ completionQueue = << >>
        /\ pc[c] # "exited"
        /\ UNCHANGED <<completionShuttingDown, completionQueue, stage, drained, stamping>>
    BY <1>6 DEF CompletionRun, CompletionExit, CompletionIdle
  <2> QED BY <2>1 DEF Stages
\* The destructor.
<1>7. ASSUME DestroyBegin PROVE Stages'
  BY <1>7 DEF DestroyBegin, Stages
<1>8. ASSUME DestroyAnnounce PROVE Stages'
  BY <1>8 DEF DestroyAnnounce, Stages
<1>9. ASSUME DestroyFailQueued \/ DestroyStamp PROVE Stages'
  <2>1. stage = "draining" /\ UNCHANGED <<stage, completionShuttingDown, pc>>
    BY <1>9 DEF DestroyFailQueued, DestroyStamp, EnqueueCompletion
  <2> QED BY <2>1 DEF Stages
<1>10. ASSUME DestroyCloseCompletions PROVE Stages'
  BY <1>10 DEF DestroyCloseCompletions, Stages
<1>11. ASSUME DestroyFinish PROVE Stages'
  BY <1>11 DEF DestroyFinish, Stages
\* The other steps.
<1>12. ASSUME UNCHANGED <<pc, completionShuttingDown, completionQueue, stage, drained, stamping>>
       PROVE  Stages'
  BY <1>12 DEF Stages
<1>13. ASSUME \/ Submit \/ Tick \/ TimerWatchAgain \/ UNCHANGED vars
              \/ \E t \in SolveThreads : AwaitWork(t) \/ SpuriousWakeup(t)
              \/ \E c \in CompletionWorkers : CompletionAwait(c)
       PROVE  UNCHANGED <<pc, completionShuttingDown, completionQueue, stage, drained,
                          stamping>>
  BY <1>13 DEF Submit, SubmitRejected, SubmitAccepted, Tick, TimerWatchAgain, AwaitWork,
               SpuriousWakeup, CompletionAwait, vars
<1> QED
  BY <1>2, <1>3, <1>4, <1>5, <1>6, <1>7, <1>8, <1>9, <1>10, <1>11, <1>12, <1>13, Zenon
  DEF Next, WorkerStep, TimerStep, CompletionStep, DestructorStep, Destroyed

-----------------------------------------------------------------------------
(* The theorems *)

\* A coordinator starts with every request in the caller's hands.
LEMMA InitPInv == Init => PInv
<1> SUFFICES ASSUME Init PROVE PInv
  OBVIOUS
<1> USE ThreadSets, ThreadAssumption DEF Init
<1>1. DOMAIN << >> = {} /\ Len(<< >>) = 0
  BY EmptySeq
<1>2. Accepted = {}
  BY NoneAssumption DEF Accepted, AdmissionStatuses
<1>3. IInv
  BY InitIInv
<1>4. BusyHold
  BY DEF BusyHold, Busy
<1>5. NoTwin
  BY <1>1 DEF NoTwin, Distinct, HeldOnce, RunningOnce, AnsweredOnce
<1>6. OnePlace
  BY <1>1, <1>2
  DEF OnePlace, InQueue, IsHeld, IsDrained, IsHandedOver, IsRunning, IsAnswered, Reqs
<1>7. RunsCounted
  BY DEF RunsCounted
<1>8. StatusesSound
  BY <1>1 DEF StatusesSound
<1>9. Stages
  BY DEF Stages
<1> QED BY <1>3, <1>4, <1>5, <1>6, <1>7, <1>8, <1>9 DEF PInv

\* PInv is inductive.
LEMMA PInvStep == PInv /\ [Next]_vars => PInv'
<1> SUFFICES ASSUME PInv, [Next]_vars PROVE PInv'
  OBVIOUS
<1>1. /\ IInv /\ TypeOK /\ WorkHeld /\ ShutdownDrained
      /\ BusyHold /\ NoTwin /\ OnePlace /\ RunsCounted /\ StatusesSound /\ Stages
  BY DEF PInv, IInv
<1> QED
  BY <1>1, IInvStep, BusyHoldStep, PlacesStep, RunsCountedStep, StatusesSoundStep,
     StagesStep, Zenon
  DEF PInv

THEOREM PlacesInvariance == Spec => []PInv
<1>1. PInv /\ UNCHANGED vars => PInv'
  BY PInvStep
<1> QED BY InitPInv, PInvStep, PTL DEF Spec

\* The set of the indices at which something that happens once happens.
LEMMA AtMostOne ==
  ASSUME NEW S, \A x, y \in S : x = y
  PROVE  Cardinality(S) = IF S = {} THEN 0 ELSE 1
<1>1. CASE S = {}
  BY <1>1, FS_EmptySet
<1>2. CASE S # {}
  <2>1. PICK x \in S : TRUE
    BY <1>2
  <2>2. S = {x}
    BY <2>1
  <2> QED BY <1>2, <2>2, FS_Singleton
<1> QED BY <1>1, <1>2

\* A request has one answer or none.
LEMMA OneAnswer ==
  ASSUME TypeOK, NoTwin, NEW r \in Requests
  PROVE  /\ Len(replies[r]) = IF IsAnswered(r) THEN 1 ELSE 0
         /\ IsAnswered(r) => replies[r] = <<replies[r][1]>>
<1>1. /\ replies[r] \in Seq(Statuses) /\ Len(replies[r]) <= 1
      /\ Len(replies[r]) \in Nat
  BY LenProperties DEF TypeOK, NoTwin, AnsweredOnce
<1>2. Len(replies[r]) = 0 <=> replies[r] = << >>
  BY <1>1, EmptySeq
<1>3. Len(replies[r]) = IF IsAnswered(r) THEN 1 ELSE 0
  BY <1>1, <1>2 DEF IsAnswered
<1>4. ASSUME Len(replies[r]) = 1 PROVE replies[r] = <<replies[r][1]>>
  BY <1>1, <1>4
<1> QED BY <1>3, <1>4

\* No interleaving of any number of workers, callbacks and the destructor loses
\* an accepted request or answers it twice: at every moment it is in exactly one
\* place, and a rejected request is in none.
THEOREM NothingLostOrDoubled == Spec => []ExactlyOnce
<1>1. PInv => ExactlyOnce
  <2> SUFFICES ASSUME PInv, NEW r \in Requests
               PROVE  Places(r) = IF r \in Accepted THEN 1 ELSE 0
    BY DEF ExactlyOnce
  <2> DEFINE q == Cardinality({i \in DOMAIN queue : queue[i].req = r})
             h == Cardinality({t \in SolveThreads : held[t] = r})
             d == Cardinality({i \in DOMAIN drained : drained[i].req = r})
             o == Cardinality({i \in DOMAIN completionQueue : completionQueue[i].req = r})
             k == Cardinality({c \in CompletionWorkers : task[c] # None /\ task[c].req = r})
             a == Len(replies[r])
  <2>1. NoTwin /\ OnePlace /\ TypeOK
    BY DEF PInv, IInv
  <2>2. q = IF InQueue(r) THEN 1 ELSE 0
    <3> DEFINE S == {i \in DOMAIN queue : queue[i].req = r}
    <3>1. (\A x, y \in S : x = y) /\ (S = {} <=> ~InQueue(r))
      BY <2>1 DEF NoTwin, Distinct, InQueue, Reqs
    <3> HIDE DEF S
    <3>2. Cardinality(S) = IF S = {} THEN 0 ELSE 1
      BY <3>1, AtMostOne
    <3> QED BY <3>1, <3>2 DEF S
  <2>3. h = IF IsHeld(r) THEN 1 ELSE 0
    <3> DEFINE S == {t \in SolveThreads : held[t] = r}
    <3>1. (\A x, y \in S : x = y) /\ (S = {} <=> ~IsHeld(r))
      BY <2>1, ThreadAssumption DEF NoTwin, HeldOnce, IsHeld
    <3> HIDE DEF S
    <3>2. Cardinality(S) = IF S = {} THEN 0 ELSE 1
      BY <3>1, AtMostOne
    <3> QED BY <3>1, <3>2 DEF S
  <2>4. d = IF IsDrained(r) THEN 1 ELSE 0
    <3> DEFINE S == {i \in DOMAIN drained : drained[i].req = r}
    <3>1. (\A x, y \in S : x = y) /\ (S = {} <=> ~IsDrained(r))
      BY <2>1 DEF NoTwin, Distinct, IsDrained, Reqs
    <3> HIDE DEF S
    <3>2. Cardinality(S) = IF S = {} THEN 0 ELSE 1
      BY <3>1, AtMostOne
    <3> QED BY <3>1, <3>2 DEF S
  <2>5. o = IF IsHandedOver(r) THEN 1 ELSE 0
    <3> DEFINE S == {i \in DOMAIN completionQueue : completionQueue[i].req = r}
    <3>1. (\A x, y \in S : x = y) /\ (S = {} <=> ~IsHandedOver(r))
      BY <2>1 DEF NoTwin, Distinct, IsHandedOver, Reqs
    <3> HIDE DEF S
    <3>2. Cardinality(S) = IF S = {} THEN 0 ELSE 1
      BY <3>1, AtMostOne
    <3> QED BY <3>1, <3>2 DEF S
  <2>6. k = IF IsRunning(r) THEN 1 ELSE 0
    <3> DEFINE S == {c \in CompletionWorkers : task[c] # None /\ task[c].req = r}
    <3>1. (\A x, y \in S : x = y) /\ (S = {} <=> ~IsRunning(r))
      BY <2>1 DEF NoTwin, RunningOnce, IsRunning
    <3> HIDE DEF S
    <3>2. Cardinality(S) = IF S = {} THEN 0 ELSE 1
      BY <3>1, AtMostOne
    <3> QED BY <3>1, <3>2 DEF S
  <2>7. a = IF IsAnswered(r) THEN 1 ELSE 0
    BY <2>1, OneAnswer
  <2>8. Places(r) = q + h + d + o + k + a
    BY DEF Places
  <2> HIDE DEF q, h, d, o, k, a
  <2>9. q + h + d + o + k + a = IF r \in Accepted THEN 1 ELSE 0
    BY <2>1, <2>2, <2>3, <2>4, <2>5, <2>6, <2>7 DEF OnePlace
  <2> QED BY <2>8, <2>9
<1> QED BY <1>1, PlacesInvariance, PTL

\* Whatever status a callback hears is true of what the solver did.
THEOREM RepliesHonest == Spec => []HonestReply
<1>1. PInv => HonestReply
  <2> SUFFICES ASSUME PInv, NEW r \in Requests, NEW k \in DOMAIN replies[r]
               PROVE  CASE replies[r][k] \in {"kSucceeded", "kTimedOut"} -> runs[r] = 1
                        [] replies[r][k] = "kFailed" ->
                             runs[r] = 1 \/ (runs[r] = 0 /\ shuttingDown)
                        [] replies[r][k] = "kQueueWaitTimedOut" -> runs[r] = 0
    BY DEF HonestReply
  <2>1. Honest(r, replies[r][k])
    BY DEF PInv, StatusesSound, Sound
  <2>2. replies[r][k] \in Statuses
    BY LenProperties, ElementOfSeq DEF PInv, IInv, TypeOK
  <2> QED BY <2>1, <2>2 DEF Honest, Statuses, SolveStatuses
<1> QED BY <1>1, PlacesInvariance, PTL

\* A callback finds the end of its request stamped, except in the moment between
\* the destructor's hand-over and its stamp.
THEOREM RepliesStamped == Spec => []StampedBeforeReply
<1>1. PInv => StampedBeforeReply
  <2> SUFFICES ASSUME PInv, NEW r \in Requests, replies[r] # << >>
               PROVE  \/ r \in completedAt
                      \/ replies[r] = <<"kFailed">> /\ stamping = r
    BY DEF StampedBeforeReply
  <2>1. replies[r] = <<replies[r][1]>> /\ DOMAIN <<replies[r][1]>> = 1..1
    BY OneAnswer DEF PInv, IInv, IsAnswered
  <2>2. r \in completedAt \/ (replies[r][1] = "kFailed" /\ stamping = r)
    BY <2>1 DEF PInv, StatusesSound, Sound, Stamped
  <2> QED BY <2>1, <2>2
<1> QED BY <1>1, PlacesInvariance, PTL

\* When the destructor returns, every accepted request has had its one answer
\* and no thread, task or solve is left.
THEOREM ShutdownClean == Spec => []CleanShutdown
<1>1. PInv => CleanShutdown
  <2> SUFFICES ASSUME PInv, stage = "destroyed"
               PROVE  /\ \A r \in Accepted : Len(replies[r]) = 1
                      /\ active = 0 /\ queue = << >> /\ completionQueue = << >>
                      /\ \A t \in Threads : pc[t] = "exited"
    BY DEF CleanShutdown
  <2>1. /\ TypeOK /\ ShutdownDrained /\ SlotsCounted /\ BusyHold /\ NoTwin /\ OnePlace
        /\ Stages
    BY DEF PInv, IInv
  <2>2. \A t \in Threads : pc[t] = "exited"
    BY <2>1 DEF Stages, Threads
  <2>3. queue = << >> /\ drained = << >> /\ completionQueue = << >>
    BY <2>1, ThreadAssumption DEF Stages, ShutdownDrained
  <2>4. active = 0
    <3>1. Solving = {}
      BY <2>2, ThreadSets DEF Solving
    <3> QED BY <2>1, <3>1, FS_EmptySet DEF SlotsCounted
  <2>5. ASSUME NEW r \in Accepted PROVE Len(replies[r]) = 1
    <3>1. r \in Requests
      BY DEF Accepted
    <3>2. ~InQueue(r) /\ ~IsDrained(r) /\ ~IsHandedOver(r)
      BY <2>3, EmptySeq DEF InQueue, IsDrained, IsHandedOver, Reqs
    <3>3. ~IsHeld(r) /\ ~IsRunning(r)
      BY <2>1, <2>2, <3>1, ThreadSets, ThreadAssumption DEF IsHeld, IsRunning, BusyHold, Busy
    <3>4. IsAnswered(r)
      BY <2>1, <3>1, <3>2, <3>3 DEF OnePlace
    <3> QED BY <2>1, <3>1, <3>4, OneAnswer
  <2> QED BY <2>2, <2>3, <2>4, <2>5
<1> QED BY <1>1, PlacesInvariance, PTL

-----------------------------------------------------------------------------
(* SolveCoordinator implements SolveService.                               *)

\* A worker has request r in its solve, or has just taken it.
IsSolved(r) == \E w \in Solving : held[w] = r
IsDispatched(r) == \E w \in Workers : pc[w] = "dispatch" /\ held[w] = r

\* A request has its start stamp when its payload has run, or is about to.
StartedRuns == \A r \in Requests : r \in startedAt <=> runs[r] # 0 \/ IsDispatched(r)

RInv == PInv /\ StartedRuns

-----------------------------------------------------------------------------
(* The start stamp and the runs *)

\* The steps that no caller of the coordinator can tell from no step.
Unseen ==
  /\ UNCHANGED <<queue, held, replies, runs, shuttingDown, admission, startedAt>>
  /\ \A w \in Workers :
       pc[w] \in {"dispatch", "solving"} \/ pc'[w] \in {"dispatch", "solving"}
         => pc'[w] = pc[w]

Seen ==
  \/ \E r \in Requests, size \in RequestSizes :
       SubmitAccepted(r, size) \/ SubmitRejected(r, size)
  \/ \E w \in Workers :
       WorkerTake(w) \/ WorkerTakeExpired(w) \/ WorkerRun(w) \/ WorkerFinish(w)
  \/ \E t \in SolveThreads : Report(t)
  \/ TimerExpire
  \/ \E c \in CompletionWorkers : CompletionRun(c)
  \/ DestroyBegin

LEMMA SeenOrUnseen ==
  ASSUME TypeOK, [Next]_vars
  PROVE  Seen \/ Unseen
<1> USE ThreadSets
    DEF TypeOK, queueVars, completionVars, localVars, destructorVars, lifecycleVars,
        callerVars
<1>1. ASSUME NEW t \in SolveThreads, AwaitWork(t) \/ SpuriousWakeup(t) PROVE Unseen
  BY <1>1 DEF AwaitWork, SpuriousWakeup, Unseen
<1>2. ASSUME NEW t \in SolveThreads, ExitLoop(t) PROVE Unseen
  BY <1>2 DEF ExitLoop, Idle, Unseen
<1>3. ASSUME TimerWatch \/ TimerQueueChanged \/ TimerWatchAgain PROVE Unseen
  BY <1>3 DEF TimerWatch, TimerQueueChanged, TimerWatchAgain, TimerAwake, Idle, Unseen
<1>4. ASSUME NEW c \in CompletionWorkers,
             CompletionAwait(c) \/ CompletionTake(c) \/ CompletionExit(c)
      PROVE  Unseen
  BY <1>4 DEF CompletionAwait, CompletionTake, CompletionExit, CompletionIdle, Unseen
<1>5. ASSUME \/ Tick \/ DestroyAnnounce \/ DestroyFailQueued \/ DestroyStamp
             \/ DestroyCloseCompletions \/ DestroyFinish
      PROVE  Unseen
  BY <1>5 DEF Tick, DestroyAnnounce, DestroyFailQueued, DestroyStamp,
              DestroyCloseCompletions, DestroyFinish, Unseen
<1>6. ASSUME UNCHANGED vars PROVE Unseen
  BY <1>6 DEF vars, Unseen
<1> QED
  BY <1>1, <1>2, <1>3, <1>4, <1>5, <1>6, Zenon
  DEF Next, Submit, WorkerStep, TimerStep, CompletionStep, DestructorStep, Destroyed, Seen

\* A request on its way to a callback, or not accepted, is held by no worker.
LEMMA NotHeld ==
  ASSUME PInv, NEW r \in Requests, ~IsHeld(r)
  PROVE  ~IsSolved(r) /\ ~IsDispatched(r)
BY ThreadSets DEF IsHeld, IsSolved, IsDispatched, Solving

\* Every step keeps the stamp and the runs together.
LEMMA StartedRunsStep ==
  ASSUME PInv, StartedRuns, [Next]_vars
  PROVE  StartedRuns'
<1> USE DEF queueVars, completionVars, localVars, destructorVars, lifecycleVars, callerVars
<1>0. /\ TypeOK /\ WorkHeld /\ BusyHold /\ NoTwin /\ OnePlace /\ RunsCounted
      /\ Distinct(queue) /\ HeldOnce
  BY DEF PInv, IInv, NoTwin
<1>1. ASSUME NEW r \in Requests, NEW size \in RequestSizes, SubmitAccepted(r, size)
      PROVE  StartedRuns'
  <2>1. /\ r \notin Accepted /\ startedAt' = startedAt \ {r}
        /\ UNCHANGED <<pc, held, runs>>
    BY <1>1, NoneAssumption DEF SubmitAccepted, Accepted, AdmissionStatuses
  <2>2. runs[r] = 0 /\ ~IsDispatched(r)
    BY <1>0, <2>1, NotHeld DEF RunsCounted, OnePlace
  <2> QED BY <2>1, <2>2 DEF StartedRuns, IsDispatched
<1>2. ASSUME NEW w \in Workers, WorkerTake(w) PROVE StartedRuns'
  <2> DEFINE q == Head(queue).req
  <2>1. /\ w \in SolveThreads /\ pc[w] = "idle"
        /\ held' = [held EXCEPT ![w] = q] /\ pc' = [pc EXCEPT ![w] = "dispatch"]
        /\ startedAt' = startedAt \cup {q} /\ runs' = runs
    BY <1>2, ThreadSets DEF WorkerTake, Idle
  <2> HIDE DEF q
  <2>2. \A u \in Workers :
          /\ pc'[u] = IF u = w THEN "dispatch" ELSE pc[u]
          /\ held'[u] = IF u = w THEN q ELSE held[u]
    BY <1>0, <2>1, ThreadSets DEF TypeOK
  <2>3. \A r \in Requests : IsDispatched(r)' <=> IsDispatched(r) \/ r = q
    BY <2>1, <2>2 DEF IsDispatched
  <2> QED BY <2>1, <2>3 DEF StartedRuns
<1>3. ASSUME NEW w \in Workers, WorkerRun(w) PROVE StartedRuns'
  <2> DEFINE q == held[w]
  <2>1. /\ w \in SolveThreads /\ pc[w] = "dispatch" /\ pc' = [pc EXCEPT ![w] = "solving"]
        /\ runs' = [runs EXCEPT ![q] = runs[q] + 1] /\ q \in Requests /\ q # None
        /\ UNCHANGED <<held, startedAt>>
    BY <1>0, <1>3, ThreadSets, ThreadAssumption DEF WorkerRun, WorkHeld
  <2>2. \A u \in Workers : u # w => pc'[u] = pc[u] /\ held[u] # q
    BY <1>0, <2>1, ThreadSets DEF TypeOK, HeldOnce
  <2>3. pc'[w] = "solving"
    BY <1>0, <2>1, ThreadSets DEF TypeOK
  <2>4. q \in startedAt /\ runs'[q] # 0
    <3>1. IsDispatched(q)
      BY <2>1 DEF IsDispatched
    <3>2. runs[q] \in Nat /\ runs'[q] = runs[q] + 1
      BY <1>0, <2>1 DEF TypeOK
    <3> QED BY <2>1, <3>1, <3>2 DEF StartedRuns
  <2>5. ASSUME NEW r \in Requests, r # q
        PROVE  runs'[r] = runs[r] /\ (IsDispatched(r)' <=> IsDispatched(r))
    BY <1>0, <2>1, <2>2, <2>3, <2>5 DEF TypeOK, IsDispatched
  <2> QED BY <2>1, <2>4, <2>5 DEF StartedRuns
<1>4. ASSUME UNCHANGED <<startedAt, runs>>,
             \A w \in Workers : pc[w] = "dispatch" \/ pc'[w] = "dispatch" =>
                                  pc'[w] = pc[w] /\ held'[w] = held[w]
      PROVE  StartedRuns'
  BY <1>4 DEF StartedRuns, IsDispatched
<1>5. ASSUME \/ \E w \in Workers : WorkerTakeExpired(w) \/ WorkerFinish(w)
             \/ \E t \in SolveThreads : Report(t)
             \/ TimerExpire \/ (\E c \in CompletionWorkers : CompletionRun(c))
             \/ DestroyBegin \/ Unseen
             \/ \E r \in Requests, size \in RequestSizes : SubmitRejected(r, size)
      PROVE  StartedRuns'
  <2>1. UNCHANGED <<startedAt, runs>>
    BY <1>5 DEF WorkerTakeExpired, WorkerFinish, Report, TimerExpire, CompletionRun,
                DestroyBegin, Unseen, SubmitRejected
  <2> SUFFICES ASSUME NEW v \in Workers, pc[v] = "dispatch" \/ pc'[v] = "dispatch"
               PROVE  pc'[v] = pc[v] /\ held'[v] = held[v]
    BY <1>4, <2>1
  <2> USE <1>0, ThreadSets DEF TypeOK
  <2>2. ASSUME NEW w \in Workers, WorkerTakeExpired(w) \/ WorkerFinish(w)
        PROVE  pc'[v] = pc[v] /\ held'[v] = held[v]
    BY <2>2 DEF WorkerTakeExpired, WorkerFinish, Idle
  <2>3. ASSUME NEW t \in SolveThreads, Report(t)
        PROVE  pc'[v] = pc[v] /\ held'[v] = held[v]
    BY <2>3 DEF Report
  <2>4. ASSUME TimerExpire PROVE pc'[v] = pc[v] /\ held'[v] = held[v]
    BY <2>4 DEF TimerExpire
  <2>5. ASSUME NEW c \in CompletionWorkers, CompletionRun(c)
        PROVE  pc'[v] = pc[v] /\ held'[v] = held[v]
    BY <2>5 DEF CompletionRun
  <2>6. ASSUME DestroyBegin \/ Unseen PROVE pc'[v] = pc[v] /\ held'[v] = held[v]
    BY <2>6 DEF DestroyBegin, Unseen
  <2>7. ASSUME NEW r \in Requests, NEW size \in RequestSizes, SubmitRejected(r, size)
        PROVE  pc'[v] = pc[v] /\ held'[v] = held[v]
    BY <2>7 DEF SubmitRejected
  <2> QED BY <1>5, <2>2, <2>3, <2>4, <2>5, <2>6, <2>7, Zenon
<1> QED
  BY <1>0, <1>1, <1>2, <1>3, <1>5, SeenOrUnseen, Zenon DEF Seen

LEMMA RInvariance == Spec => []RInv
<1>1. Init => StartedRuns
  BY ThreadSets DEF Init, StartedRuns, IsDispatched
<1>2. RInv /\ [Next]_vars => RInv'
  BY PInvStep, StartedRunsStep DEF RInv
<1>3. RInv /\ UNCHANGED vars => RInv'
  BY <1>2
<1> QED BY <1>1, <1>2, InitPInv, PTL DEF Spec, RInv

-----------------------------------------------------------------------------
(* The phase of a request *)

\* What PhaseOf says, in the words of the places.
PhaseIs(r) ==
  /\ admission[r] = None => PhaseOf(r) = "new"
  /\ admission[r] = "kRejectedQueueFull" => PhaseOf(r) = "refused"
  /\ admission[r] \in {"kRejectedTooManyJobs", "kRejectedTooManyVehicles"} =>
       PhaseOf(r) = "oversized"
  /\ admission[r] = "kAccepted" =>
       /\ InQueue(r) => PhaseOf(r) = "waiting"
       /\ ~InQueue(r) /\ IsSolved(r) => PhaseOf(r) = "solving"
       /\ ~InQueue(r) /\ ~IsSolved(r) /\ IsAnswered(r) => PhaseOf(r) = "answered"
       /\ ~InQueue(r) /\ ~IsSolved(r) /\ ~IsAnswered(r) =>
            PhaseOf(r) = IF r \in startedAt THEN "solved" ELSE "unsolved"

LEMMA Phases ==
  ASSUME NEW r \in Requests
  PROVE  PhaseIs(r) /\ PhaseIs(r)'
<1>1. (InQueue(r) <=> Waiting(r)) /\ (InQueue(r) <=> Waiting(r))'
  BY DEF InQueue, Reqs, Waiting
<1>2. /\ None # "kAccepted" /\ None # "kRejectedQueueFull"
      /\ None # "kRejectedTooManyJobs" /\ None # "kRejectedTooManyVehicles"
  BY NoneAssumption DEF AdmissionStatuses
<1>3. PhaseIs(r)
  BY <1>1, <1>2 DEF PhaseIs, PhaseOf, IsSolved, IsAnswered
<1>4. PhaseIs(r)'
  BY <1>1, <1>2 DEF PhaseIs, PhaseOf, IsSolved, IsAnswered
<1> QED BY <1>3, <1>4

\* A step that leaves alone what the phase of a request is made of.
Untouched(r) ==
  /\ admission'[r] = admission[r] /\ replies'[r] = replies[r]
  /\ (InQueue(r)' <=> InQueue(r)) /\ (IsSolved(r)' <=> IsSolved(r))
  /\ r \in startedAt' <=> r \in startedAt

LEMMA PhaseKept ==
  ASSUME NEW r \in Requests, Untouched(r)
  PROVE  PhaseOf(r)' = PhaseOf(r)
<1>1. (InQueue(r) <=> Waiting(r)) /\ (InQueue(r)' <=> Waiting(r)')
  BY DEF InQueue, Reqs, Waiting
<1>2. (Waiting(r)' <=> Waiting(r)) /\ (IsSolved(r)' <=> IsSolved(r))
  BY <1>1 DEF Untouched
<1> QED BY <1>2 DEF Untouched, PhaseOf, IsSolved

\* The mapping.
Phase == [r \in Requests |-> PhaseOf(r)]
Reply == [r \in Requests |->
            IF replies[r] = << >> THEN "none" ELSE replies[r][Len(replies[r])]]

\* A step that moves one request, answers none and closes nothing.
LEMMA OneMoves ==
  ASSUME NEW r \in Requests, NEW from, NEW to, PhaseOf(r) = from, PhaseOf(r)' = to,
         \A q \in Requests \ {r} : Untouched(q), UNCHANGED <<replies, shuttingDown>>
  PROVE  Service!Move(r, from, to) /\ Reply' = Reply /\ (~shuttingDown)' = ~shuttingDown
<1>1. \A q \in Requests : PhaseOf(q)' = IF q = r THEN to ELSE PhaseOf(q)
  BY PhaseKept
<1>2. Phase' = [Phase EXCEPT ![r] = to] /\ Phase[r] = from
  BY <1>1 DEF Phase
<1> QED BY <1>2 DEF Service!Move, Phase, Reply

-----------------------------------------------------------------------------
(* The load of the service *)

\* What is once the image of every element of S has as many elements as S.
LEMMA ImageOnce ==
  ASSUME NEW S, NEW T, IsFiniteSet(S), NEW f \in [S -> T],
         \A x, y \in S : f[x] = f[y] => x = y,
         \A z \in T : \E x \in S : f[x] = z
  PROVE  IsFiniteSet(T) /\ Cardinality(T) = Cardinality(S)
<1>1. f \in Surjection(S, T) /\ f \in Injection(S, T)
  BY DEF Surjection, Injection, IsInjective
<1> QED BY <1>1, FS_Surjection

\* The phases the load is made of.
LEMMA LoadPhases ==
  ASSUME RInv, NEW r \in Requests
  PROVE  /\ PhaseOf(r) = "waiting" <=> InQueue(r)
         /\ PhaseOf(r) = "solving" <=> IsSolved(r)
         /\ ~(InQueue(r) /\ IsSolved(r))
<1>1. TypeOK /\ OnePlace
  BY DEF RInv, PInv, IInv
<1>2. InQueue(r) \/ IsSolved(r) => admission[r] = "kAccepted"
  BY <1>1, NotHeld DEF RInv, OnePlace, Accepted
<1>3. ~(InQueue(r) /\ IsSolved(r))
  BY <1>1, NotHeld DEF RInv, OnePlace
<1>4. admission[r] \in AdmissionStatuses \cup {None}
  BY <1>1 DEF TypeOK
<1> QED BY <1>2, <1>3, <1>4, Phases DEF PhaseIs, AdmissionStatuses

\* SolveService counts as the library does.
LEMMA SameCardinality == \A S : Service!Cardinality(S) = Cardinality(S)
BY DEF Service!Cardinality, Cardinality

\* active_solves_ and the queue are the load SolveService counts.
LEMMA Load ==
  ASSUME RInv
  PROVE  /\ Service!Outstanding = active + Len(queue)
         /\ Cardinality(Service!In("solving")) = active
         /\ active \in Nat /\ Len(queue) \in Nat
<1> DEFINE W == Service!In("waiting")
           S == Service!In("solving")
<1>0. /\ TypeOK /\ WorkHeld /\ SlotsCounted /\ OnePlace /\ Distinct(queue) /\ HeldOnce
      /\ active \in Nat
  BY DEF RInv, PInv, IInv, NoTwin, TypeOK
<1>1. /\ Len(queue) \in Nat /\ DOMAIN queue = 1..Len(queue)
      /\ \A i \in DOMAIN queue : queue[i].req \in Requests
  <2>1. queue \in Seq(QueuedSolveRequest)
    BY <1>0 DEF TypeOK
  <2>2. Len(queue) \in Nat /\ DOMAIN queue = 1..Len(queue)
    BY <2>1, LenProperties
  <2>3. \A i \in 1..Len(queue) : queue[i] \in QueuedSolveRequest
    BY <2>1, ElementOfSeq
  <2> QED BY <2>2, <2>3 DEF QueuedSolveRequest
<1>3. W = Reqs(queue)
  BY <1>1, LoadPhases DEF Service!In, InQueue, Reqs
<1>4. IsFiniteSet(W) /\ Cardinality(W) = Len(queue)
  <2> DEFINE f == [i \in 1..Len(queue) |-> queue[i].req]
  <2>1. /\ f \in [1..Len(queue) -> W]
        /\ \A i, j \in 1..Len(queue) : f[i] = f[j] => i = j
        /\ \A r \in W : \E i \in 1..Len(queue) : f[i] = r
    BY <1>0, <1>1, <1>3 DEF Distinct, Reqs
  <2> HIDE DEF f, W
  <2>2. IsFiniteSet(1..Len(queue)) /\ Cardinality(1..Len(queue)) = Len(queue)
    BY <1>1, FS_Interval
  <2>3. IsFiniteSet(W) /\ Cardinality(W) = Cardinality(1..Len(queue))
    BY <2>1, <2>2, ImageOnce
  <2> QED BY <2>2, <2>3
<1>5. S = {held[w] : w \in Solving}
  <2>1. \A w \in Solving : held[w] \in Requests
    BY <1>0, ThreadSets DEF WorkHeld, Solving
  <2> QED BY <2>1, LoadPhases DEF Service!In, IsSolved
<1>6. IsFiniteSet(S) /\ Cardinality(S) = active
  <2> DEFINE f == [w \in Solving |-> held[w]]
  <2>1. \A w \in Solving : w \in SolveThreads /\ held[w] # None
    BY <1>0, ThreadSets, ThreadAssumption DEF Solving, WorkHeld
  <2>2. /\ f \in [Solving -> S]
        /\ \A v, w \in Solving : f[v] = f[w] => v = w
        /\ \A r \in S : \E w \in Solving : f[w] = r
    BY <1>0, <1>5, <2>1 DEF HeldOnce
  <2> HIDE DEF f, S
  <2>3. IsFiniteSet(Solving)
    BY ThreadAssumption, FS_Subset DEF Solving
  <2>4. IsFiniteSet(S) /\ Cardinality(S) = Cardinality(Solving)
    BY <2>2, <2>3, ImageOnce
  <2> QED BY <1>0, <2>4 DEF SlotsCounted
<1>7. W \cap S = {}
  BY LoadPhases DEF Service!In
<1>8. Service!Outstanding = Cardinality(W \cup S)
  BY SameCardinality DEF Service!Outstanding
<1> HIDE DEF W, S
<1>9. Cardinality(W \cup S) = Cardinality(W) + Cardinality(S) - Cardinality({})
  BY <1>4, <1>6, <1>7, FS_Union
<1>10. Cardinality({}) = 0
  BY FS_EmptySet
<1>11. Cardinality(W \cup S) = active + Len(queue)
  BY <1>0, <1>1, <1>4, <1>6, <1>9, <1>10
<1> QED BY <1>0, <1>1, <1>6, <1>8, <1>11 DEF S

-----------------------------------------------------------------------------
(* Every step is a step of SolveService *)

\* CheckAdmission calls the queue full only when it is, or at shutdown.
LEMMA FullIsFull ==
  ASSUME TypeOK, NEW size \in RequestSizes, CheckAdmission(size) = "kRejectedQueueFull"
  PROVE  shuttingDown \/ active + Len(queue) >= MaxConcurrency + MaxQueueSize
<1> SUFFICES ASSUME ~shuttingDown
             PROVE  active + Len(queue) >= MaxConcurrency + MaxQueueSize
  OBVIOUS
<1>1. active \in Nat /\ Len(queue) \in Nat /\ size \in [jobs : Nat, vehicles : Nat]
  BY AdmissionConfig, LenProperties DEF TypeOK
<1>2. EvaluateSolveAdmission(size, active, Len(queue)) = "kRejectedQueueFull"
  BY DEF CheckAdmission
<1>3. size.jobs <= MaxSyncJobs /\ size.vehicles <= MaxSyncVehicles
  BY <1>1, <1>2, AdmissionConfig DEF EvaluateSolveAdmission
<1> QED BY <1>1, <1>2, <1>3, AdmissionIsCapacity, AdmissionConfig

LEMMA SubmitRefines ==
  ASSUME RInv, NEW r \in Requests, NEW size \in RequestSizes,
         SubmitAccepted(r, size) \/ SubmitRejected(r, size)
  PROVE  Service!Next
<1> USE DEF queueVars, completionVars, localVars, destructorVars, lifecycleVars, callerVars
<1>0. TypeOK /\ OnePlace /\ PhaseOf(r) = "new"
  BY Phases DEF RInv, PInv, IInv, PhaseIs, SubmitAccepted, SubmitRejected
<1>1. CASE SubmitAccepted(r, size)
  <2>1. /\ \A q \in Requests : admission'[q] = IF q = r THEN "kAccepted" ELSE admission[q]
        /\ startedAt' = startedAt \ {r}
        /\ UNCHANGED <<pc, held, replies, shuttingDown>>
    BY <1>0, <1>1 DEF SubmitAccepted, TypeOK
  <2>2. PICK e : queue' = Append(queue, e) /\ e.req = r
    BY <1>1 DEF SubmitAccepted
  <2>3. Reqs(queue') = Reqs(queue) \cup {r}
    BY <1>0, <2>2, AppendReqs DEF TypeOK
  <2>4. PhaseOf(r)' = "waiting"
    BY <2>1, <2>3, Phases DEF PhaseIs, InQueue
  <2>5. \A q \in Requests \ {r} : Untouched(q)
    BY <2>1, <2>3 DEF Untouched, InQueue, IsSolved, Solving
  <2>6. /\ Service!Move(r, "new", "waiting") /\ Reply' = Reply
        /\ (~shuttingDown)' = ~shuttingDown
    BY <1>0, <2>1, <2>4, <2>5, OneMoves
  <2>7. ~shuttingDown /\ active + Len(queue) < MaxConcurrency + MaxQueueSize
    BY <1>0, <1>1, CheckAdmissionFacts DEF SubmitAccepted
  <2>8. Service!Accept(r)
    BY <2>6, <2>7, Load DEF Service!Accept, Reply
  <2> QED BY <2>8 DEF Service!Next
<1>2. CASE SubmitRejected(r, size)
  <2> DEFINE status == CheckAdmission(size)
  <2>1. /\ status \in AdmissionStatuses \ {"kAccepted"}
        /\ \A q \in Requests : admission'[q] = IF q = r THEN status ELSE admission[q]
        /\ UNCHANGED <<pc, held, replies, shuttingDown, queue, startedAt>>
    BY <1>0, <1>2, CheckAdmissionFacts DEF SubmitRejected, TypeOK
  <2> HIDE DEF status
  <2>2. \A q \in Requests \ {r} : Untouched(q)
    BY <2>1 DEF Untouched, InQueue, IsSolved, Solving
  <2>3. CASE status = "kRejectedQueueFull"
    <3>1. PhaseOf(r)' = "refused"
      BY <2>1, <2>3, Phases DEF PhaseIs
    <3>2. /\ Service!Move(r, "new", "refused") /\ Reply' = Reply
          /\ (~shuttingDown)' = ~shuttingDown
      BY <1>0, <2>1, <2>2, <3>1, OneMoves
    <3>3. shuttingDown \/ active + Len(queue) >= MaxConcurrency + MaxQueueSize
      BY <1>0, <2>3, FullIsFull DEF status
    <3>4. Service!RejectFull(r)
      BY <3>2, <3>3, Load DEF Service!RejectFull, Reply
    <3> QED BY <3>4 DEF Service!Next
  <2>4. CASE status \in {"kRejectedTooManyJobs", "kRejectedTooManyVehicles"}
    <3>1. PhaseOf(r)' = "oversized"
      BY <2>1, <2>4, Phases DEF PhaseIs
    <3>2. /\ Service!Move(r, "new", "oversized") /\ Reply' = Reply
          /\ (~shuttingDown)' = ~shuttingDown
      BY <1>0, <2>1, <2>2, <3>1, OneMoves
    <3>3. Service!RejectSize(r)
      BY <3>2 DEF Service!RejectSize, Reply
    <3> QED BY <3>3 DEF Service!Next
  <2> QED BY <2>1, <2>3, <2>4 DEF AdmissionStatuses
<1> QED BY <1>1, <1>2

\* A queued request was never started, solved or answered.
LEMMA QueuedFacts ==
  ASSUME RInv, NEW r \in Requests, InQueue(r)
  PROVE  /\ admission[r] = "kAccepted" /\ PhaseOf(r) = "waiting"
         /\ ~IsHeld(r) /\ ~IsSolved(r) /\ ~IsAnswered(r) /\ r \notin startedAt
<1>1. r \in Accepted /\ ~IsHeld(r) /\ ~IsAnswered(r) /\ runs[r] = 0
  BY DEF RInv, PInv, OnePlace, RunsCounted
<1>2. ~IsSolved(r) /\ ~IsDispatched(r)
  BY <1>1, NotHeld DEF RInv
<1>3. r \notin startedAt
  BY <1>1, <1>2 DEF RInv, StartedRuns
<1> QED BY <1>1, <1>2, <1>3, Phases DEF Accepted, PhaseIs

LEMMA TakeRefines ==
  ASSUME RInv, NEW w \in Workers, WorkerTake(w)
  PROVE  Service!Next
<1> USE DEF queueVars, completionVars, localVars, destructorVars, lifecycleVars, callerVars
<1>0. TypeOK /\ Distinct(queue) /\ SlotsCounted
  BY DEF RInv, PInv, IInv, NoTwin
<1> PICK r \in Requests : r = Head(queue).req
  BY <1>0, QueueHead DEF WorkerTake, QueuedSolveRequest
<1>1. /\ queue # << >> /\ queue' = Tail(queue) /\ pc[w] = "idle"
      /\ startedAt' = startedAt \cup {r}
      /\ UNCHANGED <<admission, replies, shuttingDown>>
  BY DEF WorkerTake, Idle
<1>2. /\ InQueue(r)
      /\ \A q \in Requests : InQueue(q)' <=> InQueue(q) /\ q # r
  BY <1>0, <1>1, HeadLeaves
<1>3. \A v \in Workers : /\ pc'[v] = IF v = w THEN "dispatch" ELSE pc[v]
                         /\ held'[v] = IF v = w THEN r ELSE held[v]
  BY <1>0, ThreadSets DEF WorkerTake, TypeOK
<1>4. \A q \in Requests : IsSolved(q)' <=> IsSolved(q) \/ q = r
  BY <1>1, <1>3 DEF IsSolved, Solving
<1>5. PhaseOf(r) = "waiting" /\ PhaseOf(r)' = "solving"
  BY <1>1, <1>2, <1>4, QueuedFacts, Phases DEF PhaseIs
<1>6. \A q \in Requests \ {r} : Untouched(q)
  BY <1>1, <1>2, <1>4 DEF Untouched
<1>7. /\ Service!Move(r, "waiting", "solving") /\ Reply' = Reply
      /\ (~shuttingDown)' = ~shuttingDown
  BY <1>1, <1>2, <1>5, <1>6, OneMoves
<1>8. active < MaxConcurrency
  <2>1. Solving \in SUBSET Workers /\ Solving # Workers
    BY <1>1 DEF Solving
  <2>2. /\ Cardinality(Solving) <= Cardinality(Workers)
        /\ Cardinality(Solving) # Cardinality(Workers)
    BY <2>1, ThreadAssumption, FS_Subset
  <2> QED BY <1>0, <2>2, ThreadAssumption, AdmissionConfig DEF SlotsCounted, TypeOK
<1>9. Service!Start(r)
  BY <1>7, <1>8, Load, SameCardinality DEF Service!Start, Reply
<1> QED BY <1>2, <1>9 DEF Service!Next

\* A request leaves the queue unsolved: a worker or the timer found it expired.
LEMMA ExpireRefines ==
  ASSUME RInv, TimerExpire \/ \E w \in Workers : WorkerTakeExpired(w)
  PROVE  Service!Next
<1> USE DEF queueVars, completionVars, localVars, destructorVars, lifecycleVars, callerVars
<1>0. TypeOK /\ Distinct(queue) /\ queue # << >>
  BY DEF RInv, PInv, IInv, NoTwin, TimerExpire, QueueChanged, WorkerTakeExpired
<1>1. \E r \in Requests :
        InQueue(r) /\ \A q \in Requests : InQueue(q)' <=> InQueue(q) /\ q # r
  <2>1. CASE TimerExpire
    <3>1. queue' = RemoveAt(queue, EarliestIndex)
      BY <2>1 DEF TimerExpire
    <3> QED BY <1>0, <3>1, EarliestLeaves
  <2>2. ASSUME NEW w \in Workers, WorkerTakeExpired(w)
        PROVE  \E r \in Requests :
                 InQueue(r) /\ \A q \in Requests : InQueue(q)' <=> InQueue(q) /\ q # r
    <3>1. queue' = Tail(queue)
      BY <2>2 DEF WorkerTakeExpired
    <3> QED BY <1>0, <3>1, HeadLeaves
  <2> QED BY <2>1, <2>2
<1>2. UNCHANGED <<admission, replies, shuttingDown, startedAt>>
  BY DEF TimerExpire, WorkerTakeExpired
<1>3. Solving' = Solving /\ \A w \in Solving : held'[w] = held[w]
  <2>1. CASE TimerExpire
    BY <1>0, <2>1, ThreadSets DEF TimerExpire, TypeOK, Solving
  <2>2. ASSUME NEW w \in Workers, WorkerTakeExpired(w)
        PROVE  Solving' = Solving /\ \A v \in Solving : held'[v] = held[v]
    <3>1. /\ pc[w] = "idle"
          /\ \A v \in Workers : /\ pc'[v] = IF v = w THEN "report" ELSE pc[v]
                                /\ v # w => held'[v] = held[v]
      BY <1>0, <2>2, ThreadSets DEF WorkerTakeExpired, Idle, TypeOK
    <3> QED BY <3>1 DEF Solving
  <2> QED BY <2>1, <2>2
<1> PICK r \in Requests :
      InQueue(r) /\ \A q \in Requests : InQueue(q)' <=> InQueue(q) /\ q # r
  BY <1>1
<1>4. \A q \in Requests : IsSolved(q)' <=> IsSolved(q)
  BY <1>3 DEF IsSolved
<1>5. PhaseOf(r) = "waiting" /\ PhaseOf(r)' = "unsolved"
  <2>1. ~IsSolved(r)' /\ ~IsAnswered(r)' /\ r \notin startedAt' /\ admission'[r] = "kAccepted"
    BY <1>2, <1>4, QueuedFacts DEF IsAnswered
  <2> QED BY <2>1, QueuedFacts, Phases DEF PhaseIs
<1>6. \A q \in Requests \ {r} : Untouched(q)
  BY <1>2, <1>4 DEF Untouched
<1>7. /\ Service!Move(r, "waiting", "unsolved") /\ Reply' = Reply
      /\ (~shuttingDown)' = ~shuttingDown
  BY <1>2, <1>5, <1>6, OneMoves
<1>8. Service!Expire(r)
  BY <1>7 DEF Service!Expire, Reply
<1> QED BY <1>8 DEF Service!Next

LEMMA FinishRefines ==
  ASSUME RInv, NEW w \in Workers, WorkerFinish(w)
  PROVE  Service!Next
<1> USE DEF queueVars, completionVars, localVars, destructorVars, lifecycleVars, callerVars
<1>0. TypeOK /\ WorkHeld /\ HeldOnce /\ OnePlace /\ RunsCounted
  BY DEF RInv, PInv, IInv, NoTwin
<1> PICK r \in Requests : r = held[w]
  BY <1>0, ThreadSets DEF WorkerFinish, WorkHeld
<1>1. /\ w \in SolveThreads /\ pc[w] = "solving" /\ r # None
      /\ UNCHANGED <<queue, held, startedAt, admission, replies, shuttingDown>>
  BY <1>0, ThreadSets, ThreadAssumption DEF WorkerFinish, WorkHeld
<1>2. \A v \in Workers : pc'[v] = IF v = w THEN "report" ELSE pc[v]
  BY <1>0, ThreadSets DEF WorkerFinish, TypeOK
<1>3. \A v \in Workers : held[v] = r => v = w
  BY <1>0, <1>1, ThreadSets DEF HeldOnce
<1>4. r \in startedAt /\ r \in Accepted /\ ~InQueue(r) /\ ~IsAnswered(r)
  <2>1. IsHeld(r) /\ runs[r] = 1
    BY <1>0, <1>1 DEF IsHeld, RunsCounted
  <2> QED BY <1>0, <1>1, <2>1 DEF OnePlace, RInv, StartedRuns
<1>5. IsSolved(r)
  BY <1>1 DEF IsSolved, Solving
<1>6. \A q \in Requests : IsSolved(q)' <=> IsSolved(q) /\ q # r
  BY <1>1, <1>2, <1>3 DEF IsSolved, Solving
<1>7. PhaseOf(r) = "solving" /\ PhaseOf(r)' = "solved"
  <2>1. /\ ~InQueue(r)' /\ ~IsSolved(r)' /\ ~IsAnswered(r)' /\ r \in startedAt'
        /\ admission'[r] = "kAccepted" /\ admission[r] = "kAccepted"
    BY <1>1, <1>4, <1>6 DEF InQueue, IsAnswered, Accepted
  <2> QED BY <1>1, <1>4, <1>5, <2>1, Phases DEF PhaseIs
<1>8. \A q \in Requests \ {r} : Untouched(q)
  BY <1>1, <1>6 DEF Untouched, InQueue
<1>9. /\ Service!Move(r, "solving", "solved") /\ Reply' = Reply
      /\ (~shuttingDown)' = ~shuttingDown
  BY <1>1, <1>7, <1>8, OneMoves
<1>10. Service!Finish(r)
  BY <1>9 DEF Service!Finish, Reply
<1> QED BY <1>1, <1>10 DEF Service!Next

LEMMA AnswerRefines ==
  ASSUME RInv, NEW c \in CompletionWorkers, CompletionRun(c)
  PROVE  Service!Next
<1> USE DEF queueVars, completionVars, localVars, destructorVars, lifecycleVars, callerVars
<1>0. TypeOK /\ BusyHold /\ OnePlace /\ StatusesSound /\ StartedRuns /\ PInv
  BY DEF RInv, PInv, IInv
<1>1. task[c] # None /\ task[c] \in CompletionTask
  BY <1>0 DEF CompletionRun, BusyHold, TypeOK
<1> PICK r \in Requests, status \in Statuses : r = task[c].req /\ status = task[c].status
  BY <1>1 DEF CompletionTask
<1>2. IsRunning(r) /\ Honest(r, status)
  BY <1>0, <1>1 DEF IsRunning, StatusesSound, Sound
<1>3. /\ UNCHANGED <<queue, held, startedAt, admission, shuttingDown>>
      /\ Solving' = Solving
  BY <1>0, ThreadSets DEF CompletionRun, TypeOK, Solving
<1>4. r \in Accepted /\ ~InQueue(r) /\ ~IsHeld(r) /\ ~IsAnswered(r)
  BY <1>0, <1>2 DEF OnePlace
<1>5. \A q \in Requests : replies'[q] = IF q = r THEN <<status>> ELSE replies[q]
  <2>1. replies[r] = << >>
    BY <1>4 DEF IsAnswered
  <2> QED BY <1>0, <1>2, <2>1 DEF CompletionRun, TypeOK
<1>6. ~IsSolved(r) /\ (r \in startedAt <=> runs[r] # 0)
  BY <1>0, <1>2, <1>4, NotHeld DEF StartedRuns
<1>7. \A q \in Requests : (IsSolved(q)' <=> IsSolved(q)) /\ (InQueue(q)' <=> InQueue(q))
  BY <1>3 DEF IsSolved, InQueue
<1>8. <<status>> # << >> /\ <<status>>[Len(<<status>>)] = status
  OBVIOUS
<1>9. /\ PhaseOf(r) = IF r \in startedAt THEN "solved" ELSE "unsolved"
      /\ PhaseOf(r)' = "answered"
  <2>1. admission[r] = "kAccepted" /\ admission'[r] = "kAccepted" /\ IsAnswered(r)'
    BY <1>2, <1>3, <1>4, <1>5, <1>8 DEF Accepted, IsAnswered
  <2> QED BY <1>2, <1>4, <1>6, <1>7, <2>1, Phases DEF PhaseIs
<1>10. \A q \in Requests : PhaseOf(q)' = IF q = r THEN "answered" ELSE PhaseOf(q)
  <2>1. \A q \in Requests \ {r} : Untouched(q)
    BY <1>3, <1>5, <1>7 DEF Untouched
  <2> QED BY <1>9, <2>1, PhaseKept
<1>11. Phase' = [Phase EXCEPT ![r] = "answered"] /\ Phase[r] = PhaseOf(r)
  BY <1>2, <1>10 DEF Phase
<1>12. Reply' = [Reply EXCEPT ![r] = status]
  BY <1>2, <1>5, <1>8 DEF Reply
<1>13. \/ PhaseOf(r) = "solved" /\ status \in {"kSucceeded", "kFailed", "kTimedOut"}
       \/ /\ PhaseOf(r) = "unsolved"
          /\ status = "kQueueWaitTimedOut" \/ (status = "kFailed" /\ shuttingDown)
  BY <1>2, <1>6, <1>9 DEF Honest, Statuses, SolveStatuses
<1>14. Service!Answer(r, status)
  BY <1>3, <1>11, <1>12, <1>13 DEF Service!Answer, Service!Move, Phase, Reply
<1> QED BY <1>2, <1>14 DEF Service!Next, Statuses, SolveStatuses

LEMMA CloseRefines ==
  ASSUME RInv, DestroyBegin
  PROVE  Service!Next
<1>0. OnePlace /\ ShutdownDrained
  BY DEF RInv, PInv, IInv
<1>1. /\ ~shuttingDown /\ shuttingDown' /\ queue' = << >>
      /\ UNCHANGED <<pc, held, startedAt, admission, replies>>
  BY <1>0 DEF DestroyBegin, ShutdownDrained, localVars, lifecycleVars, callerVars
<1>2. \A q \in Requests : ~InQueue(q)' /\ (IsSolved(q)' <=> IsSolved(q))
  BY <1>1, EmptySeq DEF InQueue, Reqs, IsSolved, Solving
<1>3. ASSUME NEW q \in Requests
      PROVE  PhaseOf(q)' = IF PhaseOf(q) = "waiting" THEN "unsolved" ELSE PhaseOf(q)
  <2>1. CASE InQueue(q)
    <3>1. /\ ~IsSolved(q)' /\ ~IsAnswered(q)' /\ q \notin startedAt'
          /\ admission'[q] = "kAccepted"
      BY <1>1, <1>2, <2>1, QueuedFacts DEF IsAnswered
    <3> QED BY <1>2, <2>1, <3>1, QueuedFacts, Phases DEF PhaseIs
  <2>2. CASE ~InQueue(q)
    <3>1. PhaseOf(q) # "waiting"
      BY <2>2, LoadPhases
    <3>2. Untouched(q)
      BY <1>1, <1>2, <2>2 DEF Untouched
    <3> QED BY <3>1, <3>2, PhaseKept
  <2> QED BY <2>1, <2>2
<1>4. /\ Phase' = [q \in Requests |->
                     IF Phase[q] = "waiting" THEN "unsolved" ELSE Phase[q]]
      /\ Reply' = Reply
  BY <1>1, <1>3 DEF Phase, Reply
<1>5. Service!Close
  BY <1>1, <1>4 DEF Service!Close, Phase, Reply
<1> QED BY <1>5 DEF Service!Next

\* The steps SolveService does not see.
LEMMA OthersStutter ==
  ASSUME RInv,
         \/ Unseen \/ (\E w \in Workers : WorkerRun(w))
         \/ \E t \in SolveThreads : Report(t)
  PROVE  UNCHANGED Service!vars
<1> USE DEF queueVars, completionVars, localVars, destructorVars, lifecycleVars, callerVars
<1>0. TypeOK
  BY DEF RInv, PInv, IInv
<1>1. UNCHANGED <<queue, startedAt, admission, replies, shuttingDown>>
  BY DEF Unseen, WorkerRun, Report
<1>2. Solving' = Solving /\ \A w \in Solving : held'[w] = held[w]
  <2>1. CASE Unseen
    BY <2>1 DEF Unseen, Solving
  <2>2. ASSUME NEW w \in Workers, WorkerRun(w)
        PROVE  Solving' = Solving /\ \A v \in Solving : held'[v] = held[v]
    BY <1>0, <2>2, ThreadSets DEF WorkerRun, TypeOK, Solving
  <2>3. ASSUME NEW t \in SolveThreads, Report(t)
        PROVE  Solving' = Solving /\ \A v \in Solving : held'[v] = held[v]
    BY <1>0, <2>3, ThreadSets DEF Report, TypeOK, Solving
  <2> QED BY <2>1, <2>2, <2>3
<1>3. \A q \in Requests : Untouched(q)
  BY <1>1, <1>2 DEF Untouched, InQueue, IsSolved
<1>4. Phase' = Phase /\ Reply' = Reply
  BY <1>1, <1>3, PhaseKept DEF Phase, Reply
<1> QED BY <1>1, <1>4 DEF Service!vars, Phase, Reply

-----------------------------------------------------------------------------
(* The theorem *)

\* For any number of requests, workers and completion workers, any queue size
\* and any queue wait, whatever the threads and the destructor do, a caller sees
\* only what SolveService allows: at most Capacity requests outstanding, each
\* accepted one started at most once and answered once, truthfully.
THEOREM CoordinatorImplementsService == Spec => ImplementsService
<1>1. Init => Service!Init
  <2> SUFFICES ASSUME Init PROVE Service!Init
    OBVIOUS
  <2>1. \A r \in Requests : PhaseOf(r) = "new"
    BY Phases DEF Init, PhaseIs
  <2> QED BY <2>1 DEF Init, Service!Init, Service!NoReply
<1>2. RInv /\ [Next]_vars => [Service!Next]_(Service!vars)
  <2> SUFFICES ASSUME RInv, [Next]_vars PROVE Service!Next \/ UNCHANGED Service!vars
    OBVIOUS
  <2>1. TypeOK
    BY DEF RInv, PInv, IInv
  <2> QED
    BY <2>1, SeenOrUnseen, SubmitRefines, TakeRefines, ExpireRefines, FinishRefines,
       AnswerRefines, CloseRefines, OthersStutter, Zenon
    DEF Seen
<1> QED BY RInvariance, <1>1, <1>2, PTL DEF Spec, ImplementsService, Service!Spec
=============================================================================
