-------------------------- MODULE SolveCoordinator --------------------------
(***************************************************************************)
(* SolveCoordinator (app/api/src/solve_coordinator.cpp): a bounded queue of *)
(* solve requests served by MaxConcurrency solver workers, a timer thread   *)
(* that expires requests which waited too long, a pool of completion        *)
(* workers that run the callers' callbacks, and a destructor that may run   *)
(* while all of them are busy.                                              *)
(*                                                                          *)
(* A step is a critical section of mutex_ or completion_mutex_, or the code *)
(* between two of them.  condition_.notify_all(), which the code calls      *)
(* after it has unlocked mutex_, belongs to the NEXT step of the same       *)
(* thread, so every other thread may run between the change and its         *)
(* notification.  Waiting threads are explicit (`waiting`), so a missing    *)
(* notification would leave a thread asleep.                                *)
(***************************************************************************)
EXTENDS SolveAdmission, Sequences, FiniteSets, SequencesExt

CONSTANTS
  Requests,            \* the Submit calls of the run, each made at most once
  Workers,             \* the solver threads (workers_)
  Timer,               \* the queue timer thread (queue_timer_)
  CompletionWorkers,   \* the callback threads (completion_workers_)
  None                 \* no request, no task, no status

SolveThreads == Workers \cup {Timer}
Threads == SolveThreads \cup CompletionWorkers

ASSUME ThreadAssumption ==
  /\ IsFiniteSet(Workers)
  /\ Cardinality(Workers) = MaxConcurrency
  /\ IsFiniteSet(CompletionWorkers)
  /\ CompletionWorkers # {}
  /\ Timer \notin Workers \cup CompletionWorkers
  /\ Workers \cap CompletionWorkers = {}
  /\ None \notin Requests

SolveStatuses == {"kSucceeded", "kFailed", "kTimedOut"}
Statuses == SolveStatuses \cup {"kQueueWaitTimedOut"}

QueuedSolveRequest ==
  [req : Requests, deadline : 0..Forever, immediate : BOOLEAN]
CompletionTask == [req : Requests, status : Statuses]

ASSUME NoneAssumption == None \notin CompletionTask /\ None \notin AdmissionStatuses

VARIABLES
  \* guarded by mutex_
  queue, active, queueVersion, shuttingDown,
  waiting,                   \* threads blocked on condition_
  \* guarded by completion_mutex_
  completionQueue, completionShuttingDown,
  completionWaiting,         \* threads blocked on completion_condition_
  \* locals of the threads
  pc,                        \* where each thread is in its loop
  held,                      \* the request a solver thread or the timer took
  result,                    \* the status it is about to report
  task,                      \* the task a completion worker took
  watched,                   \* the timer's watched version and deadline
  stage,                     \* where the destructor is
  drained,                   \* the destructor's drained_queue
  stamping,                  \* drained request enqueued, lifecycle not yet written
  lastActive,                \* the destructor's copy of active_solves_
  \* shared with the callers and with the metrics endpoint
  startedAt, completedAt,    \* requests whose lifecycle has that time stamp
  gauge,                     \* ObservabilityRegistry::SetSolverState
  admission,                 \* what Submit returned, per request
  runs,                      \* how often a request's payload was built and run
  replies,                   \* the results a request's callback was called with
  now                        \* steady_clock

queueVars      == <<queue, active, queueVersion, shuttingDown>>
completionVars == <<completionQueue, completionShuttingDown, completionWaiting>>
localVars      == <<held, result, task, watched>>
destructorVars == <<stage, drained, stamping, lastActive>>
lifecycleVars  == <<startedAt, completedAt>>
callerVars     == <<admission, runs, replies>>
vars == <<queueVars, waiting, completionVars, pc, localVars, destructorVars,
          lifecycleVars, gauge, callerVars, now>>

-----------------------------------------------------------------------------
Init ==
  /\ queue = << >> /\ active = 0 /\ queueVersion = 0 /\ shuttingDown = FALSE
  /\ waiting = {}
  /\ completionQueue = << >> /\ completionShuttingDown = FALSE
  /\ completionWaiting = {}
  /\ pc = [t \in Threads |-> "idle"]
  /\ held = [t \in SolveThreads |-> None]
  /\ result = [t \in SolveThreads |-> None]
  /\ task = [c \in CompletionWorkers |-> None]
  /\ watched = [version |-> 0, deadline |-> 0]
  /\ stage = "alive" /\ drained = << >> /\ stamping = None /\ lastActive = 0
  /\ startedAt = {} /\ completedAt = {}
  /\ gauge = [queued |-> 0, inflight |-> 0]
  /\ admission = [r \in Requests |-> None]
  /\ runs = [r \in Requests |-> 0]
  /\ replies = [r \in Requests |-> << >>]
  /\ now = 0

\* Mutant of NotifyAll: condition_.notify_one() instead.
NotifyOneThread ==
  IF waiting = {} THEN UNCHANGED waiting
  ELSE \E t \in waiting : waiting' = waiting \ {t}

\* condition_.notify_all()
NotifyAll == waiting' = {}

\* Mutant of PushCompletion: the task is dropped when others are waiting.
PushCompletionIfEmpty(r, status) ==
  completionQueue' =
    IF completionQueue = << >> THEN <<[req |-> r, status |-> status]>>
    ELSE completionQueue

\* Mutant of PushCompletion: a queue timeout is reported as a solver timeout.
PushCompletionOneTimeout(r, status) ==
  completionQueue' = Append(completionQueue,
    [req |-> r, status |-> IF status = "kQueueWaitTimedOut" THEN "kTimedOut" ELSE status])

\* The task is pushed ...
PushCompletion(r, status) ==
  completionQueue' = Append(completionQueue, [req |-> r, status |-> status])

\* Mutant of NotifyOneCompletion: the notification is forgotten.
NotifyNoCompletion == UNCHANGED completionWaiting

\* ... and one sleeping completion worker, if any, is woken.
NotifyOneCompletion ==
  IF completionWaiting = {}
  THEN UNCHANGED completionWaiting
  ELSE \E c \in completionWaiting : completionWaiting' = completionWaiting \ {c}

EnqueueCompletion(r, status) ==
  /\ PushCompletion(r, status)
  /\ NotifyOneCompletion
  /\ UNCHANGED completionShuttingDown

\* Mutant of StampCompleted: a request that expired unstarted is not stamped.
StampIfStarted(r) ==
  completedAt' = IF r \in startedAt THEN completedAt \cup {r} ELSE completedAt

\* lifecycle->completed_at = std::chrono::steady_clock::now()
StampCompleted(r) == completedAt' = completedAt \cup {r}

SetSolverState(queued, inflight) ==
  gauge' = [queued |-> queued, inflight |-> inflight]

\* Mutant of CheckAdmission: a closing coordinator still admits.
CheckAdmissionWhileClosing(size) == EvaluateSolveAdmission(size, active, Len(queue))

CheckAdmission(size) ==
  IF shuttingDown
  THEN "kRejectedQueueFull"
  ELSE EvaluateSolveAdmission(size, active, Len(queue))

-----------------------------------------------------------------------------
(* The callers *)

SubmitRejected(r, size) ==
  /\ stage # "destroyed" /\ admission[r] = None
  /\ CheckAdmission(size) # "kAccepted"
  /\ admission' = [admission EXCEPT ![r] = CheckAdmission(size)]
  /\ UNCHANGED <<queueVars, waiting, completionVars, pc, localVars,
                 destructorVars, lifecycleVars, gauge, runs, replies, now>>

SubmitAccepted(r, size) ==
  /\ stage # "destroyed" /\ admission[r] = None
  /\ CheckAdmission(size) = "kAccepted"
  /\ admission' = [admission EXCEPT ![r] = "kAccepted"]
  /\ LET immediate == StartsImmediately(active, Len(queue))
     IN  queue' = Append(queue,
           [req |-> r, immediate |-> immediate,
            deadline |-> IF immediate THEN Forever ELSE ResolveDeadline(now)])
  /\ queueVersion' = queueVersion + 1
  /\ startedAt' = startedAt \ {r} /\ completedAt' = completedAt \ {r}
  /\ SetSolverState(Len(queue'), active)
  /\ NotifyAll
  /\ UNCHANGED <<active, shuttingDown, completionVars, pc, localVars,
                 destructorVars, runs, replies, now>>

Tick ==
  /\ now < MaxClock
  /\ now' = now + 1
  /\ UNCHANGED <<queueVars, waiting, completionVars, pc, localVars,
                 destructorVars, lifecycleVars, gauge, callerVars>>

-----------------------------------------------------------------------------
(* WorkerLoop and QueueTimerLoop share their first wait and their report *)

Idle(t) == pc[t] = "idle" /\ t \notin waiting

\* condition_.wait: the predicate is false, the thread goes to sleep.
AwaitWork(t) ==
  /\ Idle(t) /\ queue = << >> /\ ~shuttingDown
  /\ waiting' = waiting \cup {t}
  /\ UNCHANGED <<queueVars, completionVars, pc, localVars, destructorVars,
                 lifecycleVars, gauge, callerVars, now>>

SpuriousWakeup(t) ==
  /\ t \in waiting
  /\ waiting' = waiting \ {t}
  /\ UNCHANGED <<queueVars, completionVars, pc, localVars, destructorVars,
                 lifecycleVars, gauge, callerVars, now>>

ExitLoop(t) ==
  /\ Idle(t) /\ queue = << >> /\ shuttingDown
  /\ pc' = [pc EXCEPT ![t] = "exited"]
  /\ UNCHANGED <<queueVars, waiting, completionVars, localVars, destructorVars,
                 lifecycleVars, gauge, callerVars, now>>

\* notify_all, then hand the callback to the completion workers.
Report(t) ==
  /\ pc[t] = "report"
  /\ NotifyAll
  /\ EnqueueCompletion(held[t], result[t])
  /\ pc' = [pc EXCEPT ![t] = "idle"]
  /\ held' = [held EXCEPT ![t] = None]
  /\ result' = [result EXCEPT ![t] = None]
  /\ UNCHANGED <<queueVars, task, watched, destructorVars, lifecycleVars,
                 gauge, callerVars, now>>

-----------------------------------------------------------------------------
(* WorkerLoop *)

WorkerTake(w) ==
  /\ Idle(w) /\ queue # << >>
  /\ ~HasQueueWaitExpired(now, Head(queue).deadline)
  /\ queue' = Tail(queue)
  /\ queueVersion' = queueVersion + 1
  /\ active' = active + 1
  /\ held' = [held EXCEPT ![w] = Head(queue).req]
  /\ startedAt' = startedAt \cup {Head(queue).req}
  /\ SetSolverState(Len(queue'), active')
  /\ pc' = [pc EXCEPT ![w] = "dispatch"]
  /\ UNCHANGED <<shuttingDown, waiting, completionVars, result, task, watched,
                 destructorVars, completedAt, callerVars, now>>

WorkerTakeExpired(w) ==
  /\ Idle(w) /\ queue # << >>
  /\ HasQueueWaitExpired(now, Head(queue).deadline)
  /\ queue' = Tail(queue)
  /\ queueVersion' = queueVersion + 1
  /\ held' = [held EXCEPT ![w] = Head(queue).req]
  /\ result' = [result EXCEPT ![w] = "kQueueWaitTimedOut"]
  /\ StampCompleted(Head(queue).req)
  /\ SetSolverState(Len(queue'), active)
  /\ pc' = [pc EXCEPT ![w] = "report"]
  /\ UNCHANGED <<active, shuttingDown, waiting, completionVars, task, watched,
                 destructorVars, startedAt, callerVars, now>>

\* notify_all, payload_factory(), and the call of VroomRunner::Run.
WorkerRun(w) ==
  /\ pc[w] = "dispatch"
  /\ NotifyAll
  /\ runs' = [runs EXCEPT ![held[w]] = @ + 1]
  /\ pc' = [pc EXCEPT ![w] = "solving"]
  /\ UNCHANGED <<queueVars, completionVars, localVars, destructorVars,
                 lifecycleVars, gauge, admission, replies, now>>

\* Run returns and the slot is released, before the callback is enqueued.
WorkerFinish(w) ==
  /\ pc[w] = "solving"
  /\ \E status \in SolveStatuses : result' = [result EXCEPT ![w] = status]
  /\ StampCompleted(held[w])
  /\ active' = active - 1
  /\ SetSolverState(Len(queue), active')
  /\ pc' = [pc EXCEPT ![w] = "report"]
  /\ UNCHANGED <<queue, queueVersion, shuttingDown, waiting, completionVars,
                 held, task, watched, destructorVars, startedAt, callerVars, now>>

-----------------------------------------------------------------------------
(* QueueTimerLoop *)

\* std::min_element: the first of the entries with the earliest deadline.
EarliestIndex ==
  CHOOSE i \in DOMAIN queue : \A j \in DOMAIN queue :
    \/ queue[i].deadline < queue[j].deadline
    \/ queue[i].deadline = queue[j].deadline /\ i <= j

\* Mutant of QueueChanged: the queue version is not compared.
QueueGone == shuttingDown \/ queue = << >>

QueueChanged ==
  shuttingDown \/ queue = << >> \/ queueVersion # watched.version

TimerWatch ==
  /\ Idle(Timer) /\ queue # << >>
  /\ watched' = [version |-> queueVersion, deadline |-> queue[EarliestIndex].deadline]
  /\ waiting' = waiting \cup {Timer}
  /\ pc' = [pc EXCEPT ![Timer] = "watching"]
  /\ UNCHANGED <<queueVars, completionVars, held, result, task, destructorVars,
                 lifecycleVars, gauge, callerVars, now>>

\* wait_until returns when it is woken or when the watched deadline has passed.
TimerAwake ==
  /\ pc[Timer] = "watching"
  /\ Timer \notin waiting \/ HasQueueWaitExpired(now, watched.deadline)

TimerQueueChanged ==
  /\ TimerAwake /\ QueueChanged
  /\ waiting' = waiting \ {Timer}
  /\ pc' = [pc EXCEPT ![Timer] =
              IF shuttingDown /\ queue = << >> THEN "exited" ELSE "idle"]
  /\ UNCHANGED <<queueVars, completionVars, localVars, destructorVars,
                 lifecycleVars, gauge, callerVars, now>>

TimerWatchAgain ==
  /\ pc[Timer] = "watching" /\ Timer \notin waiting
  /\ ~QueueChanged /\ ~HasQueueWaitExpired(now, watched.deadline)
  /\ waiting' = waiting \cup {Timer}
  /\ UNCHANGED <<queueVars, completionVars, pc, localVars, destructorVars,
                 lifecycleVars, gauge, callerVars, now>>

\* The queue is the one that was watched, so its earliest deadline has passed.
TimerExpire ==
  /\ TimerAwake /\ ~QueueChanged
  /\ HasQueueWaitExpired(now, queue[EarliestIndex].deadline)
  /\ LET r == queue[EarliestIndex].req
     IN  /\ held' = [held EXCEPT ![Timer] = r]
         /\ StampCompleted(r)
  /\ queue' = RemoveAt(queue, EarliestIndex)
  /\ queueVersion' = queueVersion + 1
  /\ result' = [result EXCEPT ![Timer] = "kQueueWaitTimedOut"]
  /\ SetSolverState(Len(queue'), active)
  /\ waiting' = waiting \ {Timer}
  /\ pc' = [pc EXCEPT ![Timer] = "report"]
  /\ UNCHANGED <<active, shuttingDown, completionVars, task, watched,
                 destructorVars, startedAt, callerVars, now>>

-----------------------------------------------------------------------------
(* CompletionLoop *)

CompletionIdle(c) == pc[c] = "idle" /\ c \notin completionWaiting

CompletionAwait(c) ==
  /\ CompletionIdle(c) /\ completionQueue = << >> /\ ~completionShuttingDown
  /\ completionWaiting' = completionWaiting \cup {c}
  /\ UNCHANGED <<queueVars, waiting, completionQueue, completionShuttingDown, pc,
                 localVars, destructorVars, lifecycleVars, gauge, callerVars, now>>

CompletionTake(c) ==
  /\ CompletionIdle(c) /\ completionQueue # << >>
  /\ task' = [task EXCEPT ![c] = Head(completionQueue)]
  /\ completionQueue' = Tail(completionQueue)
  /\ pc' = [pc EXCEPT ![c] = "running"]
  /\ UNCHANGED <<queueVars, waiting, completionShuttingDown, completionWaiting,
                 held, result, watched, destructorVars, lifecycleVars, gauge,
                 callerVars, now>>

\* The callback runs outside both locks and returns.
CompletionRun(c) ==
  /\ pc[c] = "running"
  /\ replies' = [replies EXCEPT ![task[c].req] = Append(@, task[c].status)]
  /\ task' = [task EXCEPT ![c] = None]
  /\ pc' = [pc EXCEPT ![c] = "idle"]
  /\ UNCHANGED <<queueVars, waiting, completionVars, held, result, watched,
                 destructorVars, lifecycleVars, gauge, admission, runs, now>>

\* Mutant of CompletionExit: tasks still queued are abandoned.
CompletionExitAtOnce(c) ==
  /\ CompletionIdle(c) /\ completionShuttingDown
  /\ pc' = [pc EXCEPT ![c] = "exited"]
  /\ UNCHANGED <<queueVars, waiting, completionVars, localVars, destructorVars,
                 lifecycleVars, gauge, callerVars, now>>

CompletionExit(c) ==
  /\ CompletionIdle(c) /\ completionQueue = << >> /\ completionShuttingDown
  /\ pc' = [pc EXCEPT ![c] = "exited"]
  /\ UNCHANGED <<queueVars, waiting, completionVars, localVars, destructorVars,
                 lifecycleVars, gauge, callerVars, now>>

-----------------------------------------------------------------------------
(* ~SolveCoordinator *)

DestroyBegin ==
  /\ stage = "alive"
  /\ shuttingDown' = TRUE
  /\ drained' = queue /\ queue' = << >>
  /\ lastActive' = active
  /\ stage' = "announcing"
  /\ UNCHANGED <<active, queueVersion, waiting, completionVars, pc, localVars,
                 stamping, lifecycleVars, gauge, callerVars, now>>

\* Both happen after mutex_ is released: the gauge is set from the copy.
DestroyAnnounce ==
  /\ stage = "announcing"
  /\ SetSolverState(0, lastActive)
  /\ NotifyAll
  /\ stage' = "draining"
  /\ UNCHANGED <<queueVars, completionVars, pc, localVars, drained, stamping,
                 lastActive, lifecycleVars, callerVars, now>>

DestroyFailQueued ==
  /\ stage = "draining" /\ stamping = None /\ drained # << >>
  /\ EnqueueCompletion(Head(drained).req, "kFailed")
  /\ stamping' = Head(drained).req
  /\ drained' = Tail(drained)
  /\ UNCHANGED <<queueVars, waiting, pc, localVars, stage, lastActive,
                 lifecycleVars, gauge, callerVars, now>>

\* lifecycle->completed_at is written after the callback has been handed over.
DestroyStamp ==
  /\ stage = "draining" /\ stamping # None
  /\ StampCompleted(stamping)
  /\ stamping' = None
  /\ UNCHANGED <<queueVars, waiting, completionVars, pc, localVars, stage,
                 drained, lastActive, startedAt, gauge, callerVars, now>>

\* The timer and the workers are joined, then the completion workers are told.
DestroyCloseCompletions ==
  /\ stage = "draining" /\ stamping = None /\ drained = << >>
  /\ \A t \in SolveThreads : pc[t] = "exited"
  /\ completionShuttingDown' = TRUE
  /\ completionWaiting' = {}
  /\ stage' = "closing"
  /\ UNCHANGED <<queueVars, waiting, completionQueue, pc, localVars, drained,
                 stamping, lastActive, lifecycleVars, gauge, callerVars, now>>

DestroyFinish ==
  /\ stage = "closing"
  /\ \A c \in CompletionWorkers : pc[c] = "exited"
  /\ stage' = "destroyed"
  /\ UNCHANGED <<queueVars, waiting, completionVars, pc, localVars, drained,
                 stamping, lastActive, lifecycleVars, gauge, callerVars, now>>

-----------------------------------------------------------------------------
Submit == \E r \in Requests, size \in RequestSizes :
            SubmitRejected(r, size) \/ SubmitAccepted(r, size)

WorkerStep(w) ==
  \/ AwaitWork(w) \/ WorkerTake(w) \/ WorkerTakeExpired(w) \/ WorkerRun(w)
  \/ Report(w) \/ ExitLoop(w)

TimerStep ==
  \/ AwaitWork(Timer) \/ TimerWatch \/ TimerQueueChanged \/ TimerWatchAgain
  \/ TimerExpire \/ Report(Timer) \/ ExitLoop(Timer)

CompletionStep(c) ==
  CompletionAwait(c) \/ CompletionTake(c) \/ CompletionExit(c)

DestructorStep ==
  \/ DestroyAnnounce \/ DestroyFailQueued \/ DestroyStamp
  \/ DestroyCloseCompletions \/ DestroyFinish

\* The destructor has returned: the object and its threads are gone.
Destroyed == stage = "destroyed" /\ UNCHANGED vars

Next ==
  \/ Submit \/ Tick
  \/ \E w \in Workers : WorkerStep(w) \/ WorkerFinish(w)
  \/ TimerStep
  \/ \E t \in SolveThreads : SpuriousWakeup(t)
  \/ \E c \in CompletionWorkers : CompletionStep(c) \/ CompletionRun(c)
  \/ DestroyBegin \/ DestructorStep \/ Destroyed

Spec == Init /\ [][Next]_vars

\* The threads of the coordinator are scheduled: none of them stops for ever
\* while it has something to do, and the clock goes on.
ThreadFairness ==
  /\ \A w \in Workers : WF_vars(WorkerStep(w))
  /\ WF_vars(TimerStep)
  /\ \A c \in CompletionWorkers : WF_vars(CompletionStep(c))
  /\ WF_vars(DestructorStep)
  /\ WF_vars(Tick)

\* VroomRunner::Run returns (it kills the solver at its own timeout), and so
\* does every callback (it only builds a response and queues it on a loop).
CalleeFairness ==
  /\ \A w \in Workers : WF_vars(WorkerFinish(w))
  /\ \A c \in CompletionWorkers : WF_vars(CompletionRun(c))

FairSpec == Spec /\ ThreadFairness /\ CalleeFairness

\* Solves and callbacks may hang for ever.
StuckCalleesSpec == Spec /\ ThreadFairness

-----------------------------------------------------------------------------
(* Properties *)

Accepted == {r \in Requests : admission[r] = "kAccepted"}
Solving == {w \in Workers : pc[w] \in {"dispatch", "solving"}}

\* The values the variables take.
TypeOK ==
  /\ queue \in Seq(QueuedSolveRequest)
  /\ active \in Nat /\ queueVersion \in Nat /\ shuttingDown \in BOOLEAN
  /\ waiting \subseteq SolveThreads
  /\ completionQueue \in Seq(CompletionTask)
  /\ completionShuttingDown \in BOOLEAN
  /\ completionWaiting \subseteq CompletionWorkers
  /\ pc \in [Threads -> {"idle", "dispatch", "solving", "report", "watching",
                         "running", "exited"}]
  /\ held \in [SolveThreads -> Requests \cup {None}]
  /\ result \in [SolveThreads -> Statuses \cup {None}]
  /\ task \in [CompletionWorkers -> CompletionTask \cup {None}]
  /\ watched \in [version : Nat, deadline : 0..Forever]
  /\ stage \in {"alive", "announcing", "draining", "closing", "destroyed"}
  /\ drained \in Seq(QueuedSolveRequest)
  /\ stamping \in Requests \cup {None}
  /\ lastActive \in Nat
  /\ startedAt \subseteq Requests /\ completedAt \subseteq Requests
  /\ gauge \in [queued : Nat, inflight : Nat]
  /\ admission \in [Requests -> AdmissionStatuses \cup {None}]
  /\ runs \in [Requests -> Nat]
  /\ replies \in [Requests -> Seq(Statuses)]
  /\ now \in 0..MaxClock

\* The solver never runs more than MaxConcurrency solves, active_solves_ counts
\* exactly the threads inside a solve, and the coordinator never holds more
\* than MaxConcurrency + MaxQueueSize requests that are queued or solved.
CapacityBound ==
  /\ active = Cardinality(Solving)
  /\ active <= MaxConcurrency
  /\ active + Len(queue) <= MaxConcurrency + MaxQueueSize

\* A request that was accepted because a worker slot was free always has a free
\* slot left for it: the busy workers and the requests ahead of it are together
\* fewer than the workers, whatever was taken, expired or finished since
\* (test RequestsUsingFreeWorkerSlotsDoNotQueueTimeout).
ImmediateKeepsSlot ==
  \A i \in DOMAIN queue :
    queue[i].immediate => /\ active + (i - 1) < MaxConcurrency
                          /\ queue[i].deadline = Forever

\* Both limits of the configuration hold, and so does what they promise to a request that
\* found a free worker.
WithinLimits == CapacityBound /\ ImmediateKeepsSlot

\* How many places hold request r or have answered it.
Places(r) ==
  LET In(S) == Cardinality(S)
  IN  In({i \in DOMAIN queue : queue[i].req = r})
      + In({t \in SolveThreads : held[t] = r})
      + In({i \in DOMAIN drained : drained[i].req = r})
      + In({i \in DOMAIN completionQueue : completionQueue[i].req = r})
      + In({c \in CompletionWorkers : task[c] # None /\ task[c].req = r})
      + Len(replies[r])

\* No accepted request is lost or duplicated by any interleaving of workers,
\* timer, completion workers and destructor: it is in one place until its
\* callback has been called, once.  A rejected request is in none.
ExactlyOnce ==
  \A r \in Requests : Places(r) = IF r \in Accepted THEN 1 ELSE 0

\* The reply tells the truth about the solver: a solver status comes only from
\* a request whose payload was built and run exactly once, a request answered
\* kQueueWaitTimedOut was never run, and kFailed without a run comes only from
\* the destructor (tests DoesNotInvokePayloadFactory...,
\* WorkerRejectsQueuedSolveThatExpiredBeforeDequeue).
HonestReply ==
  \A r \in Requests : \A k \in DOMAIN replies[r] :
    CASE replies[r][k] \in {"kSucceeded", "kTimedOut"} -> runs[r] = 1
      [] replies[r][k] = "kFailed" -> runs[r] = 1 \/ (runs[r] = 0 /\ shuttingDown)
      [] replies[r][k] = "kQueueWaitTimedOut" -> runs[r] = 0

\* When a callback runs, the coordinator has already stamped the end of the
\* request, except for requests the destructor drained, which it stamps only
\* after it has handed their callbacks over.
StampedBeforeReply ==
  \A r \in Requests :
    replies[r] # << >> =>
      \/ r \in completedAt
      \/ replies[r] = <<"kFailed">> /\ stamping = r

\* The published gauges are the real ones whenever no thread is inside a
\* critical section, until the destructor publishes its copy.
GaugeExact ==
  ~shuttingDown =>
    gauge = [queued |-> Len(queue), inflight |-> active]

\* Once the destructor has returned every accepted request has been answered,
\* and no thread, task or solve is left behind.
CleanShutdown ==
  stage = "destroyed" =>
    /\ \A r \in Accepted : Len(replies[r]) = 1
    /\ active = 0 /\ queue = << >> /\ completionQueue = << >>
    /\ \A t \in Threads : pc[t] = "exited"

\* After the destructor has drained the queue no request enters it and no solve
\* starts, so the workers end after the solve they are in.
ShutdownStartsNothing ==
  [][shuttingDown => /\ queue' = << >>
                     /\ startedAt' = startedAt
                     /\ \A r \in Requests \ Accepted : admission'[r] # "kAccepted"]_vars

\* "Current number of inflight solver executions." (observability.cpp): when the
\* destructor has returned, there are none.
GaugeSettles == stage = "destroyed" => gauge = [queued |-> 0, inflight |-> 0]

\* Every accepted request is answered, also when the destructor runs.
EveryAcceptedAnswered ==
  \A r \in Requests : admission[r] = "kAccepted" ~> replies[r] # << >>

\* The destructor returns.
DestructorReturns == stage # "alive" ~> stage = "destroyed"

Waiting(r) == \E i \in DOMAIN queue : queue[i].req = r
Overdue(r) == \E i \in DOMAIN queue : queue[i].req = r /\ now >= queue[i].deadline
HandedOver(r) ==
  \/ \E i \in DOMAIN completionQueue : completionQueue[i].req = r
  \/ \E c \in CompletionWorkers : task[c] # None /\ task[c].req = r
  \/ replies[r] # << >>

\* A request whose queue wait is over is handed to the completion workers, and
\* one that was accepted into a free slot leaves the queue, even when every
\* solve and every callback hangs.
QueueNeverStuck ==
  \A r \in Requests :
    /\ Overdue(r) ~> HandedOver(r)
    /\ (\E i \in DOMAIN queue : queue[i].req = r /\ queue[i].immediate) ~> ~Waiting(r)

-----------------------------------------------------------------------------
(* Refinement: the coordinator implements SolveService. *)

PhaseOf(r) ==
  CASE admission[r] = None -> "new"
    [] admission[r] = "kRejectedQueueFull" -> "refused"
    [] admission[r] \in {"kRejectedTooManyJobs", "kRejectedTooManyVehicles"} ->
         "oversized"
    [] admission[r] = "kAccepted" ->
         IF Waiting(r) THEN "waiting"
         ELSE IF \E w \in Solving : held[w] = r THEN "solving"
         ELSE IF replies[r] # << >> THEN "answered"
         ELSE IF r \in startedAt THEN "solved" ELSE "unsolved"

Service == INSTANCE SolveService WITH
  Slots <- MaxConcurrency,
  Capacity <- MaxConcurrency + MaxQueueSize,
  phase <- [r \in Requests |-> PhaseOf(r)],
  reply <- [r \in Requests |->
              IF replies[r] = << >> THEN "none" ELSE replies[r][Len(replies[r])]],
  open <- ~shuttingDown

\* Every behaviour of the coordinator is one SolveService allows.
ImplementsService == Service!Spec
=============================================================================
