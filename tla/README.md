# A formal model of delivery-optimizer

TLA+ modules, TLC configurations and TLAPS proofs about the concurrent and
distributed parts of delivery-optimizer: the C++ API server (`app/api`) that
runs VROOM solves for HTTP clients, its PostgreSQL-backed job queue, the
Next.js user interface with its server routes (`app/ui`), and the driver's mobile
application (`app/mobile`). Paths below are relative to the repository root.

Contents: [inventory](#1-inventory), [the solve
coordinator](#2-the-solve-coordinator), [the job queue](#3-the-job-queue), [the VROOM
runner](#4-the-vroom-runner), [the edit page](#5-the-edit-page), [results, drivers and
server routes](#6-results-drivers-and-server-routes), [mutants, and what is only
model-checked](#7-mutants-and-what-is-only-model-checked), [findings](#8-findings),
[what is not modelled](#9-what-is-not-modelled), [where to go on](#10-where-to-go-on),
[running](#11-running-the-checks).

## 1. Inventory

A browser plans a route in two ways. It may POST it to
`/api/v1/deliveries/optimize` and wait: the request goes through the **solve
coordinator** of that process and is answered when VROOM has solved it. Or it
POSTs a job to `/api/v1/optimization-jobs`, which writes a row in PostgreSQL,
and polls: the **job runtime** of any API process claims the row, solves it and
stores the result. The edit page uses jobs, through routes of the Next.js server; the
results page hands the routes to the drivers, as files or messages, who work on them in
the browser or in the mobile application.

| Component | State | Operations | Hard behaviour | What makes it correct |
|---|---|---|---|---|
| Solve coordinator (`solve_coordinator.cpp`), admission (`solve_admission.cpp`), execution (`solve_execution.cpp`) | queue, running count, queue version, completion queue, two shutdown flags; two mutexes with a condition variable each; worker, timer and completion threads | `CheckAdmission`, `Submit`, worker, timer and completion loops, destructor | notifications sent after unlocking, three kinds of waiters on one condition variable, deadlines read before sleeping, shutdown in any state | each accepted request answered once and truthfully, limits kept, deadlines kept while solves hang, destructor ends with nothing left over |
| Job store (`optimization_job_store.cpp`) | table `optimization_jobs` (state, worker, attempts, lease, retention, result) | create, claim, complete, fail, extend a lease, sweep, expire | statements of many processes interleave; an answer is lost after the commit; snapshots | attempts bounded, columns agree, results are those of the last attempt, admission limit |
| Job runtime (`optimization_job_runtime.cpp`) | per worker: the claimed job, the id shown to the heartbeat; the threads' stop tokens | worker, heartbeat and sweep loops, destructor | a process is killed between two statements; a lease lapses under a live worker; destructor joins one thread at a time | one worker per attempt, completion counted once, nothing orphaned by a clean stop, every job ends |
| Job endpoints (`endpoints/optimization_jobs_endpoint.cpp`) | none | create, status, result | | answers given to a client stay true |
| Synchronous endpoint (`endpoints/deliveries_optimize_endpoint.cpp`) | one context per request, `responded` flag | admit, submit, re-run after a weather forecast, respond on the loop | a completion callback that submits again | one response per request |
| VROOM runner (`vroom_runner.cpp`) | child process, pipe, deadline | spawn, monitor, drain, kill, reap | exit, end of output and deadline in any order | bounded time, child always reaped |
| Observability (`observability.cpp`) | counters, histograms, log queue, writer thread | record, log, write, destroy | bounded queue drops lines; writer races the destructor | nothing lost silently, writer ends |
| Health endpoint (`endpoints/health_endpoint.cpp`) | probe cache, waiters | probe, coalesce, cache | a waiter joins while the answer arrives | every waiter answered |
| Server, options, request context | configuration | start-up | none | clamps used as assumptions |
| Request parsing, weather, proxies, libraries (`libs`) | none | pure functions, forwarding | none | data |
| UI optimisation client (`useOptimize.ts`, `lib/solver/*`, `api/optimization-jobs`) | prompt, approval, run in flight, job; cached identity token | prompts, geocode, submit, poll, store; authenticate, attempt, retry | retry of a POST that succeeded; token that expires between attempts; answers that outlive their page | routes are those of the lists, the modal ends, consent is per run |
| UI geocoding (`nominatim.ts`, `useAddressAutocomplete.ts`, `AddressOverlay.tsx`) | time of the last request; typed text, suggestions, timers | throttle, type, ask, suggest, select, save | two callers wait for the same instant; timers and answers out of order | request rate |
| UI feedback route (`FeedbackLauncher.tsx`, `api/feedback/route.ts`, `lib/feedback`) | form; rate windows, shutdown flag, guard objects, count of the day, installation token | submit, read the guard, verify, fetch a token, create, count, record | checks before awaits and counts after them; midnight; a shared promise; an issue whose answer is lost | daily limit on the issues the route hears of (one process, no bucket), no waiter forgotten, one issue per text unless a failure was shown |
| UI editing, import and session (`app/edit`, `app/upload-save-point`, `lib/session`) | address rows, vehicles, imported table, draft and save point in the storage of the tab | add, edit, confirm, delete, search, page, import, export, save, restore | list positions used as identity; background reads; hydration against the save timer | one open row, times kept, rows under their columns, drafts never go back |
| UI results, maps and driver pages (`app/results`, `app/driver_assist`, `app/upload-route`) | draft of the routes, moved pin, dialogs, sends under way; lines and pins; the driver's route | edit, drag, duplicate, delete, export, send; draw; deliver, report | late answers of services, new results under an open dialog, storage shared by pages | files match the page, badges mean delivery, work that is done stays done |
| Mobile application (`app/mobile`) | route, its copy in AsyncStorage, open card, report | import, deliver, report, finish, restore | killed between two writes, failed writes, expiry | the phone keeps what it shows |
| Deployment, infrastructure, benchmarks | none | scripts | none | configuration |

`PROJECT.json` lists the components with their files, and under `hazards` the
places where this code is hard to test, each at its line with the property that
watches it or the reason why none does.

## 2. The solve coordinator

### Modules

`SolveAdmission.tla` holds the pure decisions: `EvaluateSolveAdmission`,
`StartsImmediately`, `ResolveDeadline` (which saturates at
`time_point::max()`, `Forever` here) and `HasQueueWaitExpired`.

`SolveCoordinator.tla` is the class with all its threads. A step is a critical
section of `mutex_` or `completion_mutex_`, or the code between two of them.
`notify_all` is called by the code after it has unlocked, so it belongs to the
next step of that thread, and everyone may run in between. The threads asleep on
each condition variable are sets (`waiting`, `completionWaiting`), so a missing
notification leaves a thread asleep; spurious wakeups are actions.

| In the model | In the code |
|---|---|
| `queue`, `active`, `queueVersion`, `shuttingDown` | `queue_`, `active_solves_`, `queue_version_`, `shutting_down_` |
| `completionQueue`, `completionShuttingDown` | `completion_queue_`, `completion_shutting_down_` |
| `pc`, `held`, `result`, `task`, `watched` | locals of `WorkerLoop`, `QueueTimerLoop`, `CompletionLoop` |
| `stage`, `drained`, `stamping`, `lastActive` | progress and locals of the destructor |
| `startedAt`, `completedAt` | `SolveRequestLifecycle` time stamps |
| `gauge` | last `ObservabilityRegistry::SetSolverState` |
| `runs`, `replies` | history: calls of the payload factory and VROOM, calls of the callback |
| `SubmitRejected`, `SubmitAccepted` | `Submit` |
| `AwaitWork`, `WorkerTake`, `WorkerTakeExpired`, `WorkerRun`, `WorkerFinish`, `Report`, `ExitLoop` | `WorkerLoop` |
| `TimerWatch`, `TimerQueueChanged`, `TimerWatchAgain`, `TimerExpire` | `QueueTimerLoop` |
| `CompletionAwait`, `CompletionTake`, `CompletionRun`, `CompletionExit`, `EnqueueCompletion` | `CompletionLoop`, `EnqueueCompletion` |
| `DestroyBegin` … `DestroyFinish` | `~SolveCoordinator` |

`SolveService.tla` is what the class promises: no threads, no queue, no clock.
Each request is accepted or refused at once, at most `Slots` are solved and at
most `Capacity` are outstanding, an accepted one is solved or given up, and
answered once with a status that tells which. It may say it is full only when it
is, or when it is closing.

Assumptions of the model: every request carries a lifecycle object (the code
allows none; then only the time stamps are missing); callbacks do not throw; the
constructor options that leave out the timer or the workers exist for the unit
tests and are not instantiated; the two gauges are set together (they are two
atomics, and a reader between them may see one old value).

### Runs

| Run | Instance | Shows |
|---|---|---|
| `safety` (SolveSafety) | 3 requests, 1 worker, 2 completion workers, queue 1, wait 1 tick, symmetry | `WithinLimits` (`CapacityBound` and `ImmediateKeepsSlot`), `ExactlyOnce`, `HonestReply`, `StampedBeforeReply`, `CleanShutdown`, `ShutdownStartsNothing` |
| `liveness` (SolveLiveness) | 2 requests, 1 worker, 1 completion worker, `FairSpec` | `EveryAcceptedAnswered`, `DestructorReturns`, and `ImplementsService`: the coordinator implements `SolveService` |
| `stuck_callees` (SolveStuck) | `StuckCalleesSpec`: solves and callbacks may hang for ever | `QueueNeverStuck` |
| `gauge_after_shutdown` (SolveGauge) | 2 requests | violated: `GaugeSettles`, see [findings](#8-findings) |

Why the bounds are enough to be interesting: three requests on one worker with a
queue of one give a running, a queued and a refused request at the same time, and a
request that was promised a slot while another waits; two completion workers let
callbacks run out of order; workers that race for the queue head are the business of
the theorems, which hold for any number of them; one tick lets the queued deadline
pass before, while or after the worker, the timer or the destructor takes the
request. The queue version is the only unbounded counter and is bounded by the number
of requests. `MaxClock` bounds the clock; deadlines beyond it are `Forever`.

Fairness. `ThreadFairness`: a thread that can take a step is scheduled, and the clock
goes on. `CalleeFairness`: `VroomRunner::Run` returns, since it kills its child at its
own timeout, and a callback returns, since it only builds a response and queues it on an
event loop. `EveryAcceptedAnswered` and `DestructorReturns` need both. What the timer
promises must not depend on the callees, so `QueueNeverStuck` is checked without
`CalleeFairness`. The destructor is never forced to start.

### Proofs (`SolveCoordinatorProofs.tla`)

For any number of requests, workers and completion workers and any configuration that
satisfies `AdmissionConfig` and `ThreadAssumption`, TLAPS checks `Spec => []P` for
`TypeOK`, `WithinLimits` with its parts `CapacityBound` and `ImmediateKeepsSlot`, and
`GaugeExact`, the action property `ShutdownStartsNothing`, and the theorem
`AdmissionIsCapacity`: the code's test with reserved slots and a buffered queue accepts
exactly when running plus queued solves are below the sum of both limits.

The inductive invariant is

    IInv == TypeOK /\ WorkHeld /\ ShutdownDrained /\ SlotsCounted
            /\ QueueBounded /\ ImmediateKeepsSlot /\ GaugeExact

`SlotsCounted` says that `active` is the number of threads inside a solve; it
needs `WorkHeld` (a thread that solves or reports holds a request) and gives
`active <= MaxConcurrency` as a cardinality. `QueueBounded` is preserved by
`Submit` because of `AdmissionIsCapacity`. `ImmediateKeepsSlot` is inductive by
itself: a take moves each request one place forward and fills one slot, an expiry
only moves them forward, and an immediate request has no deadline so the timer
never removes it. `ShutdownDrained` (the queue stays empty after the destructor's
first step) is why nothing starts after shutdown. The lemma about the timer's
`RemoveAt` and the one about `EarliestIndex` carry the queue steps.

### Proofs (`SolvePlacesProofs.tla`)

Where a request is, for any number of requests and threads: TLAPS checks
`Spec => []P` for `ExactlyOnce`, `HonestReply`, `StampedBeforeReply` and
`CleanShutdown`. Besides the assumptions above it uses `NoneAssumption`: the value
that stands for "nothing" is neither a task nor an admission status.

The places of a request are the queue, the hands of a solver thread or of the
timer, the destructor's drained queue, the completion queue, a completion worker
and the list of its replies. The inductive invariant is

    PInv == IInv /\ BusyHold /\ NoTwin /\ OnePlace
            /\ RunsCounted /\ StatusesSound /\ Stages

`ExactlyOnce` counts, and counting is not what a step preserves easily. `NoTwin` (no
place holds a request twice) and `OnePlace` (an accepted request is in one place and
in no other) say the same without numbers; each step takes a request from one place
to the next, so it is enough to know what leaves a sequence (`HeadLeaves`,
`EarliestLeaves`), what enters one (`AppendReqs`) and what a thread takes and gives
(`Taken`, `Given`). `BusyHold` says that a thread holds a request exactly while it is
inside the loop's body. `MoveOrRest` sorts the actions into those that move a request
and the others, for which nothing changes. `StatusesSound` carries the truth of a
status from where it is made (`Origins`, `ReportOrigins`) to the callback: it stays
true because a request on its way is in no worker's hands (`PlaceKept`), so nobody
runs it again. `Stages` says what each stage of the destructor has left: when the
completion workers are told to stop, every solver thread has exited, so nothing can
enter the completion queue any more. The cardinalities come last (`AtMostOne`).

### Proofs of the refinement (`SolvePlacesProofs.tla`)

`CoordinatorImplementsService` proves `Spec => ImplementsService` for any number of
requests and threads and any admission configuration: under the mapping at the end of
`SolveCoordinator` (`PhaseOf` and the last reply) every step is a step of `SolveService`
or one it does not see. The invariant is

    RInv == PInv /\ StartedRuns

`StartedRuns` ties the start stamp to the solver: a request is stamped exactly when its
payload has run or a worker is about to run it. It is what tells `solved` from
`unsolved` after the request has left the worker, so that, with `Honest` from `PInv`, the
status a callback is called with is one the service allows in that phase. `Load` turns
the service's cardinalities into the counters of the code: the queue has as many entries
as requests that wait, because it holds none twice, and `active` is the number of
requests in a solve, because no two workers hold the same one; a request is never in
both. With `AdmissionIsCapacity` this gives the guards of `Accept` and of `RejectFull`
(`FullIsFull`: the code says it is full only when it is, or when it closes), and the
free worker that takes a request gives the guard of `Start`. `SeenOrUnseen` sorts the
actions; `OneMoves` is the common form of a step that moves one request and leaves what
the phase of every other is made of (`Untouched`). One lemma for each action of the
service follows.

### The endpoints of the process (`OptimizeEndpoint.tla`, `HealthProbe.tla`)

`OptimizeEndpoint` puts the handler of `POST /api/v1/deliveries/optimize` on top of
`SolveService`: its steps are the service's actions `Accept`, `RejectFull`, `Start`,
`Finish`, `Expire` and `Answer`, joined with what the handler or a callback does at that
moment. That is sound because `SolveCoordinator` implements `SolveService`
(`CoordinatorImplementsService`). A request goes from `received` over `checked` (first
admission, which reserves nothing) to `Submit`; its callback ends it, or submits the
solve with weather delays, whose callback or refusal ends it. `Complete` is
`CompleteAndRespond` up to the counters; the log line, the notification of the writer
and the response on the event loop are steps of their own, as other threads run between
them. The service is never closed here: the context of each request under way holds a
reference to the coordinator.

The request tracker is part of the module, because it is what every request ends in:
`Queued` keeps the newest lines, `Take`, `Sleep`, `Write` and `EndWriter` are
`LogWriterLoop`, and `Destroy` is the destructor, which comes when nobody holds the
registry. `written` and `dropped` are where the lines have gone.

`HealthProbe` is `GET /health`: `AskCached` and `AskProbe` are the two results of the
critical section of `AddOsrmProbeWaiter`; `ProbeEnds` is the callback of the HTTP client
up to the end of its critical section, and `CallWaiter` what it does after that, when
the next request may already start the next probe. The callbacks of the client run on one
thread, so the next result waits for the end of the fan-out.

`MCApiParts` checks both together with `VroomRunner` (section 4): in a behaviour one of
the three moves, chosen by `part`. The run `api_parts` takes two requests, one place, one
solve at a time and one pending line for `RequestsServed`, and two health requests, a
cached result of one tick and a clock to four for `HealthServed`, each under the fairness
of its part.

Two requests for one place are enough for a refusal at each of the three admissions,
also for the second solve of a request; one pending line makes two lines drop one. Two
health requests are one that starts a probe and one that joins it, finds its result or
comes after it; four ticks let a cached result expire twice. Fairness is that of
threads, and of the coordinator's answers (`EveryAcceptedAnswered`); the HTTP client
calls back at its timeout at the latest. Nothing forces a request to come, the clock to
go on or a destructor to start.

`HealthProbeProofs` proves for any number of requests and any lifetime of the cache that
nobody is answered twice or with an old result (`HealthAnswersFresh`), and that the
callback of a waiting request is always in the list of a probe that is under way or about
to start, or among those being called (`HealthNoneForgotten`). The inductive invariant
says that a callback is kept in one place (`WaitersInv`) while its request waits and that
each waiting request has one (`PlacedInv`), that an unanswered request has no answers
(`AnswersInv`), how old the results on their way may be (`FreshInv`), and that
`probe_in_flight` is set exactly while one handler is about to start a probe or one is
sent (`ProbeInv`).

## 3. The job queue

### Modules

`JobStore.tla` is the table `optimization_jobs` with one operator per SQL
statement. Under READ COMMITTED a single `UPDATE ... WHERE` is one atomic step of
the rows it changes (PostgreSQL re-evaluates the condition on a row it had to wait
for, and the claim uses `FOR UPDATE SKIP LOCKED`), with one exception: `CreateJob`
counts the queued rows in the snapshot of its statement and then waits for an
advisory lock, so the count and the insert are two steps. Times are only compared
with `now()`, so a lease is `held` or `lapsed`, a retention `kept` or `over`.

`JobRuntime.tla` is `OptimizationJobRuntime` in several processes that share the
store, with the clients that create jobs. A step is one statement, or the code
between two of them that another thread can see.

| In the model | In the code |
|---|---|
| `job`, `arrivals` | the rows; the order of `queued_at` |
| `pc`, `claimed`, `current` | locals of `WorkerLoop`; `WorkerState::current_job_id` |
| `beat` | the worker and job id the heartbeat loop has copied |
| `stage`, `joining` | the destructor's progress: sweep, heartbeat, then the workers one by one |
| `counted`, `reply` | a `CreateJob` in progress and its answer |
| `recorded` | calls of `RecordAsyncJobCompletion` |
| `CheckStop`, `ClaimNextJob`, `ClaimNothing`, `SetCurrentJob`, `Complete`, `ClearCurrentJob` | `WorkerLoop` |
| `ClaimError`, `CompleteError`, `CreateError` | a statement that fails, or whose answer is lost after the commit |
| `HeartbeatRead`, `HeartbeatExtend` | `HeartbeatLoop` |
| `SweepStatement` | the three statements of a sweep |
| `Start`, `Crash`, `DestroySweep`, `DestroyHeartbeat`, `JoinWorker` | construction, `kill -9`, destructor |
| `LeaseLapses`, `RetentionEnds` | time |

Statements whose answer is lost are bounded by `MaxFaults`; crashes need no
bound, since each runtime starts once (a restarted process is another runtime,
with a fresh worker-id prefix as in the code). The solve touches nothing others
see and is merged into the step that stores its verdict. `TouchWorker`,
`RefreshObservability` and `GetStats` write the worker table and the gauges,
which no step reads; they are left out.

`JobLifecycle.tla` is what the queue promises about one job, whatever the workers
and processes do.

### Runs

| Run | Instance | Shows |
|---|---|---|
| `job_safety` (JobSafety) | 2 jobs, 2 processes of 1 worker, both mortal, 2 attempts, queue 1, symmetry | `OneWorkerPerAttempt`, `CompletionCountedOnce`, `ShutdownLeavesNoOrphan`, `AnswerIsFinal` |
| `job_faults` (JobFaults) | 1 job, 2 mortal processes, 3 attempts, 2 lost answers | `AttemptsBounded`, `ResultOfLastAttempt`, `ImplementsLifecycle` |
| `job_liveness` (JobLiveness) | 1 job, 2 processes of 2 workers, one mortal, `FairSpec` | `EveryJobFinishes`, `RuntimesStop` |
| `job_admission` (JobAdmission) | 2 jobs, queue 1 | violated: `AdmissionAtomic`, see [findings](#8-findings) |

Why the bounds are enough: two processes give a worker that is believed dead and
its successor; two attempts give a requeue and a final failure, and three give an
attempt that is neither; two lost answers cover a lost claim followed by a lost
completion; two workers in one process are needed for the destructor's one-by-one
join. Two jobs are needed for a heartbeat that extends the lease of a job its
worker has already left, and for a queue of one to be full.

All four configurations set `CHECK_DEADLOCK FALSE`: when every process has been
killed or destroyed and every lease has lapsed, the system really has stopped.

Fairness (`FairSpec`): threads of a runtime that is not killed are scheduled and
their solves end; a runtime that is not `Mortal` is started; the database answers
(liveness runs have no faults); a lease nobody extends lapses and a retention
period ends. Leases of a live worker are not forced to lapse.

### Proofs (`JobRuntimeProofs.tla`)

For any set of processes, workers per process, finite set of jobs and positive
limits, TLAPS checks every safety property of the job runs as a theorem, and two more:
`TypeOK`, `AttemptsBounded`, `RowsConsistent`, `ResultOfLastAttempt`,
`OneWorkerPerAttempt`, `CompletionCountedOnce`, `ShutdownLeavesNoOrphan`, the
action property `AnswerIsFinal`, and the refinement `ImplementsLifecycle`.

The inductive invariant is

    IInv == TypeOK /\ RowsOK /\ Fresh /\ OffByStage /\ ClaimedByPc /\ ClaimsOfPast
            /\ HolderHasLastAttempt /\ OneWorkerPerAttempt /\ CompletionCountedOnce

The argument has two layers. `RowStep` says what one step of anyone may do to one
row, and every action is shown to do only that to every row (`AllRowSteps`); the
row properties, the lifecycle refinement and `AnswerIsFinal` follow from it
without looking at the actions again. `StepKinds` says what a step may do to the
workers: claim one job, create one, or neither. `OneWorkerPerAttempt` is not
inductive alone: a new claim is distinct from all others because the attempt
number it gets is larger than any that was ever handed out (`ClaimsOfPast`), and a
row's owner still works on its last attempt (`HolderHasLastAttempt`).
`ShutdownLeavesNoOrphan` uses a second invariant: a row owned by a worker whose
process is alive is a row that worker is working on, and a joined worker has
exited.

## 4. The VROOM runner

### Modules

`VroomRunner.tla` is `ProcessVroomRunner::Run` (`vroom_runner.cpp`), called by
several threads of one process at a time, with the programs they start. A step is
one system call of a thread, one write of a program, or its end.

The calls meet in one place. `pipe()` does not set close-on-exec, so a program
that another thread spawns while this call has its write end open inherits it, and
this pipe does not end before that program does. `writers[r]` is the set of
processes that have the write end of `r`'s pipe open.

| In the model | In the code |
|---|---|
| `child`, `code`, `written`, `pipe`, `writers` | the operating system: process, exit status, output, pipe buffer, open write ends |
| `exited`, `closed`, `output` | `process_exited`, `output_closed`, `output_text` (in chunks, one per `read`) |
| `late` | the deadline has passed, at `poll`'s resolution |
| `status` | the `VroomRunResult` returned |
| `OpenPipe`, `Spawn`, `CloseWriteEnd` and their failures | the head of `Run` |
| `TryWaitForProcessExit`, `ReadOutputChunk`, `DrainEnds`, `TimeOut`, `AwaitOutput`, `PollReturns`, `PollTimesOut`, `MonitorFails` | one turn of `MonitorProcessOutput` |
| `Complete`, `Abort` | the tail of `Run` |
| `ChildWrite`, `ChildExit` | the program (external) |

Assumptions: the program has no descendants that keep its stdout; `kill` and
`waitpid` of the thread's own child do not fail; the executable exists when
`posix_spawn` succeeds, or the child exits with a non-zero status; a chunk is what
one `read` returns.

### Run

In `api_parts` (MCApiParts): two calls, a pipe of two chunks, a limit of one chunk,
programs that write up to two. Two calls are enough for each to inherit the other's
pipe; a pipe of two chunks keeps data behind a read when the program ends; the second
chunk exceeds the limit. The run shows
`ChildReaped`, `SuccessIsWhole`, `TimeoutHonest` and
`RunReturns` under `FairSpec`: threads are scheduled and the clock goes on, while a
program is never forced to write or to end. `RunReturns` is what the solve
coordinator's `CalleeFairness` assumes of `VroomRunner::Run`; it starts when the
program has been spawned, since what comes before consists of calls that return.

### Proofs (`VroomRunnerProofs.tla`)

For any number of concurrent calls, any pipe and any limit: `TypeOK`,
`ChildReaped`, `SuccessIsWhole`, `TimeoutHonest` and `WritersWatched`, all from

    IInv == TypeOK /\ ChildByPc /\ PipesOK /\ OutputOK /\ StatusOK /\ WritersWatched

`OutputOK` says that nothing is lost (what was written is what was read plus what
is in the pipe). `PipesOK` says that a live program has its own pipe open, so a
pipe that was seen to end is empty and stays so: with both, an exit and an end
seen in either order give the whole output. `WritersWatched` is inductive with
`ChildByPc`: a spawn adds only the new, watched program to pipes, and every path
out of a call takes its program out of all of them.

## 5. The edit page

In the browser nothing runs in parallel, but everything that waits (a request, a file
being read, a timer) leaves the page free to go on, and its continuation may find
another page, another list or another question on the screen. A step of the modules
below is one event handler, effect or continuation up to its next `await`, with the
effects React runs after it.

| Module | Code | State and actions |
|---|---|---|
| `OptimizeClient` | `useOptimize.ts`, `partialOptimizationApproval.ts`, the dialogs of `edit/page.tsx` | `approved` is `allowPartialRef`, `active` the flight behind `optimizeInFlightRef`; a run is one call of `optimize()` with the lists it closed over (`Optimize`, `DepotLocated`, `AddressesLocated`, `Submitted`, `Poll…`, `ResultArrives`, `Fails`, `GiveUp`), the user's side is `Edit`, `Leave`, `Return`, `StartOptimize`, `OptimizeAnyway`, `Dismiss` |
| `AddressList` | `useAddresses.ts`, `AddressSection.tsx`, `AddressCard.tsx` | `rows` with their lock, times, quantity, place and cached location; `search`, `page`, `perPage`; `highest` is the high-water mark of the ids |
| `VehicleList` | `useVehicles.ts`, `VehicleDetailsOverlay.tsx`, `deliveryHelpers.ts`, `sessionMapper.ts`, `timeConversion.ts` | `fleet`, the overlay's `form`; `EnterHours` and `EnterMinutes` with the automatic minutes, `SaveForm`, `ReopenSavePoint` with both conversions |
| `CSVImport` | `CSVUploadOverlay.tsx`, `useCSVImport.ts` | files being read (`reads`), the table shown, and the overrides of columns and rows with the header row they belong to |
| `EditSession` | `upload-save-point/page.tsx`, the hydration and the draft timer of `edit/page.tsx`, `lib/session` | the three entries of the tab's storage (`savePoint`, `forwarded`, `draft`), the mount of the edit page and what it has restored |
| `AddressEntry` | `useAddressAutocomplete.ts`, `AddressOverlay.tsx`, `nominatim.ts` | one clock (`lastRequestAt`) for all calls; typing, debounce, suggestions |

`Lists` has what `Array.filter` leaves of a list, `EntriesAt`, which the lists of rows,
vehicles and routes use.

`EditPages` puts the six together; `view` says which of them moves in a behaviour, and
`MCEditPages` is the instance for TLC. They are not composed step by step: what they
share is small (the lists and the storage of the tab), and each module carries as much of
it as its properties need. `OptimizeClient` keeps lists as a version with two facts about
them (complete, over capacity), `EditSession` as a version of a numbered upload.

The run `ui_edit` (EditPages):

| Property | Says |
|---|---|
| `ConsentPerRun` | the approval to leave deliveries out exists only while its question or its run does, and no run of lists over capacity flies on its page without one |
| `RoutesMatchLists` | routes that arrive while the page of their run is open are those of the lists on it |
| `OptimizingEnds` | the modal that blocks the page goes away |
| `AddressesAreSound` | at most one row is open, ids are unique, a cached location is that of its address, the page shown exists |
| `DeparturesKept` | typed minutes survive a change of the hours, every stored departure lies within the day, and a save point gives back every departure but midnight |
| `ImportedUnderItsColumns` | rows are imported under columns of their own file, whichever read ended last |
| `DraftKept` | the saved draft is only replaced by later work, apart from the exceptions it names |
| `SpacedWhenAlone` | a request to Nominatim that waited alone keeps its distance from the last one |

Bounds: two runs and two visits, since a second run needs an end or a leave of the
first; one edit, one unfinished poll. Two rows with pages of one or two, so that a
deletion can empty the last page; two ids, since a row is compared with one other. One
vehicle, hours 12 and 13 and minutes 30 and 75, one valid and one invalid each. Two
reads at a time of four files, two of them tables with different columns, one not a
table and one too big and of another kind. Two uploads, two mounts, one edit. Two calls
under way on five ticks with an interval of two. Reads and calls take the first free
slot, which names them without adding states.

Fairness: a weak one for the steps of each run. The browser settles every fetch, the
route's own attempts are bounded (`JobGateway`), and the pauses between polls are
timers. The user and the timer of the draft need none.

### Proofs (`EditPagesProofs.tla`)

Every property of the run but `OptimizingEnds` is proved for any value of the constants
that the assumptions of the modules allow: any number of runs, mounts, calls, rows, page
sizes, vehicles, texts, files, and reads under way. `PartsKeepToTheirs` says that a
behaviour of `EditPages` is a behaviour of each part; so each part has its own invariant,
and none of the properties is inductive without it.

| Theorem | Property | What the invariant adds |
|---|---|---|
| `ConsentIsPerRun`, `RoutesOfTheLists` | `ConsentPerRun`, `RoutesMatchLists` | a run in flight on its own page is the one behind `optimizeInFlightRef` (`FlightIsActive`), no question is on screen meanwhile (`OneDialog`), the lists it closed over are still those of the page (`ListsKept`), and no run carries a mount yet to come (`VisitsPast`): after `Return` no older run passes for one of the new page |
| `LoneRequestsAreSpaced` | `SpacedWhenAlone` | the clock is the time of the last request sent (`ClockIsTrue`), so that the wake-up of a call that waits alone counts from it (`LoneCallCounts`): whoever could move the clock meanwhile has joined it and taken its mark |
| `DraftNeverGoesBack` | `DraftKept` | files are numbered as they are handed over (`SerialsPast`), a save point that is stored or about to be is newer than the draft (`UploadsAreNewer`), the page loads only that one and only until its lists are there (`LoadsOfThePage`), no timer runs before that (`PagesAreAlone`); hence lists that come from the draft or a save point are never behind it (`ListsAreAhead`) |
| `RowsComeUnderTheirColumns` | `ImportedUnderItsColumns` | the header row seen last is that of the table shown (`KeyOfTable`) and an override of the columns is one of those columns (`MappingOfKey`), although a read may replace the table at any time |
| `DeparturesAreKept` | `DeparturesKept` | every stored departure is a time of the form (`SoundFleet`), typed minutes are there and are not the automatic ones (`TypedMinutes`); `SecondsComeBack` is the arithmetic of both conversions, for every time of the day |
| `AddressesStaySound` | `AddressesAreSound` | no row has an id above the high-water mark (`MarkIsAbove`), the address being located is still that of its row (`LookupIsOfRow`, because the dialog covers the section), and the page is one of the whole list while nothing is searched (`PageExists`) |

`ListFacts` holds what both proof modules need of lists: what `EntriesAt` keeps
(`EntriesAtFacts`, `EntriesAtRanks`), that a finite set of numbers has a greatest element,
and that a list whose entries have different ids has as many ids as entries
(`DistinctIdsCounted`).

The assumption that proof made necessary: a table that can be read has columns
(`CSVAssumption`). The code drops rows without text and refuses JSON without keys, and a
table without columns would make the comparison of header rows say "same table".

## 6. Results, drivers and server routes

| Module | Code | State and actions |
|---|---|---|
| `ResultsPage` | `results/page.tsx`, `Sidebar.tsx`, `ResultsBottomSheet.tsx`, `RouteCard*.tsx`, the export and send dialogs, `whatsappClient.ts` | `draft` with the result it was made from (`source`), `pending` pin, expanded `cards`, the open `dialog`, `flights` of messages |
| `RouteMap` | `results/components/Map.tsx` | `lines` and `pins` of the map, the `cache` of roads; `draws` and `marks` are runs of the two effects whose answers are still to come, each with its `cancelled` flag |
| `DriverAssist` | `upload-route/page.tsx`, `driver-view/page.tsx`, `driver_assist/page.tsx`, `lib/driver-route` | `handed` (session storage), `saved` (local storage), the route on the page, files being read |
| `MobileDeliveries` | `app/mobile/app/(tabs)/index.tsx`, `features/deliveries` | `stored` is AsyncStorage, `writes` the calls not carried out yet; `Restore`, `WriteEnds`, `Kill` |
| `JobGateway` | `api/optimization-jobs/**`, `deliveryOptimizerClient.ts`, `retry.ts` | a `request` per call of a route; the cached token with its recorded and its real expiry |
| `Feedback` | `FeedbackLauncher.tsx`, `api/feedback/route.ts`, `lib/feedback` | the form, requests at their awaits (`guard`, `verify`, `token`, `fetch`, `wait`, `issue`, `created`: the issue exists and its answer is on the way, `record`), `shutdown`, `guards`, `accepted`, the shared token; `issues` is what GitHub has, `lost` the history of answers that did not arrive |

`FieldPages` puts them together, again with one of them moving in a behaviour, and
`MCFieldPages` is the instance for TLC. The
messages of `ResultsPage` reach a driver as the files `DriverAssist` and
`MobileDeliveries` import; `JobGateway` is what `OptimizeClient` calls, and its answers
there are success or failure.

The run `ui_field` (FieldPages):

| Property | Says |
|---|---|
| `ExportMatchesView` | what leaves the page in a file or message is what the page shows, a moved pin included |
| `SentMeansDelivered` | the badge "Sent" stands only on a route of which a message was confirmed: not on copies, nor on the routes of a later optimisation |
| `MapShowsRoutes` | every route has its line, and lines and pins are where the stops are unless a pin is being moved, whatever answers arrive late |
| `DoneStaysDone` | a stop delivered or reported never turns into work again while its route is the saved one |
| `DeliveryIsSound` | once writes have ended well the phone holds what it shows; a report is for the open stop that is still to be done. A route that a failed read of the storage hides, and the write after it erases, is not on the screen: the property does not watch it ([findings](#8-findings)) |
| `AttemptsAreSound` | no attempt carries an expired token, and a call makes at most one attempt and one job per retry and one more |
| `IssuesAreSound` | in one process without a bucket, the issues of a day of which the route heard, or still may, stay within the daily limit and the requests under way (the code does not count an issue whose answer is lost, so those come on top without a bound); nobody waits for a token that nobody fetches, and a text becomes two issues only after a failure the user saw |

Bounds: one route of an optimisation and one copy, two optimisations, one send under
way, both layouts (`ResultsBound`: one expanded card, one confirmed message, new
results on wide windows only; notes are written there, to the first result, before a
message is confirmed). Two routes on the map, the second too long for the
service, two positions, a cache of one road, two runs of each effect. Two stops; two
uploads of five kinds of file. Two writes that wait, one import, any number of kills.
Two calls with one retry, a token that lives three ticks with a margin of two. One
client of the feedback form with two requests, a limit of one issue a day, two days
(`FeedbackBound`: two issues more than the limit, one lost answer of GitHub, one request
under way at midnight, screenshots on the first day): enough for two requests at the
limit at once with the answer of one of them lost.

The run `shared_budget` (SharedBudget) checks what the header of `nominatim.ts` says of
the shared clock and finds it violated, see [findings](#8-findings).

### Proofs (`FieldPagesProofs.tla`)

All seven properties of the run are proved, for any routes, stops, positions, clients,
calls and days, and any limits; each part again from an invariant of its own.

| Theorem | Property | What the invariant adds |
|---|---|---|
| `BadgesAreEarned` | `SentMeansDelivered` | a draft of the results on screen wears only badges of confirmed messages; one of earlier results may wear others and never shows again (`DraftIsSound`); no message under way is of a result yet to come |
| `ExportsAreWhatIsSeen` | `ExportMatchesView` | no pin waits behind a dialog that exports or sends (`NothingWaits`) |
| `WorkIsNeverUndone` | `DoneStaysDone` | a serial is in one place at a time: a file being read, the handed file, or the routes saved and shown (`ReadsAreApart`, `HandedIsApart`); a route on the page that has the serial of the saved one is that one (`RoutesAreOne`); a report is for a pending stop (`ReportIsPending`) |
| `DeliveriesStaySound` | `DeliveryIsSound` | the last write that waits is the route shown (`LastWriteIsShown`); nothing is reported before the route is restored or without one |
| `LateAnswersAreNotDrawn` | `MapShowsRoutes` | a run of an effect that was not cancelled is of the routes the page has (`RunsAreOfRoutes`); exactly the routes that are there have lines (`LinesAreDrawn`), and pins are absent or in place (`PinsAreSet`) |
| `AttemptsStaySound` | `AttemptsAreSound` | a token outlasts not the next attempt only but all the retries its call has left (`TokenOutlasts`), the recorded expiry is not later than the real one (`ExpiryIsHonest`), sent attempts and retries left add up (`AttemptsCounted`) |
| `IssuesStaySound` | `IssuesAreSound` | a pending token has the request that fetches it (`TokenIsFetched`); a text that is not in doubt has one request of its own, or one issue and then no button (`OneForText`); every issue of the day is counted, lost, or of a request that waits for its answer, and after the threshold the requests that may still create one bound those to come (`DayIsCounted`) |

Two of them need more than that constants are sets and numbers.

`AttemptsStaySound` assumes `MarginCoversRetries`: the retries of one call, each as long
as an answer and the body of its error can take, fit into the margin and are shorter than
a token's life. It is an assumption about the deployment: with the default timeout of
60 s, the margin of 5 minutes and two retries it leaves a minute and a half for the body
of each error answer, which no timer limits; a longer `DELIVERYOPTIMIZER_API_TIMEOUT_MS`
uses it up.

`IssuesStaySound` needs `Slots`, the requests under way, to be finite
(`FeedbackAssumption`), as they are in a server; the daily limit is only kept up to their
number. What it says of the day is weaker than "no more than the threshold": it is about
one process, as the counter is (`src/app/ui/README.md:38`), about a server without a
bucket, where the flag in memory alone decides, and about issues the route heard of.
`createFeedbackIssue` may throw after GitHub created the issue (`AnswerLost`); nothing
counts that one, and `ThresholdHolds` subtracts it.

## 7. Mutants, and what is only model-checked

Every safety property that a passing run checks is a listed theorem, but for the safety
halves of two that also promise an end. What is left to TLC:

- `EveryAcceptedAnswered`, `DestructorReturns`, `QueueNeverStuck`, `EveryJobFinishes`,
  `RuntimesStop`, `RunReturns`, `OptimizingEnds`: liveness. Fairness and `ENABLED` are
  outside the prover's reach.
- `HealthServed` and `RequestsServed`, which have both a safety and a liveness half. The
  first half of `HealthServed` is `HealthAnswersFresh` and `HealthNoneForgotten`; that of
  `RequestsServed` (one response per request, every log line written or counted) is not
  proved yet.
- The three properties of [findings](#8-findings), which do not hold.

Induction over data and recursive operators are outside the prover's reach as well; no
module uses either. `EntriesAt` replaces the recursive `SelectSeq` where a proof needs it.

Each property of a passing run has a mutant: a variant of one operator that a
plausible bug would produce (a dropped guard, a forgotten notification, an
off-by-one). The mutants are the operators whose comment says "Mutant of" or
"Plausible mistake"; nothing uses them, and substituting one for the operator that
follows it makes TLC report the property violated. They show that each property
depends on the code it is about.

## 8. Findings

**The solver gauge stays wrong after shutdown** (run `gauge_after_shutdown`). The
destructor copies `active_solves_` under the lock and publishes the copy after
it has released it (`app/api/src/solve_coordinator.cpp:94`). A worker that finishes
in between publishes first, and its value is overwritten: `Current number of
inflight solver executions` stays above zero when none is left.

**Admission to the job queue is not atomic** (run `job_admission`).
`docs/allocation-optimizations.md:62` speaks of "the atomic admission
transaction". `CreateJob` takes an advisory lock and counts in one SQL statement
(`app/api/src/optimization_job_store.cpp:289`), whose snapshot is taken before it
waits for the lock. Two statements that start together both count the queue before
either inserts, and `max_queue_size` is exceeded.

**Callers of Nominatim do not share one budget** (run `shared_budget`). The header of
`app/ui/src/app/components/AddressGeocoder/utils/nominatim.ts` says that all callers
share one request per second "and can never race each other". `throttle()` computes its
pause from the last request, awaits it, and sets the time afterwards: two calls that
come within that second wake together and both send.

The following were met while the modules were written. The models contain them, or
they concern data the models leave out; no run is about them. Paths are under
`app/ui/src/app`, those of the server under `app/api/src`, unless they begin with `app/`.

Server:

- `deliveries_optimize_endpoint.cpp` (263): the second, weather-adjusted solve goes through
  the same admission as any other. If it is refused, the request ends with 503 and as
  `kRejectedQueueFull`, although its first solve was executed and has routes; the metric's
  help text is "Count of solver requests rejected before execution." A request that is
  solved twice also counts twice as accepted.
- `observability.cpp` (472): the metric of failed log lines promises "dropped or failed
  during write", but `LogWriterLoop` does not look at the state of the stream, and nothing
  calls `RecordTrackerWriteFailure`.

Editing:

- `useAddressAutocomplete.ts`: a selection does not clear the debounce timer, so
  suggestions reopen over the chosen address; late answers replace newer suggestions; the
  selected index survives them, so Enter may find no suggestion.
- `edit/components/address/AddressCard.tsx` (514-520): choosing the blank end time clears
  the start time.
- `useAddresses.ts`: after a deletion during a search the page may be one that does not
  exist; after the import of a save point ids can be issued again.
- `edit/page.tsx`: when a save point cannot be imported, or a table was forwarded, the
  lists are empty, and half a second later they replace the saved draft. "New session"
  leaves `savePointFile`, so an old save point comes back; one of more than 1 MB fails at
  every visit and hides forwarded tables behind it.
- `timeConversion.ts`: a save point loses departures at midnight.

Results and feedback:

- `results/page.tsx`: the callback of a send that ends after another optimisation
  replaces the draft of the new routes with one of the old; a moved pin survives new
  results; a reopened send dialog preselects routes that were sent.
- `results/components/Map.tsx`: dragging a second pin leaves the first where it was
  dropped; a late answer redraws the committed line under a moved pin; a failed request
  leaves an old distance.
- `results/summary`: `useSyncExternalStore` gets a new object on every call.
- `lib/feedback/github.ts`, `api/feedback/route.ts`: when GitHub created the issue and its
  answer is lost, cannot be read or has no `html_url`, the answer is 502 and the issue is
  not counted: a retry creates another, and the daily shutdown does not bound these.
- `api/feedback/route.ts`: when the guard object cannot be written, or the answer of that
  write is lost, the answer is 502 although the issue exists; a request from before midnight overwrites
  the flag of the new day. `FeedbackLauncher.tsx`: a success empties text typed meanwhile.

Mobile:

- `app/mobile/features/deliveries/utils/endShift.ts`: on iOS the share sheet resolves
  when it is dismissed, and the route is then cleared without an export.
- A read of the storage that fails is followed by a write of "no route", although the
  screen promises to reopen the route for 24 hours. The first pending card cannot be kept closed.

## 9. What is not modelled

- Histograms and the gauges of jobs in the observability module, which nothing reads
  back; the worker table of the job store; the check of the VROOM binary by `/health`,
  which looks at a file once.
- Parsing, validation, the building of response bodies and metrics text; weather
  arithmetic; the proxies, which forward a request and an answer; the libraries under
  `libs`, which convert data; start-up wiring, apart from the clamps it applies to
  options, which are the assumptions on the constants.
- `AddressGeocoder/index.tsx` with its parts and `AddressAutocompleteInput.tsx`, which no
  page imports; the summary page and the hover cards, which show what others keep;
  styles, icons and layout; navigation and theming of the mobile application.
- Deployment, infrastructure and benchmarks.

Data is abstracted throughout: an address is a member of a small set with or without a
cached location, a file is its kind, a text is filled or blank, a road is its end points.

## 10. Where to go on

1. `OptimizeClient` over `JobGateway` over `JobRuntime` in one state space; each is
   checked against the interface it uses, and the interfaces are few answers.
2. The safety half of `RequestsServed`: one response per request over `SolveService`, and
   the log queue with its writer.
3. Lemmas under the liveness properties: that what each of them waits for is never lost,
   as `HealthNoneForgotten` says of the health endpoint.

## 11. Running the checks

    tlc -workers 2 -config SolveSafety.cfg MCSolveCoordinator.tla
    tlc -workers 2 -config EditPages.cfg MCEditPages.tla
    tlapm JobRuntimeProofs.tla

Each run in `PROJECT.json` names its module and its configuration. The longest runs
take three to four minutes, the proofs of a module up to five.
