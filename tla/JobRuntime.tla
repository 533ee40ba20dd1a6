----------------------------- MODULE JobRuntime -----------------------------
(***************************************************************************)
(* OptimizationJobRuntime (app/api/src/optimization_job_runtime.cpp): in    *)
(* every API process a pool of workers that claim jobs from the store and  *)
(* solve them, a heartbeat thread that extends their leases, and a sweep   *)
(* thread that takes jobs back from workers that are gone.  Processes      *)
(* start, are destroyed or are killed at any time; clients create jobs.    *)
(*                                                                         *)
(* A step is one SQL statement of JobStore, or the code between two of     *)
(* them that other threads can see.  TouchWorker and RefreshObservability   *)
(* are left out: they write the table of workers and the gauges, which no  *)
(* step of this module reads.                                              *)
(***************************************************************************)
EXTENDS JobStore

CONSTANTS
  Runtimes,       \* the OptimizationJobRuntime objects, one per process start
  WorkerCount,    \* OptimizationJobRuntimeOptions::worker_count
  Mortal,         \* the runtimes that may be killed or destroyed
  MaxFaults       \* statements whose answer is lost (bounds the model)

\* worker_id is the prefix of the process and the index of the thread.
ASSUME RuntimeConfig ==
  /\ Mortal \subseteq Runtimes
  /\ WorkerCount \in Nat \ {0}
  /\ Workers = Runtimes \X (1..WorkerCount)
  /\ MaxFaults \in Nat
  /\ None \notin JobIds \X Nat
  /\ None \notin {"kCreated", "kQueueFull", "kError"}

VARIABLES
  stage,      \* where each runtime is in its life
  joining,    \* the worker its destructor stops and joins
  pc,         \* where each worker is in WorkerLoop
  claimed,    \* the job a worker has claimed, and which attempt it is
  current,    \* WorkerState::current_job_id
  beat,       \* the worker and job id the heartbeat thread has read
  counted,    \* the count CreateJob read in its snapshot
  reply,      \* what CreateJob returned
  recorded,   \* calls of RecordAsyncJobCompletion, per job
  faults      \* statements whose answer was lost so far

threadVars == <<stage, joining, pc, claimed, current, beat>>
vars == <<storeVars, threadVars, counted, reply, recorded, faults>>

Init ==
  /\ StoreInit
  /\ stage = [p \in Runtimes |-> "off"]
  /\ joining = [p \in Runtimes |-> 0]
  /\ pc = [w \in Workers |-> "off"]
  /\ claimed = [w \in Workers |-> None]
  /\ current = [w \in Workers |-> None]
  /\ beat = [p \in Runtimes |-> None]
  /\ counted = [j \in JobIds |-> None]
  /\ reply = [j \in JobIds |-> None]
  /\ recorded = [j \in JobIds |-> 0]
  /\ faults = 0

\* One more statement whose answer does not arrive.
Fault == faults < MaxFaults /\ faults' = faults + 1

-----------------------------------------------------------------------------
(* POST /api/v1/optimization-jobs *)

\* The statement starts, takes its snapshot and waits for the advisory lock.
CreateBegin(j) ==
  /\ reply[j] = None /\ counted[j] = None
  /\ StartCreate(j)
  /\ counted' = [counted EXCEPT ![j] = QueuedJobs]
  /\ UNCHANGED <<job, threadVars, reply, recorded, faults>>

CreateEnd(j) ==
  /\ reply[j] = None /\ counted[j] # None
  /\ InsertIfRoom(j, counted[j])
  /\ reply' = [reply EXCEPT ![j] =
                 IF job'[j].state = "queued" THEN "kCreated" ELSE "kQueueFull"]
  /\ counted' = [counted EXCEPT ![j] = None]
  /\ UNCHANGED <<arrivals, threadVars, recorded, faults>>

\* The connection is lost before or after the commit.
CreateError(j) ==
  /\ reply[j] = None /\ counted[j] # None
  /\ Fault
  /\ InsertIfRoom(j, counted[j]) \/ UNCHANGED job
  /\ reply' = [reply EXCEPT ![j] = "kError"]
  /\ counted' = [counted EXCEPT ![j] = None]
  /\ UNCHANGED <<arrivals, threadVars, recorded>>

-----------------------------------------------------------------------------
(* WorkerLoop *)

RuntimeOf(w) == w[1]

\* Mutant of StopRequested: the worker being joined has not been told.
StopRequestedBefore(w) ==
  stage[RuntimeOf(w)] = "joining" /\ w[2] < joining[RuntimeOf(w)]

\* ~OptimizationJobRuntime destroys the workers in order: each is told to stop
\* only when the one before it has been joined.
StopRequested(w) ==
  stage[RuntimeOf(w)] = "joining" /\ w[2] <= joining[RuntimeOf(w)]

CheckStop(w) ==
  /\ pc[w] = "top"
  /\ pc' = [pc EXCEPT ![w] = IF StopRequested(w) THEN "exited" ELSE "claiming"]
  /\ UNCHANGED <<storeVars, stage, joining, claimed, current, beat,
                 counted, reply, recorded, faults>>

ClaimNextJob(w) ==
  /\ pc[w] = "claiming"
  /\ \E j \in JobIds :
       /\ IsNextJob(j) /\ ClaimJob(j, w)
       /\ claimed' = [claimed EXCEPT ![w] = <<j, job'[j].attempts>>]
  /\ pc' = [pc EXCEPT ![w] = "claimed"]
  /\ UNCHANGED <<arrivals, stage, joining, current, beat, counted, reply, recorded,
                 faults>>

ClaimNothing(w) ==
  /\ pc[w] = "claiming" /\ QueuedJobs = 0
  /\ current' = [current EXCEPT ![w] = None]
  /\ pc' = [pc EXCEPT ![w] = "top"]
  /\ UNCHANGED <<storeVars, stage, joining, claimed, beat, counted, reply, recorded,
                 faults>>

\* The statement fails, or its answer is lost after the job has been claimed.
ClaimError(w) ==
  /\ pc[w] = "claiming"
  /\ Fault
  /\ UNCHANGED job \/ \E j \in JobIds : IsNextJob(j) /\ ClaimJob(j, w)
  /\ current' = [current EXCEPT ![w] = None]
  /\ pc' = [pc EXCEPT ![w] = "top"]
  /\ UNCHANGED <<arrivals, stage, joining, claimed, beat, counted, reply, recorded>>

\* Mutant of SetCurrentJob: a worker told to stop leaves with the job it claimed.
SetCurrentJobOrExit(w) ==
  /\ pc[w] = "claimed"
  /\ current' = [current EXCEPT ![w] = claimed[w][1]]
  /\ pc' = [pc EXCEPT ![w] = IF StopRequested(w) THEN "exited" ELSE "solving"]
  /\ UNCHANGED <<storeVars, stage, joining, claimed, beat, counted, reply, recorded,
                 faults>>

SetCurrentJob(w) ==
  /\ pc[w] = "claimed"
  /\ current' = [current EXCEPT ![w] = claimed[w][1]]
  /\ pc' = [pc EXCEPT ![w] = "solving"]
  /\ UNCHANGED <<storeVars, stage, joining, claimed, beat, counted, reply,
                 recorded, faults>>

\* CompleteJobFailure if the stored request is invalid, else CompleteJobSuccess
\* or CompleteJobFailure, as VroomRunner::Run ended.  The solve itself touches
\* nothing that others see, so it is part of the step that stores its verdict.
StoreVerdict(w) ==
  \E state \in FinishedStates :
    CompleteJob(claimed[w][1], w, state,
                IF state = "succeeded" THEN claimed[w][2] ELSE None)

\* Mutant of RecordIfStored: the completion is counted whatever the store said.
RecordAlways(w) == recorded' = [recorded EXCEPT ![claimed[w][1]] = @ + 1]

\* A completion is counted when the statement says it has changed the row.
RecordIfStored(w) ==
  recorded' = IF Holds(claimed[w][1], w)
              THEN [recorded EXCEPT ![claimed[w][1]] = @ + 1]
              ELSE recorded

Complete(w) ==
  /\ pc[w] = "solving"
  /\ StoreVerdict(w)
  /\ RecordIfStored(w)
  /\ pc' = [pc EXCEPT ![w] = "completed"]
  /\ UNCHANGED <<arrivals, stage, joining, claimed, current, beat, counted,
                 reply, faults>>

CompleteError(w) ==
  /\ pc[w] = "solving"
  /\ Fault
  /\ StoreVerdict(w) \/ UNCHANGED job
  /\ pc' = [pc EXCEPT ![w] = "completed"]
  /\ UNCHANGED <<arrivals, stage, joining, claimed, current, beat, counted,
                 reply, recorded>>

ClearCurrentJob(w) ==
  /\ pc[w] = "completed"
  /\ current' = [current EXCEPT ![w] = None]
  /\ claimed' = [claimed EXCEPT ![w] = None]
  /\ pc' = [pc EXCEPT ![w] = "top"]
  /\ UNCHANGED <<storeVars, stage, joining, beat, counted, reply, recorded, faults>>

-----------------------------------------------------------------------------
(* HeartbeatLoop and SweepLoop *)

\* The loop visits every worker; it may act on an id the worker has replaced.
HeartbeatRead(w) ==
  LET p == RuntimeOf(w)
  IN  /\ stage[p] \in {"up", "sweepStopped"}
      /\ beat[p] = None /\ current[w] # None
      /\ beat' = [beat EXCEPT ![p] = [worker |-> w, id |-> current[w]]]
      /\ UNCHANGED <<storeVars, stage, joining, pc, claimed, current,
                     counted, reply, recorded, faults>>

HeartbeatExtend(p) ==
  /\ stage[p] \in {"up", "sweepStopped"} /\ beat[p] # None
  /\ ExtendJobLease(beat[p].id, beat[p].worker)
  /\ beat' = [beat EXCEPT ![p] = None]
  /\ UNCHANGED <<arrivals, stage, joining, pc, claimed, current, counted,
                 reply, recorded, faults>>

\* The sweep thread keeps nothing between its statements and repeats them for
\* ever, so they may come in any order.
SweepStatement(p) ==
  /\ stage[p] = "up"
  /\ FailExhaustedJobs \/ RequeueExpiredJobs \/ ExpireFinishedJobs
  /\ job' # job
  /\ UNCHANGED <<arrivals, threadVars, counted, reply, recorded, faults>>

-----------------------------------------------------------------------------
(* The life of a runtime *)

WorkersOf(p) == {w \in Workers : RuntimeOf(w) = p}

Start(p) ==
  /\ stage[p] = "off"
  /\ stage' = [stage EXCEPT ![p] = "up"]
  /\ pc' = [w \in Workers |-> IF w \in WorkersOf(p) THEN "top" ELSE pc[w]]
  /\ UNCHANGED <<storeVars, joining, claimed, current, beat, counted, reply,
                 recorded, faults>>

\* kill -9, or the host is gone: the rows stay as they are.
Crash(p) ==
  /\ p \in Mortal /\ stage[p] \notin {"off", "down", "crashed"}
  /\ stage' = [stage EXCEPT ![p] = "crashed"]
  /\ pc' = [w \in Workers |-> IF w \in WorkersOf(p) THEN "exited" ELSE pc[w]]
  /\ claimed' = [w \in Workers |-> IF w \in WorkersOf(p) THEN None ELSE claimed[w]]
  /\ current' = [w \in Workers |-> IF w \in WorkersOf(p) THEN None ELSE current[w]]
  /\ beat' = [beat EXCEPT ![p] = None]
  /\ UNCHANGED <<storeVars, joining, counted, reply, recorded, faults>>

\* sweep_thread_ = std::jthread{}
DestroySweep(p) ==
  /\ p \in Mortal /\ stage[p] = "up"
  /\ stage' = [stage EXCEPT ![p] = "sweepStopped"]
  /\ UNCHANGED <<storeVars, joining, pc, claimed, current, beat, counted,
                 reply, recorded, faults>>

\* heartbeat_thread_ = std::jthread{}, then the first worker is told to stop.
DestroyHeartbeat(p) ==
  /\ stage[p] = "sweepStopped" /\ beat[p] = None
  /\ stage' = [stage EXCEPT ![p] = "joining"]
  /\ joining' = [joining EXCEPT ![p] = 1]
  /\ UNCHANGED <<storeVars, pc, claimed, current, beat, counted, reply,
                 recorded, faults>>

JoinWorker(p) ==
  /\ stage[p] = "joining" /\ pc[<<p, joining[p]>>] = "exited"
  /\ IF joining[p] < WorkerCount
     THEN joining' = [joining EXCEPT ![p] = @ + 1] /\ UNCHANGED stage
     ELSE stage' = [stage EXCEPT ![p] = "down"] /\ UNCHANGED joining
  /\ UNCHANGED <<storeVars, pc, claimed, current, beat, counted, reply,
                 recorded, faults>>

-----------------------------------------------------------------------------
Client(j) == CreateBegin(j) \/ CreateEnd(j) \/ CreateError(j)

WorkerStep(w) ==
  \/ CheckStop(w) \/ ClaimNextJob(w) \/ ClaimNothing(w) \/ ClaimError(w)
  \/ SetCurrentJob(w) \/ Complete(w) \/ CompleteError(w) \/ ClearCurrentJob(w)

Destroy(p) == DestroyHeartbeat(p) \/ JoinWorker(p)

Time(j) ==
  /\ LeaseLapses(j) \/ RetentionEnds(j)
  /\ UNCHANGED <<threadVars, counted, reply, recorded, faults>>

Next ==
  \/ \E j \in JobIds : Client(j) \/ Time(j)
  \/ \E w \in Workers : WorkerStep(w) \/ HeartbeatRead(w)
  \/ \E p \in Runtimes :
       \/ HeartbeatExtend(p) \/ SweepStatement(p)
       \/ Start(p) \/ Crash(p) \/ DestroySweep(p) \/ Destroy(p)

Spec == Init /\ [][Next]_vars

\* No worker that is alive believes it is working on the job.
Abandoned(j) ==
  \A w \in Workers : current[w] # j /\ (claimed[w] # None => claimed[w][1] # j)

\* The threads of a runtime that is not killed are scheduled, every solve ends,
\* a runtime that is not Mortal is started, the database answers, and a lease
\* that no heartbeat extends lapses.
FairSpec ==
  /\ Spec
  /\ \A w \in Workers : WF_vars(WorkerStep(w))
  /\ \A p \in Runtimes :
       WF_vars(HeartbeatExtend(p)) /\ WF_vars(SweepStatement(p)) /\ WF_vars(Destroy(p))
  /\ \A p \in Runtimes \ Mortal : WF_vars(Start(p))
  /\ \A j \in JobIds : WF_vars(Time(j) /\ Abandoned(j))

-----------------------------------------------------------------------------
(* Properties *)

\* The values the variables take.
TypeOK ==
  /\ job \in [JobIds -> Row] /\ arrivals \in Seq(JobIds)
  /\ stage \in [Runtimes -> {"off", "up", "sweepStopped", "joining", "down", "crashed"}]
  /\ joining \in [Runtimes -> 0..WorkerCount]
  /\ pc \in [Workers -> {"off", "top", "claiming", "claimed", "solving", "completed",
                         "exited"}]
  /\ claimed \in [Workers -> (JobIds \X Nat) \cup {None}]
  /\ current \in [Workers -> JobIds \cup {None}]
  /\ beat \in [Runtimes -> [worker : Workers, id : JobIds] \cup {None}]
  /\ counted \in [JobIds -> Nat \cup {None}]
  /\ reply \in [JobIds -> {None, "kCreated", "kQueueFull", "kError"}]
  /\ recorded \in [JobIds -> Nat]
  /\ faults \in Nat

\* No job is tried more than MaxAttempts times, and a job that waits has a try
\* left, however often leases lapse, workers die and answers are lost.
AttemptsBounded ==
  \A j \in JobIds :
    /\ job[j].attempts <= MaxAttempts
    /\ job[j].state = "queued" => job[j].attempts < MaxAttempts

\* The columns agree: a row is owned and leased exactly while it is running,
\* it is retained once it is finished, and only a success has a result.
RowsConsistent ==
  \A j \in JobIds :
    /\ job[j].state = "running" <=> job[j].worker # None
    /\ job[j].state = "running" <=> job[j].lease # "none"
    /\ job[j].state \in FinishedStates \cup {"expired"} <=> job[j].retention # "none"
    /\ job[j].state = "succeeded" <=> job[j].result # None

\* A worker whose lease lapsed cannot store its result over the work of the
\* worker that took the job over: what is stored is the last attempt's
\* (optimization_job_retried_worker_cannot_clobber_result_test.sh).
ResultOfLastAttempt ==
  \A j \in JobIds : job[j].state = "succeeded" => job[j].result = job[j].attempts

\* Two workers may solve the same job, but never the same attempt of it.
OneWorkerPerAttempt ==
  \A v, w \in Workers :
    v # w /\ claimed[v] # None => claimed[v] # claimed[w]

\* A job's completion is counted at most once in the metrics, and only when the
\* job is finished.
CompletionCountedOnce ==
  \A j \in JobIds :
    /\ recorded[j] <= 1
    /\ recorded[j] = 1 => job[j].state \in FinishedStates \cup {"expired"}

\* A runtime that has been destroyed in good order, with no lost answer, leaves
\* no job that only a lapsed lease could bring back.
ShutdownLeavesNoOrphan ==
  \A p \in Runtimes : stage[p] = "down" /\ faults = 0 =>
    \A j \in JobIds : job[j].worker \notin WorkersOf(p)

\* What a client has fetched stays true: a result or a failure changes only
\* into "not found", and a job that is not finished is always found.
AnswerIsFinal ==
  [][\A j \in JobIds :
       /\ ResultStatus(j) \in {200, 409} =>
            \/ job'[j].state = job[j].state /\ job'[j].result = job[j].result
            \/ ResultStatus(j)' = 404
       /\ ResultStatus(j) = 202 => ResultStatus(j)' # 404
       /\ job[j].state = "expired" => ResultStatus(j)' = 404]_vars

\* "the atomic admission transaction" (docs/allocation-optimizations.md): a job
\* is added only while fewer than max_queue_size jobs are queued.
AdmissionAtomic ==
  [][\A j \in JobIds :
       job[j].state = "absent" /\ job'[j].state = "queued" =>
         QueuedJobs < MaxQueueSize]_vars

\* Every job that was created ends, as long as one runtime stays alive.
EveryJobFinishes ==
  \A j \in JobIds :
    job[j].state = "queued" ~> job[j].state \in FinishedStates \cup {"expired"}

\* The destructor of a runtime returns.
RuntimesStop ==
  \A p \in Runtimes : stage[p] = "sweepStopped" ~> stage[p] \in {"down", "crashed"}

\* Every job goes through the life JobLifecycle allows.
Life(j) == INSTANCE JobLifecycle WITH
  NoResult <- None,
  phase <- job[j].state, attempts <- job[j].attempts, result <- job[j].result

ImplementsLifecycle ==
  /\ \A j \in JobIds : Life(j)!Init
  /\ [][\A j \in JobIds : [Life(j)!Next]_(Life(j)!vars)]_vars
=============================================================================
