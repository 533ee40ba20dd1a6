------------------------------ MODULE JobStore ------------------------------
(***************************************************************************)
(* OptimizationJobStore (app/api/src/optimization_job_store.cpp): the table *)
(* optimization_jobs in PostgreSQL, shared by every API process, and one   *)
(* operator for each SQL statement the code runs on it.                    *)
(*                                                                         *)
(* A statement is its own transaction under READ COMMITTED, so it is one   *)
(* step of the table, except CreateJob: it counts in the snapshot taken    *)
(* when it starts, and inserts when it gets the advisory lock.  Times are  *)
(* compared with now() only, so a lease or a retention period is in force, *)
(* or over.                                                                *)
(***************************************************************************)
EXTENDS Naturals, FiniteSets, Sequences

CONSTANTS
  JobIds,          \* one for each CreateJob call (a fresh UUID each)
  Workers,         \* the worker ids of all processes
  MaxQueueSize,    \* OptimizationJobStoreConfig::max_queue_size
  MaxAttempts,     \* OptimizationJobStoreConfig::max_attempts
  None             \* SQL null

\* Both options are resolved with ResolvePositiveSizeOption.
ASSUME StoreConfig ==
  /\ IsFiniteSet(JobIds)
  /\ MaxQueueSize \in Nat \ {0}
  /\ MaxAttempts \in Nat \ {0}
  /\ None \notin Workers
  /\ None \notin Nat

FinishedStates == {"succeeded", "failed", "timed_out"}
JobStates == {"absent", "queued", "running", "expired"} \cup FinishedStates

VARIABLES
  job,        \* the rows, by id
  arrivals    \* the ids in the order of queued_at

storeVars == <<job, arrivals>>

\* The columns that a statement tests or that a client sees.
Row ==
  [state : JobStates,
   worker : Workers \cup {None},                  \* worker_id
   attempts : Nat,                                \* attempt_count
   lease : {"none", "held", "lapsed"},            \* lease_expires_at
   retention : {"none", "kept", "over"},          \* expires_at
   result : Nat \cup {None}]                      \* result_json, by its attempt

NoRow == [state |-> "absent", worker |-> None, attempts |-> 0, lease |-> "none",
          retention |-> "none", result |-> None]
NewRow == [NoRow EXCEPT !.state = "queued"]

StoreInit == job = [j \in JobIds |-> NoRow] /\ arrivals = << >>

InState(s) == {j \in JobIds : job[j].state = s}
QueuedJobs == Cardinality(InState("queued"))

-----------------------------------------------------------------------------
(* CreateJob *)

\* queued_at is now(), the start of the statement.
StartCreate(j) == arrivals' = Append(arrivals, j)

\* The insert selects from the snapshot's count, not from a new one.
InsertIfRoom(j, counted) ==
  job' = IF counted < MaxQueueSize THEN [job EXCEPT ![j] = NewRow] ELSE job

-----------------------------------------------------------------------------
(* ClaimNextJob *)

\* The queued job with the smallest queued_at.
IsNextJob(j) ==
  /\ job[j].state = "queued"
  /\ \A k \in InState("queued") :
       \E m, n \in DOMAIN arrivals : m <= n /\ arrivals[m] = j /\ arrivals[n] = k

\* Mutant of ClaimJob: the attempt is counted when the job is requeued only.
ClaimUncounted(j, w) ==
  job' = [job EXCEPT ![j] = [@ EXCEPT !.state = "running", !.worker = w,
                                      !.lease = "held"]]

ClaimJob(j, w) ==
  job' = [job EXCEPT ![j] = [@ EXCEPT !.state = "running", !.worker = w,
                                      !.lease = "held",
                                      !.attempts = job[j].attempts + 1]]

-----------------------------------------------------------------------------
(* CompleteJobSuccess, CompleteJobFailure, ExtendJobLease *)

\* Mutant of Holds: any worker may complete a running job.
IsRunning(j, w) == job[j].state = "running"

\* where id = $1 and worker_id = $2 and status = 'running'
Holds(j, w) == job[j].state = "running" /\ job[j].worker = w

CompleteJob(j, w, state, result) ==
  job' = IF ~Holds(j, w) THEN job
         ELSE [job EXCEPT ![j] = [@ EXCEPT !.state = state, !.worker = None,
                                           !.lease = "none", !.retention = "kept",
                                           !.result = result]]

ExtendJobLease(j, w) ==
  job' = IF Holds(j, w) THEN [job EXCEPT ![j].lease = "held"] ELSE job

-----------------------------------------------------------------------------
(* RequeueExpiredRunningJobs and ExpireFinishedJobs *)

LeaseExpired(j) == job[j].state = "running" /\ job[j].lease = "lapsed"

\* Mutant of FailExhaustedJobs: a job at its last attempt is not given up.
FailOverExhaustedJobs ==
  job' = [j \in JobIds |->
            IF LeaseExpired(j) /\ job[j].attempts > MaxAttempts
            THEN [job[j] EXCEPT !.state = "failed", !.worker = None, !.lease = "none",
                                !.retention = "kept", !.result = None]
            ELSE job[j]]

\* The first statement of the sweep gives up on jobs without an attempt left ...
FailExhaustedJobs ==
  job' = [j \in JobIds |->
            IF LeaseExpired(j) /\ job[j].attempts >= MaxAttempts
            THEN [job[j] EXCEPT !.state = "failed", !.worker = None, !.lease = "none",
                                !.retention = "kept", !.result = None]
            ELSE job[j]]

\* Mutant of Requeueable: jobs are requeued whatever their attempts.
RequeueableForEver(j) == LeaseExpired(j)

Requeueable(j) == LeaseExpired(j) /\ job[j].attempts < MaxAttempts

\* ... and the second gives the others back to the queue, at their old place.
RequeueExpiredJobs ==
  job' = [j \in JobIds |->
            IF Requeueable(j)
            THEN [job[j] EXCEPT !.state = "queued", !.worker = None, !.lease = "none"]
            ELSE job[j]]

\* Mutant of Expirable: unfinished jobs expire as well.
ExpirableAnyState(j) == job[j].retention = "over" \/ job[j].lease = "lapsed"

Expirable(j) == job[j].state \in FinishedStates /\ job[j].retention = "over"

ExpireFinishedJobs ==
  job' = [j \in JobIds |->
            IF Expirable(j)
            THEN [job[j] EXCEPT !.state = "expired", !.result = None]
            ELSE job[j]]

-----------------------------------------------------------------------------
(* Time *)

LeaseLapses(j) ==
  /\ job[j].lease = "held"
  /\ job' = [job EXCEPT ![j].lease = "lapsed"]
  /\ UNCHANGED arrivals

RetentionEnds(j) ==
  /\ job[j].retention = "kept"
  /\ job' = [job EXCEPT ![j].retention = "over"]
  /\ UNCHANGED arrivals

-----------------------------------------------------------------------------
(* What GET /api/v1/optimization-jobs/{id}/result answers. *)

ResultStatus(j) ==
  CASE job[j].state \in {"absent", "expired"} -> 404
    [] job[j].state \notin {"absent", "expired"} /\ job[j].result # None -> 200
    [] job[j].state \in {"queued", "running"} /\ job[j].result = None -> 202
    [] job[j].state \in FinishedStates /\ job[j].result = None -> 409
=============================================================================
