--------------------------- MODULE SolveAdmission ---------------------------
(***************************************************************************)
(* The pure decisions of the solve coordinator: is a request admitted, does *)
(* it use a free worker slot, and until when may it wait in the queue.     *)
(* solve_admission.cpp and the anonymous namespace of                      *)
(* solve_coordinator.cpp.                                                  *)
(***************************************************************************)
EXTENDS Naturals

CONSTANTS
  MaxConcurrency,    \* SolveAdmissionConfig::max_concurrency
  MaxQueueSize,      \* SolveAdmissionConfig::max_queue_size
  MaxQueueWait,      \* SolveAdmissionConfig::max_queue_wait, in clock ticks
  MaxSyncJobs,       \* SolveAdmissionConfig::max_sync_jobs
  MaxSyncVehicles,   \* SolveAdmissionConfig::max_sync_vehicles
  RequestSizes,      \* the SolveRequestSize values callers submit
  MaxClock           \* the last reading of steady_clock (bounds the model)

\* LoadServerOptions clamps the worker count to at least 1; a queue size or a
\* queue wait of 0 is legal.
ASSUME AdmissionConfig ==
  /\ MaxConcurrency \in Nat \ {0}
  /\ MaxQueueSize \in Nat
  /\ MaxQueueWait \in Nat
  /\ MaxSyncJobs \in Nat
  /\ MaxSyncVehicles \in Nat
  /\ RequestSizes \subseteq [jobs : Nat, vehicles : Nat]
  /\ MaxClock \in Nat

\* steady_clock::time_point::max(): a deadline no reading of the clock reaches.
Forever == MaxClock + 1

AdmissionStatuses ==
  {"kAccepted", "kRejectedTooManyJobs", "kRejectedTooManyVehicles",
   "kRejectedQueueFull"}

Lesser(a, b) == IF a <= b THEN a ELSE b

\* Mutant of EvaluateSolveAdmission: one request too many.
EvaluateAdmissionOneMore(size, activeSolves, queuedSolves) ==
  IF activeSolves + queuedSolves > MaxConcurrency + MaxQueueSize
  THEN "kRejectedQueueFull"
  ELSE "kAccepted"

\* Mutant of EvaluateSolveAdmission: only the queue is counted.
EvaluateAdmissionQueueOnly(size, activeSolves, queuedSolves) ==
  IF queuedSolves >= MaxQueueSize THEN "kRejectedQueueFull" ELSE "kAccepted"

EvaluateSolveAdmission(size, activeSolves, queuedSolves) ==
  LET accepted == activeSolves + queuedSolves
      reservedSlots == Lesser(accepted, MaxConcurrency)
      bufferedQueue ==
        IF accepted > MaxConcurrency THEN accepted - MaxConcurrency ELSE 0
  IN  CASE size.jobs > MaxSyncJobs -> "kRejectedTooManyJobs"
        [] size.jobs <= MaxSyncJobs /\ size.vehicles > MaxSyncVehicles ->
             "kRejectedTooManyVehicles"
        [] OTHER ->
             IF reservedSlots >= MaxConcurrency /\ bufferedQueue >= MaxQueueSize
             THEN "kRejectedQueueFull"
             ELSE "kAccepted"

\* Mutant of StartsImmediately: requests ahead in the queue are not counted.
StartsIfWorkerIdle(activeSolves, queuedSolves) == activeSolves < MaxConcurrency

StartsImmediately(activeSolves, queuedSolves) ==
  activeSolves + queuedSolves < MaxConcurrency

\* The sum saturates at time_point::max() instead of overflowing.
ResolveDeadline(queuedAt) ==
  queuedAt + Lesser(MaxQueueWait, Forever - queuedAt)

HasQueueWaitExpired(clock, deadline) == clock >= deadline
=============================================================================
