---------------------------- MODULE MCJobRuntime -----------------------------
(* The worker ids of the runtimes, and the symmetry of the safety runs. *)
EXTENDS JobRuntime, TLC

WorkerIds == Runtimes \X (1..WorkerCount)

Symmetry == Permutations(JobIds) \cup Permutations(Runtimes)
=============================================================================
