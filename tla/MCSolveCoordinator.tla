------------------------ MODULE MCSolveCoordinator --------------------------
(* Symmetry for the safety runs: requests and threads of a pool are alike. *)
EXTENDS SolveCoordinator

Symmetry ==
  Permutations(Requests) \cup Permutations(Workers) \cup Permutations(CompletionWorkers)

\* A request at both limits, and one just above each.
SizesAtLimits ==
  [jobs : {MaxSyncJobs, MaxSyncJobs + 1},
   vehicles : {MaxSyncVehicles, MaxSyncVehicles + 1}]

\* Only requests of an admissible size.
SmallSizes == {[jobs |-> MaxSyncJobs, vehicles |-> MaxSyncVehicles]}
=============================================================================
