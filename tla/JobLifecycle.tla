---------------------------- MODULE JobLifecycle ----------------------------
(***************************************************************************)
(* What the job queue promises about ONE optimization job, whatever workers *)
(* and processes do: it is tried at most MaxAttempts times, one try at a    *)
(* time counts, the first accepted verdict is final, a result is that of   *)
(* the last try, and a finished job is forgotten in the end.               *)
(***************************************************************************)
EXTENDS Naturals

CONSTANTS MaxAttempts, NoResult

VARIABLES
  phase,       \* as in the states of OptimizationJobState
  attempts,    \* tries so far
  result       \* the try whose solution may be fetched

vars == <<phase, attempts, result>>

Init == phase = "absent" /\ attempts = 0 /\ result = NoResult

Goes(from, to) == phase = from /\ phase' = to

Accept == Goes("absent", "queued") /\ UNCHANGED <<attempts, result>>

Try ==
  /\ Goes("queued", "running")
  /\ attempts < MaxAttempts /\ attempts' = attempts + 1
  /\ UNCHANGED result

Succeed == Goes("running", "succeeded") /\ result' = attempts /\ UNCHANGED attempts

Fail ==
  /\ Goes("running", "failed") \/ Goes("running", "timed_out")
  /\ UNCHANGED <<attempts, result>>

\* The worker is believed dead and the job is worth another try.
Retry ==
  /\ Goes("running", "queued") /\ attempts < MaxAttempts
  /\ UNCHANGED <<attempts, result>>

Forget ==
  /\ Goes("succeeded", "expired") \/ Goes("failed", "expired")
       \/ Goes("timed_out", "expired")
  /\ result' = NoResult /\ UNCHANGED attempts

Next == Accept \/ Try \/ Succeed \/ Fail \/ Retry \/ Forget

Spec == Init /\ [][Next]_vars
=============================================================================
