---------------------------- MODULE SolveService ----------------------------
(***************************************************************************)
(* What SolveCoordinator promises its callers (solve_coordinator.hpp):     *)
(* Submit decides at once; an accepted request is solved at most once, and  *)
(* its callback is called exactly once, with a status that tells what       *)
(* happened to it.  There are no threads, no locks, no queue and no clock.  *)
(***************************************************************************)
EXTENDS Naturals, FiniteSets

CONSTANTS Requests, Capacity, Slots

\* Slots solves run at a time; Capacity requests wait or are solved.

VARIABLES
  phase,     \* where the request is
  reply,     \* the status its callback was called with
  open       \* no destructor has started

vars == <<phase, reply, open>>

In(p) == {r \in Requests : phase[r] = p}
Outstanding == Cardinality(In("waiting") \cup In("solving"))
NoReply == "none"

Init ==
  /\ phase = [r \in Requests |-> "new"]
  /\ reply = [r \in Requests |-> NoReply]
  /\ open = TRUE

Move(r, from, to) ==
  /\ phase[r] = from
  /\ phase' = [phase EXCEPT ![r] = to]

Accept(r) ==
  /\ Move(r, "new", "waiting")
  /\ open /\ Outstanding < Capacity
  /\ UNCHANGED <<reply, open>>

\* The request is larger than the service takes.
RejectSize(r) == Move(r, "new", "oversized") /\ UNCHANGED <<reply, open>>

\* The service may call itself full only when it is, or when it is closing.
RejectFull(r) ==
  /\ Move(r, "new", "refused")
  /\ ~open \/ Outstanding >= Capacity
  /\ UNCHANGED <<reply, open>>

Start(r) ==
  /\ Move(r, "waiting", "solving")
  /\ Cardinality(In("solving")) < Slots
  /\ UNCHANGED <<reply, open>>

Finish(r) == Move(r, "solving", "solved") /\ UNCHANGED <<reply, open>>

\* The request leaves the queue unsolved, and will never be solved.
Expire(r) == Move(r, "waiting", "unsolved") /\ UNCHANGED <<reply, open>>

\* Nothing is accepted any more, and what still waits will not be solved.
Close ==
  /\ open /\ open' = FALSE
  /\ phase' = [r \in Requests |->
                 IF phase[r] = "waiting" THEN "unsolved" ELSE phase[r]]
  /\ UNCHANGED reply

Answer(r, status) ==
  /\ \/ /\ Move(r, "solved", "answered")
        /\ status \in {"kSucceeded", "kFailed", "kTimedOut"}
     \/ /\ Move(r, "unsolved", "answered")
        /\ status = "kQueueWaitTimedOut" \/ (status = "kFailed" /\ ~open)
  /\ reply' = [reply EXCEPT ![r] = status]
  /\ UNCHANGED open

Next ==
  \/ \E r \in Requests :
       \/ Accept(r) \/ RejectSize(r) \/ RejectFull(r)
       \/ Start(r) \/ Finish(r) \/ Expire(r)
       \/ \E status \in {"kSucceeded", "kFailed", "kTimedOut", "kQueueWaitTimedOut"} :
            Answer(r, status)
  \/ Close

Spec == Init /\ [][Next]_vars
=============================================================================
