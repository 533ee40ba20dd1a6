--------------------------- MODULE OptimizeEndpoint ---------------------------
(***************************************************************************)
(* POST /api/v1/deliveries/optimize (deliveries_optimize_endpoint.cpp): a  *)
(* handler on an event loop, one or two solves, callbacks on completion    *)
(* threads, and back to the loop for the response; and the end of every    *)
(* request in ObservabilityRegistry: counters, and a bounded queue of      *)
(* lines which a thread of its own writes (observability.cpp).             *)
(*                                                                         *)
(* The coordinator is what SolveService promises.  It stays open: each     *)
(* request under way holds a reference to it.                              *)
(***************************************************************************)
EXTENDS Naturals, Sequences, FiniteSets

CONSTANTS
  Clients,           \* requests to the endpoint
  Capacity, Slots,   \* of the coordinator
  MaxPendingLines    \* ObservabilityOptions::max_pending_log_lines

EndpointConfig == MaxPendingLines \in Nat

VARIABLES
  phase, reply, open,   \* the coordinator (SolveService)
  step,        \* how far a request is
  responses,   \* how often its response callback was called
  counters,    \* the counters of ObservabilityRegistry
  pending,     \* pending_log_lines_: the requests whose lines wait
  shutdown,    \* the destructor: "no", "set" (log_shutdown_), "notified", "joined"
  writer,      \* LogWriterLoop: "running", "asleep", "writing", "ended"
  line,        \* the line it writes
  written, dropped,    \* lines given to stdout, dropped from the queue
  writeFailures            \* tracker_write_failures_

\* The solves of a request: the first, and the one with weather delays.
Solves == Clients \X {1, 2}

Service == INSTANCE SolveService WITH Requests <- Solves

serviceVars == <<phase, reply, open>>
trackerVars == <<pending, shutdown, writer, line, written, dropped,
                 writeFailures>>
requestVars == <<step, responses, counters>>
vars == <<serviceVars, requestVars, trackerVars>>

NoLine == "none"
Ended == {"counted", "logged", "queued", "answered"}

Init ==
  /\ Service!Init
  /\ step = [c \in Clients |-> "new"]
  /\ responses = [c \in Clients |-> 0]
  /\ counters = [k \in {"accepted", "succeeded", "rejected", "timedOut", "failed"} |-> 0]
  /\ pending = << >> /\ shutdown = "no"
  /\ writer = "running" /\ line = NoLine
  /\ written = {} /\ dropped = {}
  /\ writeFailures = 0

Goto(c, s) == step' = [step EXCEPT ![c] = s]

-----------------------------------------------------------------------------
(* The end of a request.                                                   *)

\* The counter an outcome is recorded in.
CounterOf(o) ==
  CASE o = "kSucceeded" -> "succeeded"
    [] o \in {"kQueueWaitTimedOut", "kSolveTimedOut"} -> "timedOut"
    [] o = "kFailed" -> "failed"
    [] o \in {"kRejectedTooManyJobs", "kRejectedQueueFull", "kInvalidJson",
              "kValidationFailed"} -> "rejected"

\* CompleteAndRespond, up to the counters; only the first call for a request acts.
Complete(c, o) ==
  /\ step[c] \notin Ended
  /\ Goto(c, "counted")
  /\ counters' = [counters EXCEPT ![CounterOf(o)] = @ + 1]
  /\ UNCHANGED responses

Newest(lines) == SubSeq(lines, Len(lines) - MaxPendingLines + 1, Len(lines))

\* Mutant of Queued: the line that came last is dropped, and not counted.
QueuedIfRoom(c) ==
  /\ pending' = IF Len(pending) < MaxPendingLines THEN Append(pending, c) ELSE pending
  /\ UNCHANGED <<dropped, writeFailures>>

\* A full queue drops its oldest line.
Queued(c) ==
  LET lines == Append(pending, c)
      over == Len(lines) > MaxPendingLines
  IN  /\ pending' = IF over THEN Newest(lines) ELSE lines
      /\ dropped' = IF over THEN dropped \cup {Head(lines)} ELSE dropped
      /\ writeFailures' = IF over THEN writeFailures + 1 ELSE writeFailures

\* LogSolveRequest, under log_mutex_.
Log(c) ==
  /\ step[c] = "counted"
  /\ Queued(c)
  /\ Goto(c, "logged")
  /\ UNCHANGED <<serviceVars, responses, counters,
                 shutdown, writer, line, written>>

WakeWriter == writer' = IF writer = "asleep" THEN "running" ELSE writer

\* notify_one, and the response is queued in the loop of the request.
Notify(c) ==
  /\ step[c] = "logged"
  /\ WakeWriter
  /\ Goto(c, "queued")
  /\ UNCHANGED <<serviceVars, responses, counters,
                 pending, shutdown, line, written, dropped, writeFailures>>

Respond(c) ==
  /\ step[c] = "queued"
  /\ Goto(c, "answered")
  /\ responses' = [responses EXCEPT ![c] = @ + 1]
  /\ UNCHANGED <<serviceVars, trackerVars, counters>>

-----------------------------------------------------------------------------
(* The handler.                                                            *)

Arrive(c) ==
  /\ step[c] = "new" /\ shutdown = "no"
  /\ Goto(c, "received")
  /\ UNCHANGED <<serviceVars, trackerVars, responses, counters>>

Refuse(c, o) == Complete(c, o) /\ UNCHANGED <<serviceVars, trackerVars>>

BadRequest(c) ==
  \/ step[c] = "received" /\ Refuse(c, "kInvalidJson")
  \/ step[c] = "checked" /\ Refuse(c, "kValidationFailed")

\* CheckAdmission decides before the request is validated and reserves nothing; a request
\* whose size cannot be read yet goes on, and fails the validation.
CheckAdmission(c) ==
  /\ step[c] = "received"
  /\ \/ Refuse(c, "kRejectedTooManyJobs")
     \/ Service!Outstanding >= Capacity /\ Refuse(c, "kRejectedQueueFull")
     \/ /\ Goto(c, "checked")
        /\ UNCHANGED <<serviceVars, trackerVars, responses, counters>>

Accepted(c, n, s) ==
  /\ Service!Accept(<<c, n>>)
  /\ counters' = [counters EXCEPT !["accepted"] = @ + 1]
  /\ Goto(c, s)
  /\ UNCHANGED <<trackerVars, responses>>

Rejected(c, n) ==
  /\ Service!RejectFull(<<c, n>>)
  /\ Complete(c, "kRejectedQueueFull")
  /\ UNCHANGED trackerVars

\* The handler's Submit; the size was found small enough before.
Submit(c) ==
  /\ step[c] = "checked"
  /\ Accepted(c, 1, "solving") \/ Rejected(c, 1)

-----------------------------------------------------------------------------
(* The callbacks, on completion threads.                                   *)

\* BuildSolveExecutionResult.
OutcomeOf(status) == IF status = "kTimedOut" THEN "kSolveTimedOut" ELSE status

FirstCallback(c, status) ==
  /\ step[c] = "solving"
  /\ Service!Answer(<<c, 1>>, status)
  /\ UNCHANGED trackerVars
  /\ \/ Complete(c, OutcomeOf(status))
     \/ /\ status = "kSucceeded"   \* should_reoptimize
        /\ Goto(c, "rerun")
        /\ UNCHANGED <<responses, counters>>

\* Mutant of Rerun: the status of the second Submit is ignored.
RerunIgnoringStatus(c) ==
  /\ step[c] = "rerun"
  /\ \/ Accepted(c, 2, "solvingAgain")
     \/ /\ Service!RejectFull(<<c, 2>>)
        /\ Goto(c, "solvingAgain")
        /\ UNCHANGED <<trackerVars, responses, counters>>

\* The callback of the first solve submits the second, without the lifecycle.
Rerun(c) ==
  /\ step[c] = "rerun"
  /\ Accepted(c, 2, "solvingAgain") \/ Rejected(c, 2)

RerunCallback(c, status) ==
  /\ step[c] = "solvingAgain"
  /\ Service!Answer(<<c, 2>>, status)
  /\ Complete(c, OutcomeOf(status))
  /\ UNCHANGED trackerVars

Callback(c) ==
  \E status \in {"kSucceeded", "kFailed", "kTimedOut", "kQueueWaitTimedOut"} :
    FirstCallback(c, status) \/ RerunCallback(c, status)

\* A solve starts, or is given up in the queue.
Dispatch(s) ==
  /\ Service!Start(s) \/ Service!Expire(s)
  /\ UNCHANGED <<requestVars, trackerVars>>

Solved(s) == Service!Finish(s) /\ UNCHANGED <<requestVars, trackerVars>>

-----------------------------------------------------------------------------
(* LogWriterLoop, and the destructor of the registry.                      *)

Take ==
  /\ writer = "running" /\ pending # << >>
  /\ line' = Head(pending) /\ pending' = Tail(pending)
  /\ writer' = "writing"
  /\ UNCHANGED <<serviceVars, requestVars, shutdown, written, dropped,
                 writeFailures>>

Sleep ==
  /\ writer = "running" /\ pending = << >> /\ shutdown = "no"
  /\ writer' = "asleep"
  /\ UNCHANGED <<serviceVars, requestVars, pending, shutdown, line, written, dropped,
                 writeFailures>>

SpuriousWakeup ==
  /\ writer = "asleep" /\ WakeWriter
  /\ UNCHANGED <<serviceVars, requestVars, pending, shutdown, line, written, dropped,
                 writeFailures>>

\* The line goes to stdout without the lock; whether the stream took it is not looked at.
Write ==
  /\ writer = "writing"
  /\ written' = written \cup {line}
  /\ line' = NoLine /\ writer' = "running"
  /\ UNCHANGED <<serviceVars, requestVars, pending, shutdown, dropped, writeFailures>>

EndWriter ==
  /\ writer = "running" /\ pending = << >> /\ shutdown # "no"
  /\ writer' = "ended"
  /\ UNCHANGED <<serviceVars, requestVars, pending, shutdown, line, written, dropped,
                 writeFailures>>

\* The registry goes when nobody holds it any more: no request is under way.
Destroy ==
  /\ \/ /\ shutdown = "no" /\ \A c \in Clients : step[c] \in {"new", "answered"}
        /\ shutdown' = "set" /\ UNCHANGED writer
     \/ shutdown = "set" /\ shutdown' = "notified" /\ WakeWriter
     \/ shutdown = "notified" /\ writer = "ended" /\ shutdown' = "joined" /\ UNCHANGED writer
  /\ UNCHANGED <<serviceVars, requestVars, pending, line, written, dropped,
                 writeFailures>>

-----------------------------------------------------------------------------
HandlerStep(c) == CheckAdmission(c) \/ BadRequest(c) \/ Submit(c)
CompletionStep(c) == Log(c) \/ Notify(c) \/ Respond(c)
RequestStep(c) == HandlerStep(c) \/ Callback(c) \/ Rerun(c) \/ CompletionStep(c)
SolveStep(s) == Dispatch(s) \/ Solved(s)
WriterStep == Take \/ Sleep \/ Write \/ EndWriter

Next ==
  \/ \E c \in Clients : Arrive(c) \/ RequestStep(c)
  \/ \E s \in Solves : SolveStep(s)
  \/ WriterStep \/ SpuriousWakeup
  \/ Destroy

Spec == Init /\ [][Next]_vars

\* Every thread goes on; the coordinator answers what it accepted (SolveCoordinator,
\* EveryAcceptedAnswered).
FairSpec ==
  /\ Spec
  /\ \A c \in Clients : WF_vars(RequestStep(c))
  /\ \A s \in Solves : WF_vars(SolveStep(s))
  /\ WF_vars(WriterStep)

-----------------------------------------------------------------------------
\* One response was sent, the request was counted, and its line has left the queue.
Served(c) ==
  /\ step[c] = "answered" /\ responses[c] = 1
  /\ c \in written \cup dropped
  /\ c \notin written \cap dropped
  /\ writeFailures = Cardinality(dropped)
  /\ counters["succeeded"] + counters["rejected"] + counters["timedOut"]
       + counters["failed"] = Cardinality({d \in Clients : step[d] \in Ended})

\* Every request is answered exactly once, on every path through two solves, and leaves
\* exactly one line, which is written or dropped; lines wait for no later request, and none
\* stays behind at the end (CompleteAndRespond, LogSolveRequest, LogWriterLoop).
RequestsServed == \A c \in Clients : step[c] = "received" ~> []Served(c)
=============================================================================
