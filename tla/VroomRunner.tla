----------------------------- MODULE VroomRunner -----------------------------
(***************************************************************************)
(* ProcessVroomRunner::Run (app/api/src/vroom_runner.cpp), called by many  *)
(* worker threads of one process at a time: it starts the vroom program     *)
(* with its output on a pipe, watches the exit, the output and a deadline,  *)
(* kills the program when the deadline passes, and always collects it.     *)
(*                                                                         *)
(* A step is one system call.  pipe() does not set close-on-exec, so a      *)
(* program that another thread starts while this Run still has its write    *)
(* end open inherits it; the pipe ends when its last writer is gone.  Output *)
(* is counted in chunks.  A program writes what it likes, and may hang.     *)
(***************************************************************************)
EXTENDS Naturals

CONSTANTS
  Runs,          \* the calls of Run; each starts at most one program
  Server,        \* the API process itself, as a holder of write ends
  PipeSize,      \* chunks that fit into a pipe
  MaxOutput,     \* kMaxVroomOutputBytes, in chunks
  MaxWritten,    \* chunks a program writes at most (bounds the model)
  None           \* no status

ASSUME RunnerConfig ==
  /\ PipeSize \in Nat \ {0} /\ MaxOutput \in Nat \ {0} /\ MaxWritten \in Nat
  /\ Server \notin Runs
  /\ None \notin {"kSuccess", "kFailed", "kTimedOut"}

VroomRunStatuses == {"kSuccess", "kFailed", "kTimedOut"}

VARIABLES
  \* the operating system
  child,       \* the program of a Run
  code,        \* the exit status of the program
  written,     \* chunks it has written
  pipe,        \* chunks in its pipe
  writers,     \* the processes that have the write end of its pipe open
  \* the thread that calls Run
  pc,
  exited,      \* process_exited
  closed,      \* output_closed
  output,      \* chunks in output_text
  late,        \* the deadline has passed
  status       \* what Run has returned

osVars == <<child, code, written, pipe, writers>>
monitorVars == <<exited, closed, output, late>>
vars == <<osVars, monitorVars, pc, status>>

Init ==
  /\ child = [r \in Runs |-> "none"] /\ code = [r \in Runs |-> "none"]
  /\ written = [r \in Runs |-> 0] /\ pipe = [r \in Runs |-> 0]
  /\ writers = [r \in Runs |-> {}]
  /\ pc = [r \in Runs |-> "new"]
  /\ exited = [r \in Runs |-> FALSE] /\ closed = [r \in Runs |-> FALSE]
  /\ output = [r \in Runs |-> 0] /\ late = [r \in Runs |-> FALSE]
  /\ status = [r \in Runs |-> None]

Goto(r, label) == pc' = [pc EXCEPT ![r] = label]

Return(r, s) ==
  /\ Goto(r, "returned")
  /\ status' = [status EXCEPT ![r] = s]

\* The process who has ended, or closed the write ends it had open.
LeavesPipes(who) == writers' = [q \in Runs |-> writers[q] \ {who}]

-----------------------------------------------------------------------------
(* The program *)

ChildWrite(r) ==
  /\ child[r] = "running"
  /\ written[r] < MaxWritten /\ pipe[r] < PipeSize
  /\ written' = [written EXCEPT ![r] = @ + 1]
  /\ pipe' = [pipe EXCEPT ![r] = @ + 1]
  /\ UNCHANGED <<child, code, writers, monitorVars, pc, status>>

\* It ends by itself, well or not; its exit status waits to be collected.
ChildExit(r) ==
  /\ child[r] = "running"
  /\ child' = [child EXCEPT ![r] = "zombie"]
  /\ \E c \in {"zero", "other"} : code' = [code EXCEPT ![r] = c]
  /\ LeavesPipes(r)
  /\ UNCHANGED <<written, pipe, monitorVars, pc, status>>

-----------------------------------------------------------------------------
(* Run *)

\* The input file is written and the pipe is created.
OpenPipe(r) ==
  /\ pc[r] = "new"
  /\ writers' = [writers EXCEPT ![r] = {Server}]
  /\ Goto(r, "piped")
  /\ UNCHANGED <<child, code, written, pipe, monitorVars, status>>

\* There is no room for a file or no descriptor for a pipe.
OpenPipeFails(r) ==
  /\ pc[r] = "new"
  /\ Return(r, "kFailed")
  /\ UNCHANGED <<osVars, monitorVars>>

\* posix_spawn.  The program's stdout is its pipe; it also gets every write end
\* that other threads have open at this moment.
Spawn(r) ==
  /\ pc[r] = "piped"
  /\ child' = [child EXCEPT ![r] = "running"]
  /\ writers' = [q \in Runs |->
                   IF Server \in writers[q] THEN writers[q] \cup {r} ELSE writers[q]]
  /\ Goto(r, "spawned")
  /\ UNCHANGED <<code, written, pipe, monitorVars, status>>

\* fcntl, the spawn actions or posix_spawn fail: both ends are closed.
SpawnFails(r) ==
  /\ pc[r] = "piped"
  /\ writers' = [writers EXCEPT ![r] = @ \ {Server}]
  /\ Return(r, "kFailed")
  /\ UNCHANGED <<child, code, written, pipe, monitorVars>>

\* Mutant of CloseWriteEnd: the server's copy of the write end stays open.
KeepWriteEnd(r) ==
  /\ pc[r] = "spawned"
  /\ Goto(r, "wait")
  /\ UNCHANGED <<osVars, monitorVars, status>>

\* output_write_end.Reset(-1); the deadline is set right after it.
CloseWriteEnd(r) ==
  /\ pc[r] = "spawned"
  /\ writers' = [writers EXCEPT ![r] = @ \ {Server}]
  /\ Goto(r, "wait")
  /\ UNCHANGED <<child, code, written, pipe, monitorVars, status>>

-----------------------------------------------------------------------------
(* MonitorProcessOutput *)

Monitoring(r) == pc[r] \in {"wait", "drain", "judge", "poll"}

\* At the resolution of poll, a millisecond.
DeadlinePasses(r) ==
  /\ Monitoring(r) /\ ~late[r]
  /\ late' = [late EXCEPT ![r] = TRUE]
  /\ UNCHANGED <<osVars, exited, closed, output, pc, status>>

TryWaitForProcessExit(r) ==
  /\ pc[r] = "wait"
  /\ LET collects == child[r] = "zombie"
     IN  /\ child' = IF collects THEN [child EXCEPT ![r] = "reaped"] ELSE child
         /\ exited' = IF collects THEN [exited EXCEPT ![r] = TRUE] ELSE exited
  /\ Goto(r, "drain")
  /\ UNCHANGED <<code, written, pipe, writers, closed, output, late, status>>

\* Mutant of ReadOutputChunk: a hang-up seen with the data counts as the end.
ReadUntilHangUp(r) ==
  /\ pc[r] = "drain" /\ pipe[r] > 0
  /\ pipe' = [pipe EXCEPT ![r] = @ - 1]
  /\ output' = [output EXCEPT ![r] = @ + 1]
  /\ closed' = [closed EXCEPT ![r] = @ \/ writers[r] = {}]
  /\ Goto(r, IF output'[r] > MaxOutput THEN "abort"
             ELSE IF writers[r] = {} THEN "judge" ELSE "drain")
  /\ UNCHANGED <<child, code, written, writers, exited, late, status>>

\* One read of the loop in DrainAvailableOutput; too much output is a failure.
ReadOutputChunk(r) ==
  /\ pc[r] = "drain" /\ pipe[r] > 0
  /\ pipe' = [pipe EXCEPT ![r] = @ - 1]
  /\ output' = [output EXCEPT ![r] = @ + 1]
  /\ IF output'[r] > MaxOutput THEN Goto(r, "abort") ELSE UNCHANGED pc
  /\ UNCHANGED <<child, code, written, writers, exited, closed, late, status>>

\* The loop ends when a read would block or finds the end of the output.
DrainEnds(r) ==
  /\ pc[r] = "drain" /\ pipe[r] = 0
  /\ closed' = [closed EXCEPT ![r] = writers[r] = {}]
  /\ Goto(r, "judge")
  /\ UNCHANGED <<child, code, written, pipe, writers, exited, output, late, status>>

\* waitpid, read or poll reports an error.
MonitorFails(r) ==
  /\ pc[r] \in {"wait", "drain", "poll"}
  /\ Goto(r, "abort")
  /\ UNCHANGED <<osVars, monitorVars, status>>

\* Mutant of KillAndReapProcess: the program is killed and not waited for.
KillProcess(r) ==
  /\ child' = IF child[r] = "running" THEN [child EXCEPT ![r] = "zombie"] ELSE child
  /\ LeavesPipes(r)

\* kill, then waitpid; neither does harm when the program has been collected.
KillAndReapProcess(r) ==
  /\ child' = [child EXCEPT ![r] = "reaped"]
  /\ LeavesPipes(r)

\* The program has ended and its output is complete; its answer must parse.
Complete(r) ==
  /\ pc[r] = "judge" /\ exited[r] /\ closed[r]
  /\ \/ code[r] = "zero" /\ output[r] > 0 /\ Return(r, "kSuccess")
     \/ Return(r, "kFailed")
  /\ UNCHANGED <<osVars, monitorVars>>

TimeOut(r) ==
  /\ pc[r] = "judge" /\ ~exited[r] /\ late[r]
  /\ KillAndReapProcess(r)
  /\ Return(r, "kTimedOut")
  /\ UNCHANGED <<code, written, pipe, monitorVars>>

AwaitOutput(r) ==
  /\ pc[r] = "judge"
  /\ ~(exited[r] /\ closed[r]) /\ (exited[r] \/ ~late[r])
  /\ Goto(r, "poll")
  /\ UNCHANGED <<osVars, monitorVars, status>>

\* poll reports output or the end of it, or does not wait.
Readable(r) == pipe[r] > 0 \/ writers[r] = {}

PollReturns(r) ==
  /\ pc[r] = "poll" /\ (Readable(r) \/ exited[r])
  /\ Goto(r, "wait")
  /\ UNCHANGED <<osVars, monitorVars, status>>

\* Mutant of PollTimesOut: poll is called with a timeout of 0.
PollTimesOutAtOnce(r) ==
  /\ pc[r] = "poll" /\ ~Readable(r) /\ ~exited[r]
  /\ KillAndReapProcess(r)
  /\ Return(r, "kTimedOut")
  /\ UNCHANGED <<code, written, pipe, monitorVars>>

\* poll has waited until the deadline.
PollTimesOut(r) ==
  /\ pc[r] = "poll" /\ ~Readable(r) /\ ~exited[r] /\ late[r]
  /\ KillAndReapProcess(r)
  /\ Return(r, "kTimedOut")
  /\ UNCHANGED <<code, written, pipe, monitorVars>>

\* Run gives up on a monitor that failed.
Abort(r) ==
  /\ pc[r] = "abort"
  /\ KillAndReapProcess(r)
  /\ Return(r, "kFailed")
  /\ UNCHANGED <<code, written, pipe, monitorVars>>

-----------------------------------------------------------------------------
RunStep(r) ==
  \/ Spawn(r) \/ SpawnFails(r) \/ CloseWriteEnd(r)
  \/ TryWaitForProcessExit(r) \/ ReadOutputChunk(r) \/ DrainEnds(r) \/ MonitorFails(r)
  \/ Complete(r) \/ TimeOut(r) \/ AwaitOutput(r) \/ PollReturns(r)
  \/ PollTimesOut(r) \/ Abort(r)

Child(r) == ChildWrite(r) \/ ChildExit(r)

\* Every call has returned.
Finished == (\A r \in Runs : pc[r] = "returned") /\ UNCHANGED vars

Next ==
  \/ \E r \in Runs :
       OpenPipe(r) \/ OpenPipeFails(r) \/ RunStep(r) \/ Child(r) \/ DeadlinePasses(r)
  \/ Finished

Spec == Init /\ [][Next]_vars

\* The threads are scheduled and the clock goes on.  The programs may hang.
FairSpec ==
  /\ Spec
  /\ \A r \in Runs : WF_vars(RunStep(r)) /\ WF_vars(DeadlinePasses(r))

-----------------------------------------------------------------------------
(* Properties *)

\* The values the variables take; output_text exceeds its limit by at
\* most one read.
TypeOK ==
  /\ child \in [Runs -> {"none", "running", "zombie", "reaped"}]
  /\ code \in [Runs -> {"none", "zero", "other"}]
  /\ written \in [Runs -> Nat] /\ pipe \in [Runs -> 0..PipeSize]
  /\ writers \in [Runs -> SUBSET (Runs \cup {Server})]
  /\ pc \in [Runs -> {"new", "piped", "spawned", "wait", "drain", "judge", "poll",
                      "abort", "returned"}]
  /\ exited \in [Runs -> BOOLEAN] /\ closed \in [Runs -> BOOLEAN]
  /\ output \in [Runs -> 0..(MaxOutput + 1)]
  /\ late \in [Runs -> BOOLEAN]
  /\ status \in [Runs -> VroomRunStatuses \cup {None}]

\* Whatever fails and in whatever order the program, its output and the
\* deadline end, a Run that has returned leaves neither a program nor a zombie.
ChildReaped ==
  \A r \in Runs : pc[r] = "returned" => child[r] \in {"none", "reaped"}

\* A success is the whole output of a program that ended well by itself: none of
\* it was still in the pipe when the program was seen to have exited.
SuccessIsWhole ==
  \A r \in Runs : status[r] = "kSuccess" =>
    code[r] = "zero" /\ output[r] = written[r] /\ output[r] > 0

\* A timeout is reported only after the deadline and for a program that had not
\* been seen to exit.
TimeoutHonest ==
  \A r \in Runs : status[r] = "kTimedOut" => late[r] /\ ~exited[r]

\* Every program that holds up the end of some Run's output is alive and watched
\* by its own Run, which will kill it: no write end is left with a program that
\* nobody waits for.
WritersWatched ==
  \A r \in Runs : \A c \in writers[r] \ {Server} :
    child[c] = "running" /\ pc[c] \notin {"new", "piped", "returned"}

\* A Run whose program was started returns, though programs hang and hold each
\* other's pipes open (deliveries_optimize_enforces_solver_timeout_test.sh).
RunReturns ==
  \A r \in Runs : pc[r] = "spawned" ~> pc[r] = "returned"
=============================================================================
