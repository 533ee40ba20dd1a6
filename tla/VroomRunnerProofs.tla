-------------------------- MODULE VroomRunnerProofs --------------------------
(***************************************************************************)
(* What TLAPS proves about VroomRunner, for any number of concurrent Runs,  *)
(* any pipe size and any limit on the output.                               *)
(***************************************************************************)
EXTENDS VroomRunner, TLAPS

-----------------------------------------------------------------------------
(* The inductive invariant *)

\* Where the program is, by where its Run is.
ChildByPc ==
  \A r \in Runs :
    /\ pc[r] \in {"new", "piped"} => child[r] = "none"
    /\ pc[r] = "returned" => child[r] \in {"none", "reaped"}
    /\ exited[r] => child[r] = "reaped"

\* The write ends: a live program has its own, the server only until it closes
\* it, and a pipe that has ended has neither a writer nor anything to read.
PipesOK ==
  \A r \in Runs :
    /\ child[r] = "running" => r \in writers[r]
    /\ Server \in writers[r] <=> pc[r] \in {"piped", "spawned"}
    /\ closed[r] => /\ writers[r] = {} /\ pipe[r] = 0
                    /\ pc[r] \notin {"new", "piped", "spawned"}

\* No chunk is lost, and the limit is noticed at once.
OutputOK ==
  \A r \in Runs :
    /\ written[r] = output[r] + pipe[r]
    /\ pc[r] \notin {"abort", "returned"} => output[r] <= MaxOutput

\* Only a Run that has returned has a status, and it is justified.
StatusOK ==
  \A r \in Runs :
    /\ pc[r] # "returned" => status[r] = None
    /\ status[r] = "kSuccess" =>
         code[r] = "zero" /\ output[r] = written[r] /\ output[r] > 0
    /\ status[r] = "kTimedOut" => late[r] /\ ~exited[r]

IInv ==
  /\ TypeOK /\ ChildByPc /\ PipesOK /\ OutputOK /\ StatusOK /\ WritersWatched

-----------------------------------------------------------------------------
LEMMA InitInv == Init => IInv
  BY RunnerConfig DEF Init, IInv, TypeOK, ChildByPc, PipesOK, OutputOK, StatusOK,
                      WritersWatched

\* The steps, one named case each; used by the lemmas below.
LEMMA TypeStep == IInv /\ [Next]_vars => TypeOK'
<1> SUFFICES ASSUME IInv, [Next]_vars PROVE TypeOK'
  OBVIOUS
<1> USE RunnerConfig DEF IInv, TypeOK, Goto, Return, LeavesPipes, KillAndReapProcess,
          osVars, monitorVars, VroomRunStatuses
<1>1. CASE UNCHANGED vars
  BY <1>1 DEF vars
<1>2. ASSUME NEW r \in Runs, OpenPipe(r) \/ OpenPipeFails(r) PROVE TypeOK'
  BY <1>2 DEF OpenPipe, OpenPipeFails
<1>3. ASSUME NEW r \in Runs, Spawn(r) \/ SpawnFails(r) \/ CloseWriteEnd(r) PROVE TypeOK'
  BY <1>3 DEF Spawn, SpawnFails, CloseWriteEnd
<1>4. ASSUME NEW r \in Runs, TryWaitForProcessExit(r) PROVE TypeOK'
  BY <1>4 DEF TryWaitForProcessExit
<1>5. ASSUME NEW r \in Runs, ReadOutputChunk(r) \/ DrainEnds(r) PROVE TypeOK'
  <2>1. CASE ReadOutputChunk(r)
    <3>1. output[r] <= MaxOutput
      BY <2>1 DEF ReadOutputChunk, OutputOK
    <3>2. output' \in [Runs -> 0..(MaxOutput + 1)] /\ pipe' \in [Runs -> 0..PipeSize]
      BY <2>1, <3>1 DEF ReadOutputChunk
    <3> QED BY <2>1, <3>2 DEF ReadOutputChunk
  <2>2. CASE DrainEnds(r)
    BY <2>2 DEF DrainEnds
  <2> QED BY <1>5, <2>1, <2>2
<1>6. ASSUME NEW r \in Runs, MonitorFails(r) \/ Complete(r) \/ TimeOut(r) PROVE TypeOK'
  BY <1>6 DEF MonitorFails, Complete, TimeOut
<1>7. ASSUME NEW r \in Runs, AwaitOutput(r) \/ PollReturns(r) \/ PollTimesOut(r) \/ Abort(r)
      PROVE  TypeOK'
  BY <1>7 DEF AwaitOutput, PollReturns, PollTimesOut, Abort
<1>8. ASSUME NEW r \in Runs, ChildWrite(r) PROVE TypeOK'
  BY <1>8 DEF ChildWrite
<1>9. ASSUME NEW r \in Runs, ChildExit(r) PROVE TypeOK'
  BY <1>9 DEF ChildExit
<1>10. ASSUME NEW r \in Runs, DeadlinePasses(r) PROVE TypeOK'
  BY <1>10 DEF DeadlinePasses
<1> QED
  BY <1>1, <1>2, <1>3, <1>4, <1>5, <1>6, <1>7, <1>8, <1>9, <1>10
     DEF Next, RunStep, Child, Finished

\* Spawn gives the new program the write ends the server has open.
LEMMA SpawnStep ==
  ASSUME IInv, NEW r \in Runs, Spawn(r)
  PROVE  (ChildByPc /\ PipesOK /\ OutputOK /\ StatusOK /\ WritersWatched)'
<1>1. /\ pc[r] = "piped" /\ child[r] = "none" /\ Server \in writers[r] /\ r # Server
      /\ UNCHANGED <<code, written, pipe, exited, closed, output, late, status>>
  BY RunnerConfig DEF IInv, ChildByPc, PipesOK, Spawn, monitorVars
<1>2. /\ child'[r] = "running" /\ pc'[r] = "spawned"
      /\ \A q \in Runs \ {r} : child'[q] = child[q] /\ pc'[q] = pc[q]
  BY DEF IInv, TypeOK, Spawn, Goto
<1>3. \A q \in Runs :
        writers'[q] = IF Server \in writers[q] THEN writers[q] \cup {r} ELSE writers[q]
  BY DEF Spawn
<1>4. (ChildByPc /\ OutputOK /\ StatusOK)'
  BY <1>1, <1>2 DEF IInv, ChildByPc, OutputOK, StatusOK
<1>5. PipesOK'
  <2> SUFFICES ASSUME NEW q \in Runs
               PROVE  /\ child'[q] = "running" => q \in writers'[q]
                      /\ Server \in writers'[q] <=> pc'[q] \in {"piped", "spawned"}
                      /\ closed'[q] => /\ writers'[q] = {} /\ pipe'[q] = 0
                                       /\ pc'[q] \notin {"new", "piped", "spawned"}
    BY DEF PipesOK
  <2>1. CASE q = r
    BY <1>1, <1>2, <1>3, <2>1 DEF IInv, PipesOK
  <2>2. CASE q # r
    BY <1>1, <1>2, <1>3, <2>2 DEF IInv, PipesOK
  <2> QED BY <2>1, <2>2
<1>6. WritersWatched'
  <2> SUFFICES ASSUME NEW q \in Runs, NEW c \in writers'[q] \ {Server}
               PROVE  child'[c] = "running" /\ pc'[c] \notin {"new", "piped", "returned"}
    BY DEF WritersWatched
  <2>1. CASE c = r
    BY <1>2, <2>1
  <2>2. CASE c # r
    <3>1. writers[q] \subseteq Runs \cup {Server}
      BY DEF IInv, TypeOK
    <3>2. c \in writers[q] \ {Server} /\ c \in Runs
      BY <1>3, <2>2, <3>1
    <3> QED BY <1>2, <2>2, <3>2 DEF IInv, WritersWatched
  <2> QED BY <2>1, <2>2
<1> QED BY <1>4, <1>5, <1>6

\* What the steps do to the programs, the pipes and the verdicts.
LEMMA OtherStep ==
  IInv /\ [Next]_vars => (ChildByPc /\ PipesOK /\ OutputOK /\ StatusOK /\ WritersWatched)'
<1> DEFINE Goal == ChildByPc /\ PipesOK /\ OutputOK /\ StatusOK /\ WritersWatched
<1> SUFFICES ASSUME IInv, [Next]_vars PROVE Goal'
  OBVIOUS
<1> USE RunnerConfig DEF IInv, TypeOK, Goto, Return, LeavesPipes, KillAndReapProcess,
          osVars, monitorVars, VroomRunStatuses,
          ChildByPc, PipesOK, OutputOK, StatusOK, WritersWatched
<1>1. CASE UNCHANGED vars
  BY <1>1, SMTT(30) DEF vars
<1>2. ASSUME NEW r \in Runs, OpenPipe(r) PROVE Goal'
  BY <1>2, SMTT(30) DEF OpenPipe
<1>3. ASSUME NEW r \in Runs, OpenPipeFails(r) PROVE Goal'
  BY <1>3, SMTT(30) DEF OpenPipeFails
<1>4. ASSUME NEW r \in Runs, Spawn(r) PROVE Goal'
  BY <1>4, SpawnStep
<1>5. ASSUME NEW r \in Runs, SpawnFails(r) PROVE Goal'
  BY <1>5, SMTT(30) DEF SpawnFails
<1>6. ASSUME NEW r \in Runs, CloseWriteEnd(r) PROVE Goal'
  BY <1>6, SMTT(30) DEF CloseWriteEnd
<1>7. ASSUME NEW r \in Runs, TryWaitForProcessExit(r) PROVE Goal'
  BY <1>7, SMTT(30) DEF TryWaitForProcessExit
<1>8. ASSUME NEW r \in Runs, ReadOutputChunk(r) \/ DrainEnds(r) PROVE Goal'
  <2>1. CASE ReadOutputChunk(r)
    BY <2>1, SMTT(30) DEF ReadOutputChunk
  <2>2. CASE DrainEnds(r)
    BY <2>2, SMTT(30) DEF DrainEnds
  <2> QED BY <1>8, <2>1, <2>2
<1>9. ASSUME NEW r \in Runs, MonitorFails(r) PROVE Goal'
  BY <1>9, SMTT(30) DEF MonitorFails
<1>10. ASSUME NEW r \in Runs, Complete(r) PROVE Goal'
  BY <1>10, SMTT(30) DEF Complete
<1>11. ASSUME NEW r \in Runs, TimeOut(r) PROVE Goal'
  BY <1>11, SMTT(30) DEF TimeOut
<1>12. ASSUME NEW r \in Runs, AwaitOutput(r) \/ PollReturns(r) PROVE Goal'
  <2>1. CASE AwaitOutput(r)
    BY <2>1, SMTT(30) DEF AwaitOutput
  <2>2. CASE PollReturns(r)
    BY <2>2, SMTT(30) DEF PollReturns
  <2> QED BY <1>12, <2>1, <2>2
<1>13. ASSUME NEW r \in Runs, PollTimesOut(r) PROVE Goal'
  BY <1>13, SMTT(30) DEF PollTimesOut
<1>14. ASSUME NEW r \in Runs, Abort(r) PROVE Goal'
  BY <1>14, SMTT(30) DEF Abort
<1>15. ASSUME NEW r \in Runs, ChildWrite(r) PROVE Goal'
  BY <1>15, SMTT(30) DEF ChildWrite
<1>16. ASSUME NEW r \in Runs, ChildExit(r) PROVE Goal'
  BY <1>16, SMTT(30) DEF ChildExit
<1>17. ASSUME NEW r \in Runs, DeadlinePasses(r) PROVE Goal'
  BY <1>17, SMTT(30) DEF DeadlinePasses
<1> QED
  BY <1>1, <1>2, <1>3, <1>4, <1>5, <1>6, <1>7, <1>8, <1>9, <1>10, <1>11, <1>12, <1>13,
     <1>14, <1>15, <1>16, <1>17
     DEF Next, RunStep, Child, Finished

-----------------------------------------------------------------------------
\* The inductive invariant holds in every reachable state of Run's threads and
\* programs.
THEOREM Invariance == Spec => []IInv
<1>1. IInv /\ [Next]_vars => IInv'
  BY TypeStep, OtherStep DEF IInv
<1> QED BY <1>1, InitInv, PTL DEF Spec

\* The variables keep their types; output_text never exceeds its limit by more
\* than one pipe.
THEOREM TypeCorrect == Spec => []TypeOK
<1>1. IInv => TypeOK
  BY DEF IInv
<1> QED BY <1>1, Invariance, PTL

\* A Run that has returned has collected its program, on every path.
THEOREM ChildAlwaysReaped == Spec => []ChildReaped
<1>1. IInv => ChildReaped
  BY DEF IInv, ChildByPc, ChildReaped
<1> QED BY <1>1, Invariance, PTL

\* A success is the whole output of a program that ended well.
THEOREM SuccessComplete == Spec => []SuccessIsWhole
<1>1. IInv => SuccessIsWhole
  BY DEF IInv, StatusOK, SuccessIsWhole
<1> QED BY <1>1, Invariance, PTL

\* A timeout is reported only after the deadline, for a program not seen to exit.
THEOREM TimeoutsHonest == Spec => []TimeoutHonest
<1>1. IInv => TimeoutHonest
  BY DEF IInv, StatusOK, TimeoutHonest
<1> QED BY <1>1, Invariance, PTL

\* Every program that has some pipe's write end open is alive and watched.
THEOREM WritersAreWatched == Spec => []WritersWatched
<1>1. IInv => WritersWatched
  BY DEF IInv
<1> QED BY <1>1, Invariance, PTL
=============================================================================
