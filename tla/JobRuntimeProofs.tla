--------------------------- MODULE JobRuntimeProofs ---------------------------
(***************************************************************************)
(* Proofs about JobRuntime, for any number of jobs, runtimes, workers,     *)
(* attempts and lost answers.                                              *)
(*                                                                         *)
(* RowStep says what one step may do to one row, whatever the statement;   *)
(* what is said of single rows (RowOK, the lifecycle, the final answer)    *)
(* follows from it.  What relates rows and workers is proved action by     *)
(* action.                                                                 *)
(***************************************************************************)
EXTENDS JobRuntime, FiniteSetTheorems, TLAPS

-----------------------------------------------------------------------------
(* Rows *)

\* The part of the invariant that speaks of one row.
RowOK(r) ==
  /\ r \in Row
  /\ r.attempts <= MaxAttempts
  /\ r.state \in {"absent", "queued"} => r.attempts < MaxAttempts
  /\ r.state = "running" <=> r.worker # None
  /\ r.state = "running" <=> r.lease # "none"
  /\ r.state \in FinishedStates \cup {"expired"} <=> r.retention # "none"
  /\ r.state = "succeeded" <=> r.result # None
  /\ r.state = "succeeded" => r.result = r.attempts

Claims(r, s) ==
  /\ r.state = "queued"
  /\ \E w \in Workers :
       s = [r EXCEPT !.state = "running", !.worker = w, !.lease = "held",
                     !.attempts = @ + 1]

Finishes(r, s) ==
  /\ r.state = "running"
  /\ \E state \in FinishedStates :
       s = [r EXCEPT !.state = state, !.worker = None, !.lease = "none",
                     !.retention = "kept",
                     !.result = IF state = "succeeded" THEN r.attempts ELSE None]

Requeues(r, s) ==
  /\ r.state = "running" /\ r.attempts < MaxAttempts
  /\ s = [r EXCEPT !.state = "queued", !.worker = None, !.lease = "none"]

Expires(r, s) ==
  /\ r.state \in FinishedStates
  /\ s = [r EXCEPT !.state = "expired", !.result = None]

Ages(r, s) ==
  \/ \E lease \in {"held", "lapsed"} :
       r.state = "running" /\ s = [r EXCEPT !.lease = lease]
  \/ r.retention = "kept" /\ s = [r EXCEPT !.retention = "over"]

RowStep(r, s) ==
  \/ s = r
  \/ r = NoRow /\ s = NewRow
  \/ Claims(r, s) \/ Finishes(r, s) \/ Requeues(r, s) \/ Expires(r, s) \/ Ages(r, s)

\* A row that no statement has touched is in order.
LEMMA NoRowOK == RowOK(NoRow)
  BY StoreConfig DEF RowOK, NoRow, Row, JobStates, FinishedStates

\* The statements keep a row in order.
LEMMA RowStepOK ==
  ASSUME NEW r, NEW s, RowOK(r), RowStep(r, s)
  PROVE  RowOK(s)
<1> USE StoreConfig DEF Row, JobStates, FinishedStates
<1>1. CASE s = r
  BY <1>1
<1>2. CASE r = NoRow /\ s = NewRow
  BY <1>2 DEF RowOK, NoRow, NewRow
<1>3. CASE Claims(r, s)
  <2>1. PICK w \in Workers :
          s = [r EXCEPT !.state = "running", !.worker = w, !.lease = "held",
                        !.attempts = @ + 1]
    BY <1>3 DEF Claims
  <2>2. r \in Row /\ r.attempts < MaxAttempts /\ r.retention = "none" /\ r.result = None
    BY <1>3 DEF RowOK, Claims
  <2>3. s \in Row
    <3>1. r.attempts + 1 \in Nat
      BY <2>2
    <3> QED BY <2>1, <2>2, <3>1
  <2>4. /\ s.state = "running" /\ s.worker = w /\ s.lease = "held"
        /\ s.attempts = r.attempts + 1 /\ s.retention = "none" /\ s.result = None
    BY <2>1, <2>2
  <2> QED BY <2>2, <2>3, <2>4 DEF RowOK
<1>4. CASE Finishes(r, s)
  <2>1. PICK state \in FinishedStates :
          s = [r EXCEPT !.state = state, !.worker = None, !.lease = "none",
                        !.retention = "kept",
                        !.result = IF state = "succeeded" THEN r.attempts ELSE None]
    BY <1>4 DEF Finishes
  <2>2. r \in Row /\ r.attempts <= MaxAttempts
    BY DEF RowOK
  <2>3. s \in Row
    BY <2>1, <2>2
  <2>4. /\ s.state = state /\ s.worker = None /\ s.lease = "none"
        /\ s.attempts = r.attempts /\ s.retention = "kept"
        /\ s.result = IF state = "succeeded" THEN r.attempts ELSE None
    BY <2>1, <2>2
  <2> QED BY <2>2, <2>3, <2>4 DEF RowOK
<1>5. CASE Requeues(r, s)
  <2>1. /\ r \in Row /\ r.attempts < MaxAttempts
        /\ r.retention = "none" /\ r.result = None
    BY <1>5 DEF RowOK, Requeues
  <2>2. /\ s \in Row /\ s.state = "queued" /\ s.worker = None /\ s.lease = "none"
        /\ s.attempts = r.attempts /\ s.retention = "none" /\ s.result = None
    BY <2>1, <1>5 DEF Requeues
  <2> QED BY <2>1, <2>2 DEF RowOK
<1>6. CASE Expires(r, s)
  <2>1. /\ r \in Row /\ r.attempts <= MaxAttempts
        /\ r.retention # "none" /\ r.worker = None /\ r.lease = "none"
    BY <1>6 DEF RowOK, Expires
  <2>2. /\ s \in Row /\ s.state = "expired" /\ s.worker = None /\ s.lease = "none"
        /\ s.attempts = r.attempts /\ s.retention = r.retention /\ s.result = None
    BY <2>1, <1>6 DEF Expires
  <2> QED BY <2>1, <2>2 DEF RowOK
<1>7. CASE Ages(r, s)
  <2>1. r \in Row
    BY DEF RowOK
  <2>2. CASE \E lease \in {"held", "lapsed"} :
               r.state = "running" /\ s = [r EXCEPT !.lease = lease]
    <3>1. PICK lease \in {"held", "lapsed"} :
            r.state = "running" /\ s = [r EXCEPT !.lease = lease]
      BY <2>2
    <3>2. /\ s \in Row /\ s.state = r.state /\ s.worker = r.worker /\ s.lease = lease
          /\ s.attempts = r.attempts /\ s.retention = r.retention
          /\ s.result = r.result
      BY <2>1, <3>1
    <3> QED BY <3>1, <3>2 DEF RowOK
  <2>3. CASE r.retention = "kept" /\ s = [r EXCEPT !.retention = "over"]
    <3>1. /\ s \in Row /\ s.state = r.state /\ s.worker = r.worker
          /\ s.lease = r.lease /\ s.attempts = r.attempts
          /\ s.retention = "over" /\ s.result = r.result
      BY <2>1, <2>3
    <3> QED BY <2>3, <3>1 DEF RowOK
  <2> QED BY <1>7, <2>2, <2>3 DEF Ages
<1> QED BY <1>1, <1>2, <1>3, <1>4, <1>5, <1>6, <1>7 DEF RowStep

\* No statement takes an attempt back.
LEMMA AttemptsGrow ==
  ASSUME NEW r \in Row, NEW s, RowStep(r, s)
  PROVE  s.attempts \in Nat /\ r.attempts <= s.attempts
<1> USE DEF Row
<1>1. r.attempts \in Nat
  OBVIOUS
<1>2. CASE s = r
  BY <1>1, <1>2
<1>3. CASE r = NoRow /\ s = NewRow
  BY <1>3 DEF NoRow, NewRow
<1>4. CASE Claims(r, s)
  <2>1. s.attempts = r.attempts + 1
    BY <1>4 DEF Claims
  <2> QED BY <2>1, <1>1
<1>5. CASE Finishes(r, s) \/ Requeues(r, s) \/ Expires(r, s) \/ Ages(r, s)
  <2>1. s.attempts = r.attempts
    BY <1>5 DEF Finishes, Requeues, Expires, Ages
  <2> QED BY <2>1, <1>1
<1> QED BY <1>2, <1>3, <1>4, <1>5 DEF RowStep

\* A row that goes on running keeps its worker and its attempt.
LEMMA RunningKept ==
  ASSUME NEW r \in Row, NEW s, RowStep(r, s), r.state = "running", s.state = "running"
  PROVE  s.worker = r.worker /\ s.attempts = r.attempts
<1> USE DEF Row
<1>1. CASE r = NoRow /\ s = NewRow
  BY <1>1 DEF NoRow, NewRow
<1>2. CASE Finishes(r, s)
  <2>1. PICK state \in FinishedStates : s.state = state
    BY <1>2 DEF Finishes
  <2> QED BY <2>1 DEF FinishedStates
<1>3. CASE Claims(r, s) \/ Requeues(r, s) \/ Expires(r, s)
  BY <1>3 DEF Claims, Requeues, Expires, FinishedStates
<1>4. CASE Ages(r, s)
  BY <1>4 DEF Ages
<1> QED BY <1>1, <1>2, <1>3, <1>4 DEF RowStep

\* A row that is finished stays finished until it expires, and then expired.
LEMMA FinishedKept ==
  ASSUME NEW r, NEW s, RowOK(r), RowStep(r, s),
         r.state \in FinishedStates \cup {"expired"}
  PROVE  s.state \in FinishedStates \cup {"expired"}
<1> USE DEF Row, FinishedStates
<1>1. r \in Row
  BY DEF RowOK
<1>2. CASE Expires(r, s)
  <2>1. s.state = "expired"
    BY <1>1, <1>2 DEF Expires
  <2> QED BY <2>1
<1>3. CASE Ages(r, s)
  <2>1. r.state # "running"
    OBVIOUS
  <2>2. s = [r EXCEPT !.retention = "over"]
    BY <2>1, <1>3 DEF Ages
  <2>3. s.state = r.state
    BY <1>1, <2>2
  <2> QED BY <2>3
<1>4. r # NoRow
  BY DEF NoRow
<1>5. ~Claims(r, s) /\ ~Finishes(r, s) /\ ~Requeues(r, s)
  BY DEF Claims, Finishes, Requeues
<1> QED BY <1>2, <1>3, <1>4, <1>5 DEF RowStep

-----------------------------------------------------------------------------
(* The inductive invariant *)

RowsOK == \A j \in JobIds : RowOK(job[j])

\* The row of a job does not exist before CreateJob has returned.
Fresh == \A j \in JobIds : reply[j] = None => job[j] = NoRow

\* A worker has a job between the claim and the end of the loop's body.
ClaimedByPc ==
  \A w \in Workers : claimed[w] # None <=> pc[w] \in {"claimed", "solving", "completed"}

\* The workers of a process that has not started have not started.
OffByStage == \A w \in Workers : stage[RuntimeOf(w)] = "off" => pc[w] = "off"

\* The attempts that workers work on have been counted.
ClaimsOfPast ==
  \A w \in Workers :
    claimed[w] # None => claimed[w][2] <= job[claimed[w][1]].attempts

\* A worker that still holds its job works on the job's last attempt: this is
\* what makes the test of worker_id enough to reject late results.
HolderHasLastAttempt ==
  \A w \in Workers :
    claimed[w] # None /\ Holds(claimed[w][1], w) =>
      claimed[w][2] = job[claimed[w][1]].attempts

IInv ==
  /\ TypeOK /\ RowsOK /\ Fresh /\ OffByStage /\ ClaimedByPc /\ ClaimsOfPast
  /\ HolderHasLastAttempt /\ OneWorkerPerAttempt /\ CompletionCountedOnce

\* It holds before any process has started.
LEMMA InitInv == Init => IInv
<1> SUFFICES ASSUME Init PROVE IInv
  OBVIOUS
<1> USE StoreConfig, RuntimeConfig DEF Init, StoreInit
<1>1. NoRow \in Row
  BY NoRowOK DEF RowOK
<1>2. TypeOK
  BY <1>1 DEF TypeOK
<1>3. RowsOK /\ Fresh
  BY NoRowOK DEF RowsOK, Fresh
<1>4. OffByStage
  BY DEF OffByStage
<1> QED BY <1>2, <1>3, <1>4 DEF IInv, ClaimedByPc, ClaimsOfPast, HolderHasLastAttempt,
           OneWorkerPerAttempt, CompletionCountedOnce

-----------------------------------------------------------------------------
(* What the statements do to the table *)

\* Every row makes a RowStep.
RowSteps ==
  /\ job' = [j \in JobIds |-> job'[j]]
  /\ \A j \in JobIds : RowStep(job[j], job'[j])

\* ... and none is created or claimed.
QuietSteps ==
  /\ RowSteps
  /\ \A j \in JobIds : job'[j].state = "running" => job[j].state = "running"
  /\ \A j \in JobIds : job[j] = NoRow => job'[j] = NoRow

\* A statement that touches only the row of a given job.
Only(j) == \A k \in JobIds \ {j} : job'[k] = job[k]

LEMMA StillIsQuiet ==
  ASSUME TypeOK, job' = job
  PROVE  QuietSteps
  BY DEF TypeOK, QuietSteps, RowSteps, RowStep

LEMMA CompleteIsQuiet ==
  ASSUME TypeOK, RowsOK, NEW j \in JobIds, NEW w, NEW state \in FinishedStates,
         NEW result,
         Holds(j, w) => result = IF state = "succeeded" THEN job[j].attempts ELSE None,
         CompleteJob(j, w, state, result)
  PROVE  QuietSteps /\ Only(j) /\ (Holds(j, w) => job'[j].state = state)
<1> USE DEF TypeOK
<1>1. CASE ~Holds(j, w)
  <2>1. job' = job
    BY <1>1 DEF CompleteJob
  <2> QED BY <2>1, <1>1, StillIsQuiet DEF Only
<1>2. CASE Holds(j, w)
  <2>1. job' = [job EXCEPT ![j] = [@ EXCEPT !.state = state, !.worker = None,
                                            !.lease = "none", !.retention = "kept",
                                            !.result = result]]
    BY <1>2 DEF CompleteJob
  <2>2. /\ job' = [k \in JobIds |-> job'[k]] /\ Only(j)
        /\ job'[j] = [job[j] EXCEPT !.state = state, !.worker = None,
                                    !.lease = "none", !.retention = "kept",
                                    !.result = result]
    BY <2>1 DEF Only
  <2>3. Finishes(job[j], job'[j])
    BY <2>2, <1>2 DEF Finishes, Holds
  <2>4. job'[j].state = state /\ job[j] # NoRow
    BY <2>2, <1>2 DEF Row, Holds, NoRow
  <2> QED BY <2>2, <2>3, <2>4 DEF QuietSteps, RowSteps, RowStep, Only, FinishedStates
<1> QED BY <1>1, <1>2

LEMMA ExtendIsQuiet ==
  ASSUME TypeOK, NEW j \in JobIds, NEW w, ExtendJobLease(j, w)
  PROVE  QuietSteps
<1> USE DEF TypeOK
<1>1. CASE ~Holds(j, w)
  BY <1>1, StillIsQuiet DEF ExtendJobLease
<1>2. CASE Holds(j, w)
  <2>1. /\ job' = [k \in JobIds |-> job'[k]] /\ Only(j)
        /\ job'[j] = [job[j] EXCEPT !.lease = "held"]
    BY <1>2 DEF ExtendJobLease, Only
  <2>2. Ages(job[j], job'[j])
    BY <2>1, <1>2 DEF Ages, Holds
  <2>3. job'[j].state = job[j].state /\ job[j] # NoRow
    BY <2>1, <1>2 DEF Row, Holds, NoRow
  <2> QED BY <2>1, <2>2, <2>3 DEF QuietSteps, RowSteps, RowStep, Only
<1> QED BY <1>1, <1>2

LEMMA SweepIsQuiet ==
  ASSUME TypeOK, RowsOK, FailExhaustedJobs \/ RequeueExpiredJobs \/ ExpireFinishedJobs
  PROVE  QuietSteps
<1> USE DEF TypeOK
<1>1. CASE FailExhaustedJobs
  <2>1. job' = [j \in JobIds |-> job'[j]]
    BY <1>1 DEF FailExhaustedJobs
  <2>2. ASSUME NEW j \in JobIds
        PROVE  /\ job'[j] = job[j] \/ Finishes(job[j], job'[j])
               /\ job'[j].state = "running" => job[j].state = "running"
               /\ job[j] = NoRow => job'[j] = NoRow
    <3>1. CASE LeaseExpired(j) /\ job[j].attempts >= MaxAttempts
      <4>1. job'[j] = [job[j] EXCEPT !.state = "failed", !.worker = None,
                                     !.lease = "none", !.retention = "kept",
                                     !.result = None]
        BY <1>1, <3>1 DEF FailExhaustedJobs
      <4>2. job[j].state = "running" /\ job[j] # NoRow
        BY <3>1 DEF LeaseExpired, NoRow
      <4> QED BY <4>1, <4>2 DEF Finishes, FinishedStates
    <3>2. CASE ~(LeaseExpired(j) /\ job[j].attempts >= MaxAttempts)
      <4>1. job'[j] = job[j]
        BY <1>1, <3>2 DEF FailExhaustedJobs
      <4> QED BY <4>1
    <3> QED BY <3>1, <3>2
  <2> QED BY <2>1, <2>2 DEF QuietSteps, RowSteps, RowStep
<1>2. CASE RequeueExpiredJobs
  <2>1. job' = [j \in JobIds |-> job'[j]]
    BY <1>2 DEF RequeueExpiredJobs
  <2>2. ASSUME NEW j \in JobIds
        PROVE  /\ job'[j] = job[j] \/ Requeues(job[j], job'[j])
               /\ job'[j].state = "running" => job[j].state = "running"
               /\ job[j] = NoRow => job'[j] = NoRow
    <3>1. CASE Requeueable(j)
      <4>1. job'[j] = [job[j] EXCEPT !.state = "queued", !.worker = None,
                                     !.lease = "none"]
        BY <1>2, <3>1 DEF RequeueExpiredJobs
      <4>2. /\ job[j].state = "running" /\ job[j] # NoRow
            /\ job[j].attempts < MaxAttempts
        BY <3>1 DEF Requeueable, LeaseExpired, NoRow
      <4> QED BY <4>1, <4>2 DEF Requeues
    <3>2. CASE ~Requeueable(j)
      <4>1. job'[j] = job[j]
        BY <1>2, <3>2 DEF RequeueExpiredJobs
      <4> QED BY <4>1
    <3> QED BY <3>1, <3>2
  <2> QED BY <2>1, <2>2 DEF QuietSteps, RowSteps, RowStep
<1>3. CASE ExpireFinishedJobs
  <2>1. job' = [j \in JobIds |-> job'[j]]
    BY <1>3 DEF ExpireFinishedJobs
  <2>2. ASSUME NEW j \in JobIds
        PROVE  /\ job'[j] = job[j] \/ Expires(job[j], job'[j])
               /\ job'[j].state = "running" => job[j].state = "running"
               /\ job[j] = NoRow => job'[j] = NoRow
    <3>1. CASE Expirable(j)
      <4>1. job'[j] = [job[j] EXCEPT !.state = "expired", !.result = None]
        BY <1>3, <3>1 DEF ExpireFinishedJobs
      <4>2. job'[j].state = "expired"
        BY <4>1 DEF Row
      <4>3. job[j].state \in FinishedStates /\ job[j] # NoRow
        BY <3>1 DEF Expirable, NoRow, FinishedStates
      <4> QED BY <4>1, <4>2, <4>3 DEF Expires
    <3>2. CASE ~Expirable(j)
      <4>1. job'[j] = job[j]
        BY <1>3, <3>2 DEF ExpireFinishedJobs
      <4> QED BY <4>1
    <3> QED BY <3>1, <3>2
  <2> QED BY <2>1, <2>2 DEF QuietSteps, RowSteps, RowStep
<1> QED BY <1>1, <1>2, <1>3

LEMMA TimeIsQuiet ==
  ASSUME TypeOK, RowsOK, NEW j \in JobIds, LeaseLapses(j) \/ RetentionEnds(j)
  PROVE  QuietSteps
<1> USE DEF TypeOK
<1>1. RowOK(job[j])
  BY DEF RowsOK
<1>2. CASE LeaseLapses(j)
  <2>1. /\ job' = [k \in JobIds |-> job'[k]] /\ Only(j)
        /\ job'[j] = [job[j] EXCEPT !.lease = "lapsed"]
    BY <1>2 DEF LeaseLapses, Only
  <2>2. job[j].state = "running"
    BY <1>1, <1>2 DEF RowOK, LeaseLapses
  <2>3. Ages(job[j], job'[j]) /\ job[j] # NoRow
    BY <2>1, <2>2 DEF Ages, NoRow
  <2> QED BY <2>1, <2>2, <2>3 DEF QuietSteps, RowSteps, RowStep, Only
<1>3. CASE RetentionEnds(j)
  <2>1. /\ job' = [k \in JobIds |-> job'[k]] /\ Only(j)
        /\ job'[j] = [job[j] EXCEPT !.retention = "over"]
    BY <1>3 DEF RetentionEnds, Only
  <2>2. job[j].retention = "kept"
    BY <1>3 DEF RetentionEnds
  <2>3. Ages(job[j], job'[j]) /\ job[j] # NoRow
    BY <2>1, <2>2 DEF Ages, NoRow
  <2>4. job'[j].state = job[j].state
    BY <2>1 DEF Row
  <2> QED BY <2>1, <2>3, <2>4 DEF QuietSteps, RowSteps, RowStep, Only
<1> QED BY <1>2, <1>3

\* The two statements that create and claim rows.
LEMMA InsertSteps ==
  ASSUME TypeOK, NEW j \in JobIds, NEW counts, job[j] = NoRow, InsertIfRoom(j, counts)
  PROVE  /\ RowSteps /\ Only(j)
         /\ \A k \in JobIds : job'[k].state = "running" => job[k].state = "running"
<1> USE DEF TypeOK
<1>1. CASE counts < MaxQueueSize
  <2>1. job' = [k \in JobIds |-> job'[k]] /\ Only(j) /\ job'[j] = NewRow
    BY <1>1 DEF InsertIfRoom, Only
  <2>2. NewRow.state = "queued"
    BY DEF NewRow, NoRow
  <2> QED BY <2>1, <2>2 DEF RowSteps, RowStep, Only
<1>2. CASE ~(counts < MaxQueueSize)
  <2>1. job' = job
    BY <1>2 DEF InsertIfRoom
  <2> QED BY <2>1 DEF RowSteps, RowStep, Only
<1> QED BY <1>1, <1>2

LEMMA ClaimSteps ==
  ASSUME TypeOK, NEW j \in JobIds, NEW w \in Workers, IsNextJob(j), ClaimJob(j, w)
  PROVE  /\ RowSteps /\ Only(j)
         /\ job[j].state = "queued" /\ job'[j].worker = w
         /\ job'[j].attempts = job[j].attempts + 1
         /\ job[j] # NoRow
<1> USE DEF TypeOK
<1>1. /\ job' = [k \in JobIds |-> job'[k]] /\ Only(j)
      /\ job'[j] = [job[j] EXCEPT !.state = "running", !.worker = w, !.lease = "held",
                                  !.attempts = @ + 1]
  <2>1. job' = [job EXCEPT ![j] = [job[j] EXCEPT !.state = "running", !.worker = w,
                                                 !.lease = "held", !.attempts = @ + 1]]
    BY DEF ClaimJob
  <2> QED BY <2>1 DEF Only
<1>2. job[j].state = "queued"
  BY DEF IsNextJob
<1>3. Claims(job[j], job'[j])
  BY <1>1, <1>2 DEF Claims
<1>4. job'[j].worker = w /\ job'[j].attempts = job[j].attempts + 1
  BY <1>1 DEF Row
<1>5. job[j] # NoRow
  BY <1>2 DEF NoRow
<1> QED BY <1>1, <1>2, <1>3, <1>4, <1>5 DEF RowSteps, RowStep, Only

-----------------------------------------------------------------------------
(* What the actions do to the table *)

\* A worker that is claiming gets a job; its answer may be lost.
ClaimBy(w, j) ==
  /\ pc[w] = "claiming" /\ IsNextJob(j) /\ ClaimJob(j, w)
  /\ \/ claimed' = [claimed EXCEPT ![w] = <<j, job'[j].attempts>>]
     \/ claimed' = claimed
  /\ UNCHANGED <<reply, recorded>>

\* A new job arrives, or is refused.
CreateOf(j) ==
  /\ reply[j] = None /\ RowSteps /\ Only(j)
  /\ \A k \in JobIds : job'[k].state = "running" => job[k].state = "running"
  /\ \E answer \in {"kCreated", "kQueueFull", "kError"} :
       reply' = [reply EXCEPT ![j] = answer]
  /\ UNCHANGED <<claimed, recorded>>

\* Jobs age, finish or go back to the queue; workers only let go of jobs.
Otherwise ==
  /\ QuietSteps
  /\ \A w \in Workers : claimed'[w] = claimed[w] \/ claimed'[w] = None
  /\ UNCHANGED reply
  /\ \/ recorded' = recorded
     \/ \E j \in JobIds :
          /\ job[j].state = "running" /\ job'[j].state \in FinishedStates
          /\ recorded' = [recorded EXCEPT ![j] = @ + 1]

\* A worker's verdict is about the attempt it holds.
LEMMA StoreVerdictQuiet ==
  ASSUME IInv, NEW w \in Workers, pc[w] = "solving", StoreVerdict(w)
  PROVE  /\ QuietSteps /\ claimed[w][1] \in JobIds
         /\ Holds(claimed[w][1], w) =>
              /\ job[claimed[w][1]].state = "running"
              /\ job'[claimed[w][1]].state \in FinishedStates
<1> DEFINE j == claimed[w][1]
<1>1. claimed[w] # None
  BY DEF IInv, ClaimedByPc
<1>2. claimed[w] \in JobIds \X Nat
  BY <1>1 DEF IInv, TypeOK
<1>3. j \in JobIds
  BY <1>2
<1>4. PICK state \in FinishedStates :
        CompleteJob(j, w, state, IF state = "succeeded" THEN claimed[w][2] ELSE None)
  BY DEF StoreVerdict
<1>5. Holds(j, w) => claimed[w][2] = job[j].attempts
  BY <1>1 DEF IInv, HolderHasLastAttempt
<1> HIDE DEF j
<1>6. QuietSteps /\ (Holds(j, w) => job'[j].state = state)
  BY <1>3, <1>4, <1>5, CompleteIsQuiet DEF IInv
<1>7. Holds(j, w) => job[j].state = "running"
  BY DEF Holds
<1> QED BY <1>3, <1>4, <1>6, <1>7 DEF j

LEMMA StepKinds ==
  ASSUME IInv, [Next]_vars
  PROVE  \/ \E w \in Workers, j \in JobIds : ClaimBy(w, j)
         \/ \E j \in JobIds : CreateOf(j)
         \/ Otherwise
<1> USE DEF IInv
<1>1. ASSUME UNCHANGED <<job, reply, recorded>>,
             \A w \in Workers : claimed'[w] = claimed[w] \/ claimed'[w] = None
      PROVE  Otherwise
  BY <1>1, StillIsQuiet DEF Otherwise
<1>2. CASE UNCHANGED vars
  BY <1>1, <1>2 DEF vars, storeVars, threadVars
<1>3. ASSUME NEW j \in JobIds, Client(j) \/ Time(j)
      PROVE  Otherwise \/ CreateOf(j)
  <2>1. CASE CreateBegin(j)
    BY <1>1, <2>1 DEF CreateBegin, threadVars
  <2>2. CASE CreateEnd(j)
    <3>1. /\ reply[j] = None /\ InsertIfRoom(j, counted[j])
          /\ UNCHANGED <<claimed, recorded>>
          /\ reply' = [reply EXCEPT ![j] =
                         IF job'[j].state = "queued" THEN "kCreated" ELSE "kQueueFull"]
      BY <2>2 DEF CreateEnd, threadVars
    <3>2. job[j] = NoRow
      BY <3>1 DEF Fresh
    <3> QED BY <3>1, <3>2, InsertSteps DEF CreateOf
  <2>3. CASE CreateError(j)
    <3>1. /\ reply[j] = None /\ UNCHANGED <<claimed, recorded>>
          /\ reply' = [reply EXCEPT ![j] = "kError"]
          /\ InsertIfRoom(j, counted[j]) \/ job' = job
      BY <2>3 DEF CreateError, threadVars
    <3>2. job[j] = NoRow
      BY <3>1 DEF Fresh
    <3>3. CASE InsertIfRoom(j, counted[j])
      BY <3>1, <3>2, <3>3, InsertSteps DEF CreateOf
    <3>4. CASE job' = job
      BY <3>1, <3>4, StillIsQuiet DEF CreateOf, QuietSteps, Only
    <3> QED BY <3>1, <3>3, <3>4
  <2>4. CASE Time(j)
    <3>1. UNCHANGED <<claimed, reply, recorded>>
      BY <2>4 DEF Time, threadVars
    <3>2. QuietSteps
      BY <2>4, TimeIsQuiet DEF Time
    <3> QED BY <3>1, <3>2 DEF Otherwise
  <2> QED BY <1>3, <2>1, <2>2, <2>3, <2>4 DEF Client
<1>4. ASSUME NEW w \in Workers, WorkerStep(w) \/ HeartbeatRead(w)
      PROVE  Otherwise \/ \E j \in JobIds : ClaimBy(w, j)
  <2>1. CASE CheckStop(w)
    BY <1>1, <2>1 DEF CheckStop, storeVars
  <2>2. CASE ClaimNextJob(w)
    BY <2>2 DEF ClaimNextJob, ClaimBy
  <2>3. CASE ClaimNothing(w)
    BY <1>1, <2>3 DEF ClaimNothing, storeVars
  <2>4. CASE ClaimError(w)
    <3>1. CASE job' = job
      BY <1>1, <2>4, <3>1 DEF ClaimError
    <3>2. CASE job' # job
      BY <2>4, <3>2 DEF ClaimError, ClaimBy
    <3> QED BY <3>1, <3>2
  <2>5. CASE SetCurrentJob(w)
    BY <1>1, <2>5 DEF SetCurrentJob, storeVars
  <2>6. CASE Complete(w)
    <3>1. /\ pc[w] = "solving" /\ StoreVerdict(w) /\ RecordIfStored(w)
          /\ UNCHANGED <<claimed, reply>>
      BY <2>6 DEF Complete
    <3>2. /\ QuietSteps /\ claimed[w][1] \in JobIds
          /\ Holds(claimed[w][1], w) =>
               /\ job[claimed[w][1]].state = "running"
               /\ job'[claimed[w][1]].state \in FinishedStates
      BY <3>1, StoreVerdictQuiet
    <3> QED BY <3>1, <3>2 DEF Otherwise, RecordIfStored
  <2>7. CASE CompleteError(w)
    <3>1. /\ pc[w] = "solving"
          /\ StoreVerdict(w) \/ job' = job
          /\ UNCHANGED <<claimed, reply, recorded>>
      BY <2>7 DEF CompleteError
    <3>2. QuietSteps
      BY <3>1, StoreVerdictQuiet, StillIsQuiet
    <3> QED BY <3>1, <3>2 DEF Otherwise
  <2>8. CASE ClearCurrentJob(w)
    BY <1>1, <2>8 DEF ClearCurrentJob, storeVars, TypeOK
  <2>9. CASE HeartbeatRead(w)
    BY <1>1, <2>9 DEF HeartbeatRead, storeVars
  <2> QED BY <1>4, <2>1, <2>2, <2>3, <2>4, <2>5, <2>6, <2>7, <2>8, <2>9 DEF WorkerStep
<1>5. ASSUME NEW p \in Runtimes,
             \/ HeartbeatExtend(p) \/ SweepStatement(p)
             \/ Start(p) \/ Crash(p) \/ DestroySweep(p) \/ Destroy(p)
      PROVE  Otherwise
  <2>1. CASE HeartbeatExtend(p)
    <3>1. /\ beat[p] \in [worker : Workers, id : JobIds]
          /\ ExtendJobLease(beat[p].id, beat[p].worker)
          /\ UNCHANGED <<claimed, reply, recorded>>
      BY <2>1 DEF HeartbeatExtend, TypeOK
    <3>2. QuietSteps
      BY <3>1, ExtendIsQuiet
    <3> QED BY <3>1, <3>2 DEF Otherwise
  <2>2. CASE SweepStatement(p)
    <3>1. UNCHANGED <<claimed, reply, recorded>>
      BY <2>2 DEF SweepStatement, threadVars
    <3>2. QuietSteps
      BY <2>2, SweepIsQuiet DEF SweepStatement
    <3> QED BY <3>1, <3>2 DEF Otherwise
  <2>3. CASE Start(p) \/ DestroySweep(p) \/ Destroy(p)
    BY <1>1, <2>3 DEF Start, DestroySweep, Destroy, DestroyHeartbeat, JoinWorker, storeVars
  <2>4. CASE Crash(p)
    BY <1>1, <2>4 DEF Crash, storeVars
  <2> QED BY <1>5, <2>1, <2>2, <2>3, <2>4
<1> QED BY <1>2, <1>3, <1>4, <1>5 DEF Next

-----------------------------------------------------------------------------
(* The invariant is inductive *)

LEMMA AllRowSteps ==
  ASSUME IInv, [Next]_vars
  PROVE  RowSteps
<1>1. CASE \E w \in Workers, j \in JobIds : ClaimBy(w, j)
  <2>1. PICK w \in Workers, j \in JobIds : ClaimBy(w, j)
    BY <1>1
  <2> QED BY <2>1, ClaimSteps DEF ClaimBy, IInv
<1>2. CASE (\E j \in JobIds : CreateOf(j)) \/ Otherwise
  BY <1>2 DEF CreateOf, Otherwise, QuietSteps
<1> QED BY <1>1, <1>2, StepKinds

LEMMA RowsOKStep ==
  ASSUME IInv, [Next]_vars
  PROVE  RowsOK' /\ job' \in [JobIds -> Row]
<1>1. RowSteps
  BY AllRowSteps
<1>2. ASSUME NEW j \in JobIds
      PROVE  RowOK(job'[j])
  BY <1>1, RowStepOK DEF IInv, RowsOK, RowSteps
<1>3. \A j \in JobIds : job'[j] \in Row
  BY <1>2 DEF RowOK
<1>4. job' \in [JobIds -> Row]
  BY <1>1, <1>3 DEF RowSteps
<1> QED BY <1>2, <1>4 DEF RowsOK

LEMMA FreshStep ==
  ASSUME IInv, [Next]_vars
  PROVE  Fresh'
<1> USE DEF IInv
<1> SUFFICES ASSUME NEW j \in JobIds, reply'[j] = None
             PROVE  job'[j] = NoRow
  BY DEF Fresh
<1>1. ASSUME NEW w \in Workers, NEW k \in JobIds, ClaimBy(w, k)
      PROVE  job'[j] = NoRow
  <2>1. job[j] = NoRow
    BY <1>1 DEF ClaimBy, Fresh
  <2>2. Only(k) /\ job[k] # NoRow
    BY <1>1, ClaimSteps DEF ClaimBy
  <2> QED BY <2>1, <2>2 DEF Only
<1>2. ASSUME NEW k \in JobIds, CreateOf(k)
      PROVE  job'[j] = NoRow
  <2>1. j # k
    BY <1>2, RuntimeConfig DEF CreateOf, TypeOK
  <2>2. reply[j] = None /\ job'[j] = job[j]
    BY <1>2, <2>1 DEF CreateOf, TypeOK, Only
  <2> QED BY <2>2 DEF Fresh
<1>3. CASE Otherwise
  <2>1. job[j] = NoRow
    BY <1>3 DEF Otherwise, Fresh
  <2> QED BY <2>1, <1>3 DEF Otherwise, QuietSteps
<1> QED BY <1>1, <1>2, <1>3, StepKinds

\* Attempts are numbered by the rows, which only count up; the newest number
\* belongs to the worker that has just claimed the row.
LEMMA ClaimsStep ==
  ASSUME IInv, [Next]_vars
  PROVE  ClaimsOfPast' /\ HolderHasLastAttempt' /\ OneWorkerPerAttempt'
<1> USE DEF IInv
<1>1. /\ RowSteps
      /\ \A j \in JobIds : /\ job[j] \in Row /\ job'[j] \in Row
                           /\ job[j].attempts \in Nat /\ job'[j].attempts \in Nat
                           /\ job[j].attempts <= job'[j].attempts
  <2>1. \A j \in JobIds : job[j] \in Row /\ RowStep(job[j], job'[j])
    BY AllRowSteps DEF RowSteps, TypeOK
  <2>2. \A j \in JobIds : job'[j].attempts \in Nat /\ job[j].attempts <= job'[j].attempts
    BY <2>1, AttemptsGrow
  <2>3. \A j \in JobIds : job[j].attempts \in Nat
    BY <2>1 DEF Row
  <2>4. \A j \in JobIds : job'[j] \in Row
    BY RowsOKStep
  <2> QED BY AllRowSteps, <2>1, <2>2, <2>3, <2>4
<1>2. \A w \in Workers : claimed[w] # None => claimed[w] \in JobIds \X Nat
  BY DEF TypeOK
<1>3. ASSUME NEW v \in Workers, NEW k \in JobIds, ClaimBy(v, k)
      PROVE  ClaimsOfPast' /\ HolderHasLastAttempt' /\ OneWorkerPerAttempt'
  <2>1. /\ Only(k) /\ job'[k].worker = v
        /\ job'[k].attempts = job[k].attempts + 1
    BY <1>3, ClaimSteps DEF ClaimBy
  <2>2. claimed[v] = None
    BY <1>3 DEF ClaimBy, ClaimedByPc
  <2>3. \A w \in Workers \ {v} : claimed'[w] = claimed[w]
    BY <1>3 DEF ClaimBy, TypeOK
  <2>4. claimed'[v] = <<k, job'[k].attempts>> \/ claimed'[v] = None
    BY <1>3, <2>2 DEF ClaimBy, TypeOK
  <2>5. ClaimsOfPast'
    <3> SUFFICES ASSUME NEW w \in Workers, claimed'[w] # None
                 PROVE  claimed'[w][2] <= job'[claimed'[w][1]].attempts
      BY DEF ClaimsOfPast
    <3>1. CASE w = v
      <4>1. claimed'[w] = <<k, job'[k].attempts>>
        BY <3>1, <2>4
      <4> QED BY <4>1, <1>1
    <3>2. CASE w # v
      <4>1. /\ claimed'[w] = claimed[w] /\ claimed[w][1] \in JobIds
            /\ claimed[w][2] \in Nat
        BY <3>2, <2>3, <1>2
      <4>2. claimed[w][2] <= job[claimed[w][1]].attempts
        BY <4>1 DEF ClaimsOfPast
      <4> QED BY <4>1, <4>2, <1>1
    <3> QED BY <3>1, <3>2
  <2>6. HolderHasLastAttempt'
    <3> SUFFICES ASSUME NEW w \in Workers, claimed'[w] # None,
                        job'[claimed'[w][1]].state = "running",
                        job'[claimed'[w][1]].worker = w
                 PROVE  claimed'[w][2] = job'[claimed'[w][1]].attempts
      BY DEF HolderHasLastAttempt, Holds
    <3>1. CASE w = v
      <4>1. claimed'[w] = <<k, job'[k].attempts>>
        BY <3>1, <2>4
      <4> QED BY <4>1
    <3>2. CASE w # v
      <4>1. claimed'[w] = claimed[w] /\ claimed[w][1] \in JobIds
        BY <3>2, <2>3, <1>2
      <4>2. claimed[w][1] # k
        BY <4>1, <3>2, <2>1
      <4>3. job'[claimed[w][1]] = job[claimed[w][1]]
        BY <4>1, <4>2, <2>1 DEF Only
      <4> QED BY <4>1, <4>3 DEF HolderHasLastAttempt, Holds
    <3> QED BY <3>1, <3>2
  <2>7. OneWorkerPerAttempt'
    <3>1. \A w \in Workers \ {v} : claimed[w] # <<k, job'[k].attempts>>
      <4> SUFFICES ASSUME NEW w \in Workers \ {v},
                          claimed[w] = <<k, job[k].attempts + 1>>
                   PROVE  FALSE
        BY <2>1
      <4>1. claimed[w] # None
        BY <1>1, RuntimeConfig
      <4>2. claimed[w][2] <= job[claimed[w][1]].attempts
        BY <4>1 DEF ClaimsOfPast
      <4>3. job[k].attempts + 1 <= job[k].attempts
        BY <4>2
      <4> QED BY <4>3, <1>1
    <3>2. \A w \in Workers : claimed[w] = claimed'[w] \/ w = v
      BY <2>3
    <3> QED BY <3>1, <3>2, <2>4, <2>3 DEF OneWorkerPerAttempt
  <2> QED BY <2>5, <2>6, <2>7
<1>4. ASSUME \A w \in Workers : claimed'[w] = claimed[w] \/ claimed'[w] = None,
             \A j \in JobIds : job'[j].state = "running" => job[j].state = "running"
      PROVE  ClaimsOfPast' /\ HolderHasLastAttempt' /\ OneWorkerPerAttempt'
  <2>1. ClaimsOfPast'
    <3> SUFFICES ASSUME NEW w \in Workers, claimed'[w] # None
                 PROVE  claimed'[w][2] <= job'[claimed'[w][1]].attempts
      BY DEF ClaimsOfPast
    <3>1. /\ claimed'[w] = claimed[w] /\ claimed[w] # None
          /\ claimed[w][1] \in JobIds /\ claimed[w][2] \in Nat
      BY <1>2, <1>4
    <3>2. claimed[w][2] <= job[claimed[w][1]].attempts
      BY <3>1 DEF ClaimsOfPast
    <3> QED BY <3>1, <3>2, <1>1
  <2>2. HolderHasLastAttempt'
    <3> SUFFICES ASSUME NEW w \in Workers, claimed'[w] # None,
                        job'[claimed'[w][1]].state = "running",
                        job'[claimed'[w][1]].worker = w
                 PROVE  claimed'[w][2] = job'[claimed'[w][1]].attempts
      BY DEF HolderHasLastAttempt, Holds
    <3> DEFINE j == claimed[w][1]
    <3>1. claimed'[w] = claimed[w] /\ claimed[w] # None /\ j \in JobIds
      BY <1>2, <1>4
    <3>2. job[j].state = "running" /\ job'[j].state = "running" /\ job'[j].worker = w
      BY <3>1, <1>4
    <3>3. job[j] \in Row /\ RowStep(job[j], job'[j])
      BY <1>1, <3>1 DEF RowSteps
    <3>4. job'[j].worker = job[j].worker /\ job'[j].attempts = job[j].attempts
      BY <3>2, <3>3, RunningKept
    <3> QED BY <3>1, <3>2, <3>4 DEF HolderHasLastAttempt, Holds
  <2>3. OneWorkerPerAttempt'
    BY <1>4 DEF OneWorkerPerAttempt
  <2> QED BY <2>1, <2>2, <2>3
<1>5. CASE \E j \in JobIds : CreateOf(j)
  BY <1>4, <1>5 DEF CreateOf
<1>6. CASE Otherwise
  BY <1>4, <1>6 DEF Otherwise, QuietSteps
<1> QED BY <1>3, <1>5, <1>6, StepKinds

LEMMA CountedStep ==
  ASSUME IInv, [Next]_vars
  PROVE  CompletionCountedOnce'
<1> USE DEF IInv
<1> SUFFICES ASSUME NEW j \in JobIds
             PROVE  /\ recorded'[j] <= 1
                    /\ recorded'[j] = 1 =>
                         job'[j].state \in FinishedStates \cup {"expired"}
  BY DEF CompletionCountedOnce
<1>1. RowOK(job[j]) /\ RowStep(job[j], job'[j])
  BY AllRowSteps DEF RowSteps, RowsOK
<1>2. recorded \in [JobIds -> Nat] /\ recorded[j] <= 1
  BY DEF TypeOK, CompletionCountedOnce
<1>3. CASE recorded'[j] = recorded[j]
  <2>1. recorded[j] = 1 => job[j].state \in FinishedStates \cup {"expired"}
    BY DEF CompletionCountedOnce
  <2> QED BY <1>1, <1>2, <1>3, <2>1, FinishedKept
<1>4. CASE /\ job[j].state = "running" /\ job'[j].state \in FinishedStates
           /\ recorded' = [recorded EXCEPT ![j] = @ + 1]
  <2>1. recorded[j] # 1
    BY <1>4 DEF CompletionCountedOnce, FinishedStates
  <2>2. recorded[j] = 0
    BY <1>2, <2>1
  <2>3. recorded'[j] = 1
    BY <1>2, <1>4, <2>2
  <2> QED BY <1>4, <2>3
<1>5. CASE Otherwise
  <2>1. ASSUME NEW k \in JobIds \ {j}, recorded' = [recorded EXCEPT ![k] = @ + 1]
        PROVE  recorded'[j] = recorded[j]
    BY <1>2, <2>1
  <2> QED BY <1>3, <1>4, <1>5, <2>1 DEF Otherwise
<1>6. CASE (\E w \in Workers, k \in JobIds : ClaimBy(w, k))
             \/ \E k \in JobIds : CreateOf(k)
  BY <1>3, <1>6 DEF ClaimBy, CreateOf
<1> QED BY <1>5, <1>6, StepKinds

LEMMA TypeStep ==
  ASSUME IInv, [Next]_vars
  PROVE  TypeOK' /\ ClaimedByPc' /\ OffByStage'
<1> USE RuntimeConfig DEF IInv, TypeOK, ClaimedByPc, OffByStage, RuntimeOf
<1>0. job' \in [JobIds -> Row]
  BY RowsOKStep
<1>1. CASE UNCHANGED vars
  BY <1>1 DEF vars, storeVars, threadVars
<1>2. ASSUME NEW j \in JobIds, Client(j) \/ Time(j)
      PROVE  TypeOK' /\ ClaimedByPc' /\ OffByStage'
  <2>1. CASE CreateBegin(j)
    <3>1. QueuedJobs \in Nat
      <4>1. IsFiniteSet(InState("queued"))
        BY StoreConfig, FS_Subset DEF InState
      <4> QED BY <4>1, FS_CardinalityType DEF QueuedJobs
    <3> QED BY <1>0, <2>1, <3>1 DEF CreateBegin, StartCreate, threadVars
  <2>2. CASE CreateEnd(j)
    BY <1>0, <2>2 DEF CreateEnd, threadVars
  <2>3. CASE CreateError(j)
    BY <1>0, <2>3 DEF CreateError, Fault, threadVars
  <2>4. CASE Time(j)
    BY <1>0, <2>4 DEF Time, LeaseLapses, RetentionEnds, threadVars
  <2> QED BY <1>2, <2>1, <2>2, <2>3, <2>4 DEF Client
<1>3. ASSUME NEW w \in Workers, WorkerStep(w) \/ HeartbeatRead(w)
      PROVE  TypeOK' /\ ClaimedByPc' /\ OffByStage'
  <2>1. CASE CheckStop(w)
    BY <1>0, <2>1 DEF CheckStop, storeVars
  <2>2. CASE ClaimNextJob(w)
    <3>1. PICK j \in JobIds : claimed' = [claimed EXCEPT ![w] = <<j, job'[j].attempts>>]
      BY <2>2 DEF ClaimNextJob
    <3>2. <<j, job'[j].attempts>> \in JobIds \X Nat
      BY <1>0 DEF Row
    <3> QED BY <1>0, <2>2, <3>1, <3>2 DEF ClaimNextJob
  <2>3. CASE ClaimNothing(w)
    BY <1>0, <2>3 DEF ClaimNothing, storeVars
  <2>4. CASE ClaimError(w)
    <3>1. /\ pc[w] = "claiming" /\ faults' = faults + 1
          /\ current' = [current EXCEPT ![w] = None]
          /\ pc' = [pc EXCEPT ![w] = "top"]
          /\ UNCHANGED <<arrivals, stage, joining, claimed, beat, counted, reply, recorded>>
      BY <2>4 DEF ClaimError, Fault
    <3> QED BY <1>0, <3>1
  <2>5. CASE SetCurrentJob(w)
    BY <1>0, <2>5 DEF SetCurrentJob, storeVars
  <2>6. CASE Complete(w)
    <3>1. recorded' \in [JobIds -> Nat]
      BY <2>6 DEF Complete, RecordIfStored
    <3> QED BY <1>0, <2>6, <3>1 DEF Complete
  <2>7. CASE CompleteError(w)
    BY <1>0, <2>7 DEF CompleteError, Fault
  <2>8. CASE ClearCurrentJob(w)
    BY <1>0, <2>8 DEF ClearCurrentJob, storeVars
  <2>9. CASE HeartbeatRead(w)
    <3>1. /\ RuntimeOf(w) \in Runtimes /\ current[w] \in JobIds
          /\ beat' = [beat EXCEPT ![RuntimeOf(w)] = [worker |-> w, id |-> current[w]]]
      BY <2>9 DEF HeartbeatRead, RuntimeOf
    <3> QED BY <1>0, <2>9, <3>1 DEF HeartbeatRead, storeVars
  <2> QED BY <1>3, <2>1, <2>2, <2>3, <2>4, <2>5, <2>6, <2>7, <2>8, <2>9 DEF WorkerStep
<1>4. ASSUME NEW p \in Runtimes,
             \/ HeartbeatExtend(p) \/ SweepStatement(p)
             \/ Start(p) \/ Crash(p) \/ DestroySweep(p) \/ Destroy(p)
      PROVE  TypeOK' /\ ClaimedByPc' /\ OffByStage'
  <2>1. CASE HeartbeatExtend(p)
    BY <1>0, <2>1 DEF HeartbeatExtend
  <2>2. CASE SweepStatement(p)
    BY <1>0, <2>2 DEF SweepStatement, threadVars
  <2>3. CASE Start(p)
    <3>1. /\ stage' = [stage EXCEPT ![p] = "up"]
          /\ pc' = [w \in Workers |-> IF w[1] = p THEN "top" ELSE pc[w]]
          /\ UNCHANGED <<job, arrivals, joining, claimed, current, beat, counted, reply,
                         recorded, faults>>
      BY <2>3 DEF Start, WorkersOf, storeVars
    <3>2. \A w \in Workers : w[1] = p => claimed[w] = None
      <4>1. stage[p] = "off"
        BY <2>3 DEF Start
      <4>2. \A w \in Workers : w[1] = p => pc[w] = "off"
        BY <4>1
      <4> QED BY <4>2
    <3>3. TypeOK'
      BY <1>0, <3>1
    <3>4. ClaimedByPc'
      BY <3>1, <3>2
    <3>5. OffByStage'
      BY <3>1
    <3> QED BY <3>3, <3>4, <3>5
  <2>4. CASE Crash(p)
    BY <1>0, <2>4 DEF Crash, WorkersOf, storeVars
  <2>5. CASE DestroySweep(p)
    BY <1>0, <2>5 DEF DestroySweep, storeVars
  <2>6. CASE DestroyHeartbeat(p)
    BY <1>0, <2>6 DEF DestroyHeartbeat, storeVars
  <2>7. CASE JoinWorker(p)
    <3>1. joining' \in [Runtimes -> 0..WorkerCount]
      <4>1. CASE joining[p] < WorkerCount
        <5>1. joining[p] + 1 \in 0..WorkerCount
          BY <4>1
        <5>2. joining' = [joining EXCEPT ![p] = joining[p] + 1]
          BY <2>7, <4>1 DEF JoinWorker
        <5> QED BY <5>1, <5>2
      <4>2. CASE ~(joining[p] < WorkerCount)
        BY <2>7, <4>2 DEF JoinWorker
      <4> QED BY <4>1, <4>2
    <3>2. stage' = stage \/ stage' = [stage EXCEPT ![p] = "down"]
      BY <2>7 DEF JoinWorker
    <3>3. UNCHANGED <<job, arrivals, pc, claimed, current, beat, counted, reply,
                      recorded, faults>>
      BY <2>7 DEF JoinWorker, storeVars
    <3>4. TypeOK'
      BY <3>1, <3>2, <3>3
    <3>5. \A q \in Runtimes : stage'[q] = "off" => stage[q] = "off"
      BY <3>2
    <3> QED BY <3>3, <3>4, <3>5
  <2> QED BY <1>4, <2>1, <2>2, <2>3, <2>4, <2>5, <2>6, <2>7 DEF Destroy
<1> QED BY <1>1, <1>2, <1>3, <1>4 DEF Next

-----------------------------------------------------------------------------
(* Shutdown *)

\* The destructor has waited for the workers it has passed.
JoinedExited ==
  /\ \A p \in Runtimes : stage[p] = "joining" => joining[p] \in 1..WorkerCount
  /\ \A w \in Workers :
       \/ stage[RuntimeOf(w)] = "joining" /\ w[2] < joining[RuntimeOf(w)]
       \/ stage[RuntimeOf(w)] = "down"
       => pc[w] = "exited"

\* While no answer has been lost, the owner of a row works on it or was killed.
OwnerWorks ==
  \A w \in Workers, j \in JobIds :
    faults = 0 /\ job[j].worker = w /\ stage[RuntimeOf(w)] # "crashed" =>
      /\ claimed[w] # None /\ claimed[w][1] = j
      /\ pc[w] \in {"claimed", "solving"}

ShutdownInv == JoinedExited /\ OwnerWorks

LEMMA ExitedStays ==
  ASSUME IInv, JoinedExited, [Next]_vars
  PROVE  JoinedExited'
<1> USE RuntimeConfig DEF IInv, TypeOK, JoinedExited, RuntimeOf
<1>0. \A w \in Workers : w[1] \in Runtimes /\ w[2] \in 1..WorkerCount /\ w = <<w[1], w[2]>>
  OBVIOUS
<1>1. ASSUME UNCHANGED <<stage, joining>>,
             \A w \in Workers : pc[w] = "exited" => pc'[w] = "exited"
      PROVE  JoinedExited'
  BY <1>1
<1>2. CASE UNCHANGED vars
  BY <1>1, <1>2 DEF vars, threadVars
<1>3. ASSUME NEW j \in JobIds, Client(j) \/ Time(j)
      PROVE  JoinedExited'
  BY <1>1, <1>3 DEF Client, CreateBegin, CreateEnd, CreateError, Time, threadVars
<1>4. ASSUME NEW w \in Workers, WorkerStep(w) \/ HeartbeatRead(w)
      PROVE  JoinedExited'
  <2>1. UNCHANGED <<stage, joining>>
    BY <1>4 DEF WorkerStep, CheckStop, ClaimNextJob, ClaimNothing, ClaimError,
                SetCurrentJob, Complete, CompleteError, ClearCurrentJob, HeartbeatRead
  <2>2. \/ pc' = pc
        \/ pc[w] # "exited" /\ \A v \in Workers \ {w} : pc'[v] = pc[v]
    BY <1>4 DEF WorkerStep, CheckStop, ClaimNextJob, ClaimNothing, ClaimError,
                SetCurrentJob, Complete, CompleteError, ClearCurrentJob, HeartbeatRead
  <2> QED BY <1>1, <2>1, <2>2
<1>5. ASSUME NEW p \in Runtimes, HeartbeatExtend(p) \/ SweepStatement(p)
      PROVE  JoinedExited'
  BY <1>1, <1>5 DEF HeartbeatExtend, SweepStatement, threadVars
<1>6. ASSUME NEW p \in Runtimes, NEW at \in {"up", "sweepStopped", "crashed"},
             stage' = [stage EXCEPT ![p] = at], joining' = joining,
             \A w \in Workers : w[1] # p => pc'[w] = pc[w]
      PROVE  JoinedExited'
  <2>1. \A q \in Runtimes : stage'[q] = IF q = p THEN at ELSE stage[q]
    BY <1>6
  <2> QED BY <1>0, <1>6, <2>1
<1>7. ASSUME NEW p \in Runtimes, Start(p) \/ DestroySweep(p) \/ Crash(p)
      PROVE  JoinedExited'
  <2>1. \/ stage' = [stage EXCEPT ![p] = "up"]
        \/ stage' = [stage EXCEPT ![p] = "sweepStopped"]
        \/ stage' = [stage EXCEPT ![p] = "crashed"]
    BY <1>7 DEF Start, DestroySweep, Crash
  <2>2. joining' = joining /\ \A w \in Workers : w[1] # p => pc'[w] = pc[w]
    BY <1>7 DEF Start, DestroySweep, Crash, WorkersOf
  <2> QED BY <2>1, <2>2, <1>6
<1>8. ASSUME NEW p \in Runtimes, DestroyHeartbeat(p)
      PROVE  JoinedExited'
  <2>1. /\ stage' = [stage EXCEPT ![p] = "joining"]
        /\ joining' = [joining EXCEPT ![p] = 1] /\ pc' = pc
    BY <1>8 DEF DestroyHeartbeat
  <2>2. \A q \in Runtimes : /\ stage'[q] = IF q = p THEN "joining" ELSE stage[q]
                            /\ joining'[q] = IF q = p THEN 1 ELSE joining[q]
    BY <2>1
  <2>3. ~(\E i \in 1..WorkerCount : i < 1)
    OBVIOUS
  <2> QED BY <1>0, <2>1, <2>2, <2>3
<1>9. ASSUME NEW p \in Runtimes, JoinWorker(p)
      PROVE  JoinedExited'
  <2>1. /\ stage[p] = "joining" /\ pc[<<p, joining[p]>>] = "exited" /\ pc' = pc
        /\ joining[p] \in 1..WorkerCount
    BY <1>9 DEF JoinWorker
  <2>2. ASSUME NEW w \in Workers, w[1] = p, w[2] <= joining[p]
        PROVE  pc[w] = "exited"
    <3>1. CASE w[2] < joining[p]
      BY <2>1, <2>2, <3>1
    <3>2. CASE w[2] = joining[p]
      BY <1>0, <2>1, <2>2, <3>2
    <3> QED BY <1>0, <2>1, <2>2, <3>1, <3>2
  <2>3. CASE joining[p] < WorkerCount
    <3>1. stage' = stage
          /\ \A q \in Runtimes : joining'[q] = IF q = p THEN joining[p] + 1 ELSE joining[q]
      BY <1>9, <2>3 DEF JoinWorker
    <3>2. \A i \in 1..WorkerCount : i < joining[p] + 1 => i <= joining[p]
      BY <2>1
    <3>3. joining[p] + 1 \in 1..WorkerCount
      BY <2>1, <2>3
    <3> QED BY <1>0, <2>1, <2>2, <3>1, <3>2, <3>3
  <2>4. CASE ~(joining[p] < WorkerCount)
    <3>1. joining' = joining
          /\ \A q \in Runtimes : stage'[q] = IF q = p THEN "down" ELSE stage[q]
      BY <1>9, <2>4 DEF JoinWorker
    <3>2. \A i \in 1..WorkerCount : i <= joining[p]
      BY <2>1, <2>4
    <3> QED BY <1>0, <2>1, <2>2, <3>1, <3>2
  <2> QED BY <2>3, <2>4
<1> QED BY <1>2, <1>3, <1>4, <1>5, <1>7, <1>8, <1>9 DEF Next, Destroy

\* In a step that claims nothing, an owned row was owned before.
LEMMA OwnedBefore ==
  ASSUME IInv, [Next]_vars, QuietSteps, NEW j \in JobIds, NEW w \in Workers,
         job'[j].worker = w
  PROVE  job[j].worker = w /\ job[j].state = "running" /\ job'[j].state = "running"
<1>1. RowOK(job[j]) /\ RowOK(job'[j]) /\ job[j] \in Row
  BY RowsOKStep DEF IInv, RowsOK, TypeOK
<1>2. job'[j].worker # None
  BY StoreConfig
<1>3. job'[j].state = "running"
  BY <1>1, <1>2 DEF RowOK
<1>4. job[j].state = "running" /\ RowStep(job[j], job'[j])
  BY <1>3 DEF QuietSteps, RowSteps
<1> QED BY <1>1, <1>3, <1>4, RunningKept

LEMMA OwnersStep ==
  ASSUME IInv, OwnerWorks, [Next]_vars
  PROVE  OwnerWorks'
<1> USE DEF IInv, RuntimeOf
<1> SUFFICES ASSUME NEW w \in Workers, NEW j \in JobIds, faults' = 0,
                    job'[j].worker = w, stage'[RuntimeOf(w)] # "crashed"
             PROVE  /\ claimed'[w] # None /\ claimed'[w][1] = j
                    /\ pc'[w] \in {"claimed", "solving"}
  BY DEF OwnerWorks
<1> DEFINE Works == /\ claimed'[w] # None /\ claimed'[w][1] = j
                    /\ pc'[w] \in {"claimed", "solving"}
<1>0. faults \in Nat /\ ~Fault
  BY DEF TypeOK, Fault
<1>1. ASSUME QuietSteps, faults = 0, stage[w[1]] # "crashed"
      PROVE  /\ claimed[w] # None /\ claimed[w][1] = j
             /\ pc[w] \in {"claimed", "solving"}
             /\ Holds(j, w) /\ job'[j].state = "running"
  BY <1>1, OwnedBefore DEF OwnerWorks, Holds
<1>2. ASSUME QuietSteps, faults' = faults, stage[w[1]] # "crashed",
             claimed'[w] = claimed[w], pc'[w] = pc[w]
      PROVE  Works
  BY <1>1, <1>2
<1>3. ASSUME job' = job, faults' = faults, stage[w[1]] # "crashed",
             claimed'[w] = claimed[w],
             pc'[w] = pc[w] \/ pc[w] \notin {"claimed", "solving"}
      PROVE  Works
  BY <1>1, <1>3, StillIsQuiet
<1>4. CASE UNCHANGED vars
  BY <1>3, <1>4 DEF vars, storeVars, threadVars
<1>5. ASSUME NEW k \in JobIds, Client(k) \/ Time(k)
      PROVE  Works
  <2>1. UNCHANGED threadVars /\ faults' = faults
    BY <1>0, <1>5 DEF Client, CreateBegin, CreateEnd, CreateError, Time
  <2>2. CASE job'[j] = job[j]
    BY <2>1, <2>2 DEF OwnerWorks, threadVars
  <2>3. CASE Time(k)
    BY <2>1, <2>3, <1>2, TimeIsQuiet DEF Time, threadVars
  <2>4. CASE CreateBegin(k)
    BY <2>2, <2>4 DEF CreateBegin
  <2>5. CASE CreateEnd(k)
    <3>1. job[k] = NoRow /\ InsertIfRoom(k, counted[k])
      BY <2>5 DEF CreateEnd, Fresh
    <3>2. /\ Only(k)
          /\ \A i \in JobIds : job'[i].state = "running" => job[i].state = "running"
      BY <3>1, InsertSteps
    <3>3. job'[j].state = "running"
      BY RowsOKStep, StoreConfig DEF RowsOK, RowOK
    <3>4. j # k
      BY <3>1, <3>2, <3>3 DEF NoRow
    <3> QED BY <3>2, <3>4, <2>2 DEF Only
  <2>6. ~CreateError(k)
    BY <1>0 DEF CreateError
  <2> QED BY <1>5, <2>3, <2>4, <2>5, <2>6 DEF Client
<1>6. ASSUME NEW v \in Workers, WorkerStep(v) \/ HeartbeatRead(v)
      PROVE  Works
  <2>1. ~ClaimError(v) /\ ~CompleteError(v)
    BY <1>0 DEF ClaimError, CompleteError
  <2>2. CASE CheckStop(v) \/ ClaimNothing(v)
    <3>1. job' = job /\ faults' = faults /\ stage' = stage /\ claimed' = claimed
      BY <2>2 DEF CheckStop, ClaimNothing, storeVars
    <3>2. pc'[w] = pc[w] \/ pc[w] \notin {"claimed", "solving"}
      BY <2>2 DEF CheckStop, ClaimNothing, TypeOK
    <3> QED BY <3>1, <3>2, <1>3
  <2>3. CASE ClaimNextJob(v)
    <3>1. PICK k \in JobIds :
            /\ IsNextJob(k) /\ ClaimJob(k, v)
            /\ claimed' = [claimed EXCEPT ![v] = <<k, job'[k].attempts>>]
      BY <2>3 DEF ClaimNextJob
    <3>2. /\ pc[v] = "claiming" /\ pc' = [pc EXCEPT ![v] = "claimed"]
          /\ stage' = stage /\ faults' = faults
      BY <2>3 DEF ClaimNextJob
    <3>3. Only(k) /\ job'[k].worker = v
      BY <3>1, ClaimSteps
    <3>4. CASE j = k
      <4>1. w = v /\ claimed'[w] = <<k, job'[k].attempts>> /\ pc'[w] = "claimed"
        BY <3>1, <3>2, <3>3, <3>4 DEF TypeOK
      <4>2. <<k, job'[k].attempts>> \in JobIds \X Nat
        BY RowsOKStep DEF Row
      <4> QED BY <3>4, <4>1, <4>2, RuntimeConfig
    <3>5. CASE j # k
      <4>1. job[j].worker = w
        BY <3>3, <3>5 DEF Only
      <4>2. /\ claimed[w] # None /\ claimed[w][1] = j
            /\ pc[w] \in {"claimed", "solving"}
        BY <3>2, <4>1 DEF OwnerWorks
      <4>3. w # v
        BY <3>2, <4>2
      <4> QED BY <3>1, <3>2, <4>2, <4>3 DEF TypeOK
    <3> QED BY <3>4, <3>5
  <2>4. CASE SetCurrentJob(v)
    <3>1. /\ job' = job /\ faults' = faults /\ stage' = stage /\ claimed' = claimed
          /\ pc' = [pc EXCEPT ![v] = "solving"]
      BY <2>4 DEF SetCurrentJob, storeVars
    <3>2. /\ claimed[w] # None /\ claimed[w][1] = j
          /\ pc[w] \in {"claimed", "solving"}
      BY <3>1, <1>1, StillIsQuiet
    <3> QED BY <3>1, <3>2 DEF TypeOK
  <2>5. CASE Complete(v)
    <3>1. /\ pc[v] = "solving" /\ StoreVerdict(v)
          /\ pc' = [pc EXCEPT ![v] = "completed"]
          /\ faults' = faults /\ stage' = stage /\ claimed' = claimed
      BY <2>5 DEF Complete
    <3>2. /\ QuietSteps
          /\ Holds(claimed[v][1], v) => job'[claimed[v][1]].state \in FinishedStates
      BY <3>1, StoreVerdictQuiet
    <3>3. /\ claimed[w] # None /\ claimed[w][1] = j
          /\ pc[w] \in {"claimed", "solving"}
          /\ Holds(j, w) /\ job'[j].state = "running"
      BY <3>1, <3>2, <1>1
    <3>4. w # v
      BY <3>2, <3>3 DEF FinishedStates
    <3> QED BY <3>1, <3>3, <3>4 DEF TypeOK
  <2>6. CASE ClearCurrentJob(v)
    <3>1. /\ job' = job /\ faults' = faults /\ stage' = stage /\ pc[v] = "completed"
          /\ claimed' = [claimed EXCEPT ![v] = None]
          /\ pc' = [pc EXCEPT ![v] = "top"]
      BY <2>6 DEF ClearCurrentJob, storeVars
    <3>2. /\ claimed[w] # None /\ claimed[w][1] = j
          /\ pc[w] \in {"claimed", "solving"}
      BY <3>1, <1>1, StillIsQuiet
    <3>3. w # v
      BY <3>1, <3>2
    <3> QED BY <3>1, <3>2, <3>3 DEF TypeOK
  <2>7. CASE HeartbeatRead(v)
    BY <2>7, <1>3 DEF HeartbeatRead, storeVars
  <2> QED BY <1>6, <2>1, <2>2, <2>3, <2>4, <2>5, <2>6, <2>7 DEF WorkerStep
<1>7. ASSUME NEW p \in Runtimes, HeartbeatExtend(p) \/ SweepStatement(p)
      PROVE  Works
  <2>1. UNCHANGED <<faults, stage, claimed, pc>>
    BY <1>7 DEF HeartbeatExtend, SweepStatement, threadVars
  <2>2. CASE HeartbeatExtend(p)
    <3>1. /\ beat[p] \in [worker : Workers, id : JobIds]
          /\ ExtendJobLease(beat[p].id, beat[p].worker)
      BY <2>2 DEF HeartbeatExtend, TypeOK
    <3> QED BY <2>1, <3>1, <1>2, ExtendIsQuiet
  <2>3. CASE SweepStatement(p)
    BY <2>1, <2>3, <1>2, SweepIsQuiet DEF SweepStatement
  <2> QED BY <1>7, <2>2, <2>3
<1>8. ASSUME NEW p \in Runtimes, Start(p)
      PROVE  Works
  <2>1. /\ stage[p] = "off" /\ stage' = [stage EXCEPT ![p] = "up"]
        /\ pc' = [v \in Workers |-> IF v[1] = p THEN "top" ELSE pc[v]]
        /\ UNCHANGED <<job, faults, claimed>>
    BY <1>8 DEF Start, WorkersOf, storeVars
  <2>2. stage[w[1]] # "crashed"
    BY <2>1 DEF TypeOK
  <2>3. w[1] = p => pc[w] = "off"
    BY <2>1 DEF OffByStage
  <2> QED BY <2>1, <2>2, <2>3, <1>3
<1>9. ASSUME NEW p \in Runtimes, Crash(p)
      PROVE  Works
  <2>1. /\ stage' = [stage EXCEPT ![p] = "crashed"]
        /\ pc' = [v \in Workers |-> IF v[1] = p THEN "exited" ELSE pc[v]]
        /\ claimed' = [v \in Workers |-> IF v[1] = p THEN None ELSE claimed[v]]
        /\ UNCHANGED <<job, faults>>
    BY <1>9 DEF Crash, WorkersOf, storeVars
  <2>2. w[1] # p /\ stage[w[1]] # "crashed"
    BY <2>1 DEF TypeOK
  <2> QED BY <2>1, <2>2, <1>3
<1>10. ASSUME NEW p \in Runtimes, DestroySweep(p) \/ Destroy(p)
       PROVE  Works
  <2>1. UNCHANGED <<job, faults, claimed, pc>>
    BY <1>10 DEF DestroySweep, Destroy, DestroyHeartbeat, JoinWorker, storeVars
  <2>2. \A q \in Runtimes : stage[q] = "crashed" => stage'[q] = "crashed"
    BY <1>10 DEF DestroySweep, Destroy, DestroyHeartbeat, JoinWorker, TypeOK
  <2>3. w[1] \in Runtimes
    BY RuntimeConfig
  <2> QED BY <2>1, <2>2, <2>3, <1>3
<1> QED BY <1>4, <1>5, <1>6, <1>7, <1>8, <1>9, <1>10 DEF Next

-----------------------------------------------------------------------------
(* Theorems *)

\* Every reachable state satisfies the inductive invariant.
THEOREM Invariance == Spec => []IInv
<1>1. IInv /\ [Next]_vars => IInv'
  BY TypeStep, RowsOKStep, FreshStep, ClaimsStep, CountedStep DEF IInv
<1> QED BY InitInv, <1>1, PTL DEF Spec

\* The variables keep their types.
THEOREM TypeCorrect == Spec => []TypeOK
<1>1. IInv => TypeOK
  BY DEF IInv
<1> QED BY Invariance, <1>1, PTL

\* A job is tried at most MaxAttempts times, and waits only with a try left,
\* however many workers die, leases lapse and answers are lost.
THEOREM AttemptsAreBounded == Spec => []AttemptsBounded
<1>1. IInv => AttemptsBounded
  BY DEF IInv, RowsOK, RowOK, AttemptsBounded
<1> QED BY Invariance, <1>1, PTL

\* Owner, lease, retention and result of a row agree with its state.
THEOREM RowsStayConsistent == Spec => []RowsConsistent
<1>1. IInv => RowsConsistent
  BY DEF IInv, RowsOK, RowOK, RowsConsistent
<1> QED BY Invariance, <1>1, PTL

\* The result that is stored is the last attempt's: a worker that has lost its
\* lease cannot overwrite it.
THEOREM LastAttemptWins == Spec => []ResultOfLastAttempt
<1>1. IInv => ResultOfLastAttempt
  BY DEF IInv, RowsOK, RowOK, ResultOfLastAttempt
<1> QED BY Invariance, <1>1, PTL

\* No two workers, of one process or of several, work on the same attempt.
THEOREM AttemptsAreExclusive == Spec => []OneWorkerPerAttempt
<1>1. IInv => OneWorkerPerAttempt
  BY DEF IInv
<1> QED BY Invariance, <1>1, PTL

\* The metrics count no completion twice.
THEOREM CompletionsCounted == Spec => []CompletionCountedOnce
<1>1. IInv => CompletionCountedOnce
  BY DEF IInv
<1> QED BY Invariance, <1>1, PTL

\* A runtime that has been destroyed, with no answer lost, owns no row: no job
\* has to wait for a lease to lapse.
THEOREM ShutdownIsClean == Spec => []ShutdownLeavesNoOrphan
<1>1. Init => ShutdownInv
  BY StoreConfig, RuntimeConfig
  DEF Init, StoreInit, NoRow, ShutdownInv, JoinedExited, OwnerWorks, RuntimeOf
<1>2. IInv /\ ShutdownInv /\ [Next]_vars => ShutdownInv'
  BY ExitedStays, OwnersStep DEF ShutdownInv
<1>3. ShutdownInv => ShutdownLeavesNoOrphan
  BY StoreConfig DEF ShutdownInv, JoinedExited, OwnerWorks, ShutdownLeavesNoOrphan, WorkersOf
<1> QED BY Invariance, <1>1, <1>2, <1>3, PTL DEF Spec

\* What a client has been told stays true.
THEOREM AnswersAreFinal == Spec => AnswerIsFinal
<1>1. ASSUME IInv, [Next]_vars, NEW j \in JobIds
      PROVE  /\ ResultStatus(j) \in {200, 409} =>
                  \/ job'[j].state = job[j].state /\ job'[j].result = job[j].result
                  \/ ResultStatus(j)' = 404
             /\ ResultStatus(j) = 202 => ResultStatus(j)' # 404
             /\ job[j].state = "expired" => ResultStatus(j)' = 404
  <2> DEFINE r == job[j]
             s == job'[j]
  <2>1. RowOK(r) /\ RowOK(s) /\ r \in Row /\ RowStep(r, s)
    BY <1>1, AllRowSteps, RowsOKStep DEF IInv, RowsOK, RowSteps, TypeOK
  <2> HIDE DEF r, s
  <2>2. /\ r.state = "expired" => s.state = "expired"
        /\ r.state \in FinishedStates =>
             (s.state = r.state /\ s.result = r.result) \/ s.state = "expired"
        /\ r.state \in {"queued", "running"} => s.state \notin {"absent", "expired"}
    <3> USE <2>1 DEF Row, FinishedStates, NoRow
    <3>1. CASE s = r \/ (r = NoRow /\ s = NewRow)
      BY <3>1
    <3>2. CASE Claims(r, s)
      <4>1. r.state = "queued" /\ s.state = "running"
        BY <3>2 DEF Claims
      <4> QED BY <4>1
    <3>3. CASE Finishes(r, s)
      <4>1. r.state = "running" /\ s.state \in FinishedStates
        BY <3>3 DEF Finishes
      <4> QED BY <4>1
    <3>4. CASE Requeues(r, s)
      <4>1. r.state = "running" /\ s.state = "queued"
        BY <3>4 DEF Requeues
      <4> QED BY <4>1
    <3>5. CASE Expires(r, s)
      <4>1. r.state \in FinishedStates /\ s.state = "expired"
        BY <3>5 DEF Expires
      <4> QED BY <4>1
    <3>6. CASE Ages(r, s)
      <4>1. s.state = r.state /\ s.result = r.result
        BY <3>6 DEF Ages
      <4> QED BY <4>1
    <3> QED BY <2>1, <3>1, <3>2, <3>3, <3>4, <3>5, <3>6 DEF RowStep
  <2>3. /\ ResultStatus(j) = 404 <=> r.state \in {"absent", "expired"}
        /\ ResultStatus(j) = 202 <=> r.state \in {"queued", "running"}
        /\ ResultStatus(j) \in {200, 409} <=> r.state \in FinishedStates
    BY <2>1 DEF r, ResultStatus, RowOK, Row, JobStates, FinishedStates
  <2>4. ResultStatus(j)' = 404 <=> s.state \in {"absent", "expired"}
    BY <2>1 DEF s, ResultStatus, RowOK, Row, JobStates, FinishedStates
  <2> QED BY <2>2, <2>3, <2>4 DEF r, s
<1>2. IInv /\ [Next]_vars =>
        [\A j \in JobIds :
           /\ ResultStatus(j) \in {200, 409} =>
                \/ job'[j].state = job[j].state /\ job'[j].result = job[j].result
                \/ ResultStatus(j)' = 404
           /\ ResultStatus(j) = 202 => ResultStatus(j)' # 404
           /\ job[j].state = "expired" => ResultStatus(j)' = 404]_vars
  BY <1>1
<1> QED BY Invariance, <1>2, PTL DEF Spec, AnswerIsFinal

\* The row of every job implements JobLifecycle.
THEOREM RuntimeImplementsLifecycle == Spec => ImplementsLifecycle
<1>1. Init => \A j \in JobIds : Life(j)!Init
  BY DEF Init, StoreInit, NoRow, Life!Init
<1>2. ASSUME IInv, [Next]_vars, NEW j \in JobIds
      PROVE  [Life(j)!Next]_(Life(j)!vars)
  <2> DEFINE r == job[j]
             s == job'[j]
  <2>1. RowOK(r) /\ r \in Row /\ RowStep(r, s)
    BY <1>2, AllRowSteps DEF IInv, RowsOK, RowSteps, TypeOK
  <2> HIDE DEF r, s
  <2> DEFINE Goes(from, to) == r.state = from /\ s.state = to
             Same == s.attempts = r.attempts /\ s.result = r.result
  <2>2. \/ s.state = r.state /\ Same
        \/ Goes("absent", "queued") /\ Same
        \/ /\ Goes("queued", "running") /\ r.attempts < MaxAttempts
           /\ s.attempts = r.attempts + 1 /\ s.result = r.result
        \/ /\ Goes("running", "succeeded")
           /\ s.result = r.attempts /\ s.attempts = r.attempts
        \/ (Goes("running", "failed") \/ Goes("running", "timed_out")) /\ Same
        \/ Goes("running", "queued") /\ r.attempts < MaxAttempts /\ Same
        \/ /\ \/ Goes("succeeded", "expired") \/ Goes("failed", "expired")
              \/ Goes("timed_out", "expired")
           /\ s.result = None /\ s.attempts = r.attempts
    <3> USE <2>1 DEF Row
    <3>1. CASE s = r
      BY <3>1
    <3>2. CASE r = NoRow /\ s = NewRow
      BY <3>2 DEF NoRow, NewRow
    <3>3. CASE Claims(r, s)
      <4>1. r.attempts < MaxAttempts
        BY <3>3 DEF Claims, RowOK
      <4> QED BY <3>3, <4>1 DEF Claims
    <3>4. CASE Finishes(r, s)
      <4>1. PICK state \in FinishedStates :
              s = [r EXCEPT !.state = state, !.worker = None, !.lease = "none",
                            !.retention = "kept",
                            !.result = IF state = "succeeded" THEN r.attempts ELSE None]
        BY <3>4 DEF Finishes
      <4>2. r.state = "running" /\ r.result = None
        BY <3>4 DEF Finishes, RowOK
      <4>3. /\ s.state = state /\ s.attempts = r.attempts
            /\ s.result = IF state = "succeeded" THEN r.attempts ELSE None
        BY <4>1
      <4> QED BY <4>2, <4>3 DEF FinishedStates
    <3>5. CASE Requeues(r, s)
      BY <3>5 DEF Requeues
    <3>6. CASE Expires(r, s)
      <4>1. s.state = "expired" /\ s.result = None /\ s.attempts = r.attempts
        BY <3>6 DEF Expires
      <4> QED BY <3>6, <4>1 DEF Expires, FinishedStates
    <3>7. CASE Ages(r, s)
      <4>1. s.state = r.state /\ Same
        BY <3>7 DEF Ages
      <4> QED BY <4>1
    <3> QED BY <2>1, <3>1, <3>2, <3>3, <3>4, <3>5, <3>6, <3>7 DEF RowStep
  <2> QED BY <2>2 DEF r, s, Life!Next, Life!vars, Life!Accept, Life!Try, Life!Succeed,
                      Life!Fail, Life!Retry, Life!Forget, Life!Goes
<1>3. IInv /\ [Next]_vars => [\A j \in JobIds : [Life(j)!Next]_(Life(j)!vars)]_vars
  BY <1>2
<1> QED BY Invariance, <1>1, <1>3, PTL DEF Spec, ImplementsLifecycle
=============================================================================
