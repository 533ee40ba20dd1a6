--------------------------- MODULE OptimizeClient ---------------------------
(***************************************************************************)
(* The optimisation of the edit page (useOptimize.ts) as the browser runs  *)
(* it: the prompts that lead to a run, the run itself with its awaits, and *)
(* the pages it outlives.  A run is one call of optimize(); it keeps the   *)
(* lists it closed over.  Leaving the page unmounts the hook but does not  *)
(* stop the run; coming back mounts a new hook and restores the draft.     *)
(* The jobs move through the phases of JobLifecycle.                       *)
(***************************************************************************)
EXTENDS Naturals, FiniteSets

CONSTANTS
  Runs,         \* calls of optimize()
  NoRun,
  MaxVersion,   \* bound on the edits of the lists
  MaxVisits,    \* bound on the mounts of the edit page
  MaxPolls      \* polls that fit between submission and POLL_TIMEOUT_MS

\* What the constants must be; the instance for TLC assumes it.
ClientAssumption == NoRun \notin Runs /\ MaxPolls \in Nat

VARIABLES
  page,          \* the page shown
  visit,         \* which mount of the edit page is the latest
  lists,         \* vehicles and addresses: content, locked and complete, over capacity
  draft,         \* the lists under editPageDraft
  savePending,   \* the timer of the draft save is running
  prompt,        \* the question on screen
  alert,         \* optimizeError is shown
  approved,      \* allowPartialRef
  active,        \* the run behind optimizeInFlightRef and isOptimizing
  run,           \* the runs
  job,           \* phase of the job each run polls
  results        \* the run whose routes are under optimizeResults

clientVars == <<page, visit, lists, draft, savePending, prompt, alert, approved, active,
                run, job, results>>
hookVars == <<prompt, alert, approved, active>>

Lists == [version : 0..MaxVersion, complete : BOOLEAN, over : BOOLEAN]
Empty == [version |-> 0, complete |-> FALSE, over |-> FALSE]

NotRunning(pc) == [pc |-> pc, visit |-> 0, lists |-> Empty, polls |-> 0]

\* The page is opened with the draft the tab has, whatever it holds.
Init ==
  /\ page = "edit" /\ visit = 1
  /\ lists \in {l \in Lists : l.version = 0} /\ draft = lists /\ savePending = FALSE
  /\ prompt = "none" /\ alert = FALSE /\ approved = FALSE /\ active = NoRun
  /\ run = [r \in Runs |-> NotRunning("idle")]
  /\ job = [r \in Runs |-> "absent"]
  /\ results = NoRun

-----------------------------------------------------------------------------
(* The page. *)

\* Plausible mistake: the optimising dialog lets events through to the page.
CanEditMeanwhile == page = "edit" /\ prompt = "none" /\ ~alert

\* Prompts and the optimising dialog are modal; nothing else is in the way of an edit.
CanEdit == page = "edit" /\ prompt = "none" /\ ~alert /\ active = NoRun

Edit ==
  /\ CanEdit
  /\ lists.version < MaxVersion
  /\ \E complete, over \in BOOLEAN :
       lists' = [version |-> lists.version + 1, complete |-> complete, over |-> over]
  /\ savePending' = TRUE
  /\ UNCHANGED <<page, visit, draft, hookVars, run, job, results>>

\* The timer of the effect that follows every change of the lists.
SaveDraft ==
  /\ savePending
  /\ draft' = lists /\ savePending' = FALSE
  /\ UNCHANGED <<page, visit, lists, hookVars, run, job, results>>

\* What a hook starts with, and what is left of it when its page goes.
ResetHook == prompt' = "none" /\ alert' = FALSE /\ approved' = FALSE /\ active' = NoRun

\* The cleanup of the effect clears the timer: an edit of the last half second is lost.
Leave ==
  /\ page = "edit"
  /\ page' = "other" /\ savePending' = FALSE
  /\ ResetHook
  /\ UNCHANGED <<visit, lists, draft, run, job, results>>

Return ==
  /\ page # "edit" /\ visit < MaxVisits
  /\ page' = "edit" /\ visit' = visit + 1
  /\ lists' = draft /\ savePending' = TRUE
  /\ ResetHook
  /\ UNCHANGED <<draft, run, job, results>>

-----------------------------------------------------------------------------
(* The prompts (startOptimize and the dialogs of page.tsx). *)

\* Plausible mistake: an approval is kept until the next one.
NextPartialApprovalSticky(current, event) == event = "approve" \/ current

\* nextPartialApproval
NextPartialApproval(current, event) == event = "approve"

SetPartialApproval(event) == approved' = NextPartialApproval(approved, event)

ShouldWarn(allowPartial) == lists.over /\ ~allowPartial

StartOptimize ==
  /\ page = "edit" /\ prompt = "none" /\ ~alert /\ active = NoRun
  /\ SetPartialApproval("fresh_start")
  /\ alert' = ~lists.complete
  /\ prompt' = CASE ~lists.complete -> "none"
                 [] lists.complete /\ ShouldWarn(approved') -> "warning"
                 [] lists.complete /\ ~ShouldWarn(approved') -> "depot"
  /\ UNCHANGED <<page, visit, lists, draft, savePending, active, run, job, results>>

OptimizeAnyway ==
  /\ prompt = "warning"
  /\ SetPartialApproval("approve")
  /\ prompt' = "depot"
  /\ UNCHANGED <<page, visit, lists, draft, savePending, alert, active, run, job, results>>

\* clearCapacityWarning and dismissDepotAddressPrompt
Dismiss ==
  /\ prompt # "none"
  /\ SetPartialApproval("dismiss")
  /\ prompt' = "none"
  /\ UNCHANGED <<page, visit, lists, draft, savePending, alert, active, run, job, results>>

ClearError ==
  /\ alert /\ alert' = FALSE
  /\ UNCHANGED <<page, visit, lists, draft, savePending, prompt, approved, active, run, job,
                 results>>

-----------------------------------------------------------------------------
(* The run. *)

Mounted(r) == page = "edit" /\ run[r].visit = visit

\* The first, synchronous part of optimize(): preflight once more, then the flight begins.
Optimize(r) ==
  /\ prompt = "depot" /\ active = NoRun
  /\ run[r].pc = "idle"
  /\ IF ~lists.complete
       THEN /\ prompt' = "none" /\ alert' = TRUE
            /\ SetPartialApproval("run_finished")
            /\ UNCHANGED <<active, run>>
       ELSE IF ShouldWarn(approved)
       THEN prompt' = "warning" /\ UNCHANGED <<alert, approved, active, run>>
       ELSE /\ prompt' = "none" /\ active' = r
            /\ run' = [run EXCEPT ![r] = [pc |-> "depot", visit |-> visit, lists |-> lists,
                                          polls |-> 0]]
            /\ UNCHANGED <<alert, approved>>
  /\ UNCHANGED <<page, visit, lists, draft, savePending, job, results>>

Goto(r, pc) == run' = [run EXCEPT ![r].pc = pc]

\* Plausible mistake: only a run that succeeds ends the flight.
FinishQuietly(r, failed) ==
  /\ run' = [run EXCEPT ![r] = NotRunning("done")]
  /\ IF Mounted(r)
       THEN /\ SetPartialApproval("run_finished")
            /\ alert' = failed /\ UNCHANGED <<prompt, active>>
       ELSE UNCHANGED hookVars

\* The finally block; the setters of a hook that is gone change nothing any more.
Finish(r, failed) ==
  /\ run' = [run EXCEPT ![r] = NotRunning("done")]
  /\ IF Mounted(r)
       THEN /\ SetPartialApproval("run_finished")
            /\ active' = NoRun /\ alert' = failed /\ UNCHANGED prompt
       ELSE UNCHANGED hookVars

\* Every await may reject, and every answer may be an error that is shown:
\* geocoding finds nothing or an unsupported region, the routes answer an error.
Fails(r) ==
  /\ run[r].pc \in {"depot", "addresses", "submit", "poll", "result"}
  /\ Finish(r, TRUE)
  /\ UNCHANGED <<page, visit, lists, draft, savePending, job, results>>

\* The depot is located: the lists the run closed over become the draft.
DepotLocated(r) ==
  /\ run[r].pc = "depot"
  /\ draft' = run[r].lists
  /\ savePending' = (savePending \/ Mounted(r))
  /\ Goto(r, "addresses")
  /\ UNCHANGED <<page, visit, lists, hookVars, job, results>>

AddressesLocated(r) ==
  /\ run[r].pc = "addresses"
  /\ savePending' = (savePending \/ Mounted(r))
  /\ Goto(r, "submit")
  /\ UNCHANGED <<page, visit, lists, draft, hookVars, job, results>>

Submitted(r) ==
  /\ run[r].pc = "submit"
  /\ job' = [job EXCEPT ![r] = "queued"]
  /\ Goto(r, "poll")
  /\ UNCHANGED <<page, visit, lists, draft, savePending, hookVars, results>>

Unfinished == {"queued", "running"}

PollUnfinished(r) ==
  /\ run[r].pc = "poll" /\ job[r] \in Unfinished
  /\ Goto(r, "sleep")
  /\ UNCHANGED <<page, visit, lists, draft, savePending, hookVars, job, results>>

PollSucceeded(r) ==
  /\ run[r].pc = "poll" /\ job[r] = "succeeded"
  /\ Goto(r, "result")
  /\ UNCHANGED <<page, visit, lists, draft, savePending, hookVars, job, results>>

PollFailed(r) ==
  /\ run[r].pc = "poll" /\ job[r] \in {"failed", "timed_out", "expired"}
  /\ Finish(r, TRUE)
  /\ UNCHANGED <<page, visit, lists, draft, savePending, job, results>>

\* The test of the loop after a pause: how often it can succeed is bounded by the deadline.
BeforeDeadline(r) == run[r].polls < MaxPolls

PollAgain(r) ==
  /\ run[r].pc = "sleep" /\ BeforeDeadline(r)
  /\ run' = [run EXCEPT ![r].pc = "poll", ![r].polls = @ + 1]
  /\ UNCHANGED <<page, visit, lists, draft, savePending, hookVars, job, results>>

\* Slow answers use the time up earlier.
GiveUp(r) ==
  /\ run[r].pc = "sleep"
  /\ Finish(r, TRUE)
  /\ UNCHANGED <<page, visit, lists, draft, savePending, job, results>>

\* The result is stored and the results page opened, wherever the user is by now.
\* A job that has expired since answers 404, which Fails covers.
ResultArrives(r) ==
  /\ run[r].pc = "result" /\ job[r] = "succeeded"
  /\ results' = r
  /\ page' = "results" /\ savePending' = FALSE
  /\ run' = [run EXCEPT ![r] = NotRunning("done")]
  /\ ResetHook
  /\ UNCHANGED <<visit, lists, draft, job>>

\* The optimizer's side, as long as somebody asks.
JobStep(r) ==
  /\ run[r].pc \in {"poll", "sleep", "result"}
  /\ \/ job[r] = "queued" /\ job' = [job EXCEPT ![r] = "running"]
     \/ /\ job[r] = "running"
        /\ \E p \in {"queued", "succeeded", "failed", "timed_out"} : job' = [job EXCEPT ![r] = p]
     \/ /\ job[r] \in {"succeeded", "failed", "timed_out"}
        /\ job' = [job EXCEPT ![r] = "expired"]
  /\ UNCHANGED <<page, visit, lists, draft, savePending, hookVars, run, results>>

RunStep(r) ==
  \/ Fails(r)
  \/ DepotLocated(r)
  \/ AddressesLocated(r)
  \/ Submitted(r)
  \/ PollUnfinished(r)
  \/ PollSucceeded(r)
  \/ PollFailed(r)
  \/ PollAgain(r)
  \/ GiveUp(r)
  \/ ResultArrives(r)

UserStep ==
  \/ Edit
  \/ Leave
  \/ Return
  \/ StartOptimize
  \/ OptimizeAnyway
  \/ Dismiss
  \/ ClearError
  \/ \E r \in Runs : Optimize(r)

Next ==
  \/ UserStep
  \/ SaveDraft
  \/ \E r \in Runs : RunStep(r) \/ JobStep(r)

Spec == Init /\ [][Next]_clientVars

\* The browser settles every fetch, and runs its timers.
FairSpec == Spec /\ \A r \in Runs : WF_clientVars(RunStep(r))

-----------------------------------------------------------------------------
InFlight(r) == run[r].pc \notin {"idle", "done"}

\* The consent to a partial route is that of one prompt and one run: it never outlives
\* them, and no run of lists over capacity is in flight on its page without it
\* (partialOptimizationApproval.ts).
ConsentPerRun ==
  /\ approved => prompt = "depot" \/ active # NoRun
  /\ \A r \in Runs : InFlight(r) /\ Mounted(r) /\ run[r].lists.over => approved

\* Routes that arrive while their page is still open are those of the lists on it.
RoutesMatchLists ==
  [][\A r \in Runs : results' = r /\ InFlight(r) /\ Mounted(r)
       => run[r].lists = lists]_clientVars

\* The optimising dialog goes away: every run ends within its deadline or with an error.
OptimizingEnds == active # NoRun ~> active = NoRun
=============================================================================
