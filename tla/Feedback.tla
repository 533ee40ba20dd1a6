------------------------------ MODULE Feedback ------------------------------
(***************************************************************************)
(* The feedback form of every page (FeedbackLauncher.tsx) and the route it *)
(* posts to (api/feedback/route.ts with lib/feedback): rate limit, daily   *)
(* shutdown with its flag in memory and its guard object in the bucket,    *)
(* verification, and the GitHub issue with its shared installation token.  *)
(* The handler's awaits interleave with those of other requests; the form  *)
(* may be closed, changed and sent again while its answer is on the way.   *)
(***************************************************************************)
EXTENDS Integers, FiniteSets

CONSTANTS
  Clients,    \* browsers, each with an address of its own
  Slots,      \* requests the server has under way (bounds them); the first free one is taken
  NoClient,   \* the client of a free slot
  RateMax,    \* FEEDBACK_RATE_LIMIT_MAX
  Threshold,  \* FEEDBACK_DAILY_SHUTDOWN_THRESHOLD
  MaxDay,     \* days (bound)
  MaxIssues   \* issues (bound)

\* What the constants must be; the instance for TLC assumes it.
FeedbackAssumption ==
  /\ NoClient \notin Clients /\ Slots \subseteq Nat \ {0} /\ IsFiniteSet(Slots)
  /\ RateMax \in Nat /\ Threshold \in Nat \ {0} /\ MaxDay \in Nat \ {0} /\ MaxIssues \in Nat

VARIABLES
  form,       \* client -> [open, text, shot, state] of its launcher
  requests,   \* slot -> [client, step, day, shot, mine]; mine: the form still waits for it
  bucket,     \* a storage bucket is configured
  today,
  rate,       \* client -> requests counted in the current window
  shutdown,   \* inMemoryShutdownDate, 0 for none
  guards,     \* days whose guard object is in the bucket
  accepted,   \* acceptedToday
  token,      \* cachedInstallationToken is usable
  pendingToken, \* pendingInstallationToken: the slot that fetches it, or 0
  issues,     \* day -> issues created
  copies,     \* client -> issues created for the text in its form
  lost,       \* day -> issues created whose answer did not reach the route
  doubt       \* clients that saw a failure, or left the form, since they wrote their text

serverVars == <<requests, today, rate, shutdown, guards, accepted, token, pendingToken, issues,
                lost>>
feedbackVars == <<form, bucket, serverVars, copies, doubt>>

Free == [client |-> NoClient, step |-> "free", day |-> 0, shot |-> FALSE, mine |-> FALSE]

Init ==
  /\ form = [c \in Clients |-> [open |-> FALSE, text |-> FALSE, shot |-> FALSE, state |-> "idle"]]
  /\ requests = [s \in Slots |-> Free]
  /\ bucket \in BOOLEAN
  /\ today = 1 /\ rate = [c \in Clients |-> 0]
  /\ shutdown = 0 /\ guards = {} /\ accepted = [day |-> 1, count |-> 0]
  /\ token = FALSE /\ pendingToken = 0
  /\ issues = [d \in 1..MaxDay |-> 0] /\ lost = [d \in 1..MaxDay |-> 0]
  /\ copies = [c \in Clients |-> 0] /\ doubt = {}

-----------------------------------------------------------------------------
(* The form. *)

Toggle(c) ==
  /\ form' = [form EXCEPT ![c].open = ~@,
                          ![c].state = IF form[c].open THEN "idle" ELSE @]
  /\ doubt' = IF form[c].open THEN doubt \cup {c} ELSE doubt
  /\ UNCHANGED <<bucket, serverVars, copies>>

\* Another text (of eight characters or more), also while one is being sent.
Write(c) ==
  /\ form[c].open
  /\ form' = [form EXCEPT ![c].text = TRUE]
  /\ copies' = [copies EXCEPT ![c] = 0]
  /\ doubt' = doubt \ {c}
  /\ requests' = [s \in Slots |->
                    IF requests[s].client = c THEN [requests[s] EXCEPT !.mine = FALSE]
                    ELSE requests[s]]
  /\ UNCHANGED <<bucket, today, rate, shutdown, guards, accepted, token, pendingToken, issues,
                 lost>>

\* captureScreenshot, or its removal; a failed capture shows an error.
Capture(c) ==
  /\ form[c].open /\ form[c].state # "submitting"
  /\ \/ form' = [form EXCEPT ![c].shot = ~@, ![c].state = IF form[c].shot THEN @ ELSE "idle"]
     \/ form' = [form EXCEPT ![c].state = "error"]
  /\ UNCHANGED <<bucket, serverVars, copies, doubt>>

\* Plausible mistake: the button works while a request is under way.
CanSubmitAgain(f) == f.text

CanSubmit(f) == f.state # "submitting" /\ f.text

\* The answer reaches the form, open or not; a success empties it, whatever it holds now.
Answer(s, ok) ==
  LET c == requests[s].client
  IN /\ form' = [form EXCEPT ![c].state = IF ok THEN "success" ELSE "error",
                             ![c].text = @ /\ ~ok, ![c].shot = @ /\ ~ok]
     /\ doubt' = IF ok THEN doubt ELSE doubt \cup {c}
     /\ requests' = [requests EXCEPT ![s] = Free]

-----------------------------------------------------------------------------
(* POST, up to its first await. *)

\* isInMemoryShutdownActive drops the flag of another day.
Submit(c) ==
  /\ form[c].open /\ CanSubmit(form[c])
  /\ LET refused == shutdown = today \/ rate[c] >= RateMax
     IN /\ shutdown' = (IF shutdown = today THEN today ELSE 0)
        /\ IF refused
             THEN /\ form' = [form EXCEPT ![c].state = "error"]
                  /\ doubt' = doubt \cup {c}
                  /\ UNCHANGED <<requests, rate>>
             ELSE /\ \E s \in Slots :
                       /\ requests[s] = Free /\ \A t \in Slots : requests[t] = Free => s <= t
                       /\ requests' = [requests EXCEPT ![s] =
                            [client |-> c, step |-> "guard", day |-> today,
                             shot |-> form[c].shot, mine |-> TRUE]]
                  /\ rate' = [rate EXCEPT ![c] = @ + 1]
                  /\ form' = [form EXCEPT ![c].state = "submitting"]
                  /\ UNCHANGED doubt
  /\ UNCHANGED <<bucket, today, guards, accepted, token, pendingToken, issues, lost, copies>>

At(s, step) == requests[s].step = step
GoTo(s, step) == requests' = [requests EXCEPT ![s].step = step]

\* isFeedbackShutdownGuardActive: an unreadable guard does not stop anything.
GuardRead(s) ==
  /\ At(s, "guard")
  /\ \E readable \in BOOLEAN :
       IF bucket /\ readable /\ requests[s].day \in guards
         THEN shutdown' = requests[s].day /\ Answer(s, FALSE)
         ELSE GoTo(s, "verify") /\ UNCHANGED <<shutdown, form, doubt>>
  /\ UNCHANGED <<bucket, today, rate, guards, accepted, token, pendingToken, issues, lost, copies>>

\* The payload, reCAPTCHA and the upload of the screenshot, which needs the bucket; with
\* the hidden field filled in, the answer is a success without an issue.
Verified(s) ==
  /\ At(s, "verify")
  /\ \/ \E ok \in BOOLEAN : Answer(s, ok)
     \/ /\ requests[s].shot => bucket
        /\ GoTo(s, "token") /\ UNCHANGED <<form, doubt>>
  /\ UNCHANGED <<bucket, today, rate, shutdown, guards, accepted, token, pendingToken, issues,
                 lost, copies>>

-----------------------------------------------------------------------------
(* getGitHubInstallationToken: one request at a time, shared by all. *)

AskToken(s) ==
  /\ At(s, "token")
  /\ IF token
       THEN GoTo(s, "issue") /\ UNCHANGED pendingToken
       ELSE /\ GoTo(s, IF pendingToken = 0 THEN "fetch" ELSE "wait")
            /\ pendingToken' = IF pendingToken = 0 THEN s ELSE pendingToken
  /\ UNCHANGED <<form, bucket, today, rate, shutdown, guards, accepted, token, issues, lost,
                 copies, doubt>>

\* Plausible mistake: a promise that is over stays the pending one.
ResetPendingNever(s) == UNCHANGED pendingToken

\* Everyone who waits for the token gets it, or fails with it.
ResetPending(s) == pendingToken' = IF pendingToken = s THEN 0 ELSE pendingToken

TokenArrives(s) ==
  /\ At(s, "fetch")
  /\ token' = TRUE
  /\ requests' = [t \in Slots |-> IF t = s \/ At(t, "wait") THEN [requests[t] EXCEPT !.step = "issue"]
                                  ELSE requests[t]]
  /\ ResetPending(s)
  /\ UNCHANGED <<form, bucket, today, rate, shutdown, guards, accepted, issues, lost, copies,
                 doubt>>

TokenFails(s) ==
  /\ At(s, "fetch")
  /\ LET failed == {t \in Slots : t = s \/ At(t, "wait")}
         told == {requests[t].client : t \in failed}
     IN /\ requests' = [t \in Slots |-> IF t \in failed THEN Free ELSE requests[t]]
        /\ form' = [c \in Clients |-> IF c \in told THEN [form[c] EXCEPT !.state = "error"]
                                      ELSE form[c]]
        /\ doubt' = doubt \cup told
  /\ ResetPending(s)
  /\ UNCHANGED <<bucket, today, rate, shutdown, guards, accepted, token, issues, lost, copies>>

-----------------------------------------------------------------------------
(* The issue, and the count of the day. *)

\* Plausible mistake: the shutdown begins one issue late.
ReachedAfter(count) == count > Threshold

\* recordAcceptedFeedback
Count == IF accepted.day = today THEN accepted.count + 1 ELSE 1
Reached(count) == count >= Threshold

\* GitHub creates the issue; its answer is still on the way.
IssueCreated(s) ==
  /\ At(s, "issue") /\ issues[today] < MaxIssues
  /\ issues' = [issues EXCEPT ![today] = @ + 1]
  /\ copies' = [copies EXCEPT ![requests[s].client] =
                  IF requests[s].mine /\ @ < 2 THEN @ + 1 ELSE @]
  /\ requests' = [requests EXCEPT ![s].step = "created", ![s].day = today]
  /\ UNCHANGED <<form, bucket, today, rate, shutdown, guards, accepted, token, pendingToken,
                 lost, doubt>>

\* GitHub refuses, or the request does not reach it.
IssueFails(s) ==
  /\ At(s, "issue")
  /\ Answer(s, FALSE)
  /\ UNCHANGED <<bucket, today, rate, shutdown, guards, accepted, token, pendingToken, issues,
                 lost, copies>>

\* The answer arrives and the issue is counted, on the day it is then.
IssueCounted(s) ==
  /\ At(s, "created")
  /\ accepted' = [day |-> today, count |-> Count]
  /\ IF Reached(Count)
       THEN /\ shutdown' = today
            /\ requests' = [requests EXCEPT ![s].step = "record", ![s].day = today]
            /\ UNCHANGED <<form, doubt>>
       ELSE Answer(s, TRUE) /\ UNCHANGED shutdown
  /\ UNCHANGED <<bucket, today, rate, guards, token, pendingToken, issues, lost, copies>>

\* The answer is lost, cannot be read or has no html_url: the user is told of a failure and
\* nothing is counted, although the issue exists.
AnswerLost(s) ==
  /\ At(s, "created")
  /\ lost' = [lost EXCEPT ![requests[s].day] = @ + 1]
  /\ Answer(s, FALSE)
  /\ UNCHANGED <<bucket, today, rate, shutdown, guards, accepted, token, pendingToken, issues,
                 copies>>

\* writeFeedbackShutdownGuard: without a bucket nothing is written; a refused write is not
\* noticed; an error (no access token, or the answer of the write is lost) is one to the
\* user, although the issue exists and the guard may.
GuardWritten(s) ==
  /\ At(s, "record")
  /\ guards' \in (IF bucket THEN {guards, guards \cup {requests[s].day}} ELSE {guards})
  /\ \/ Answer(s, TRUE)
     \/ bucket /\ Answer(s, FALSE)
  /\ UNCHANGED <<bucket, today, rate, shutdown, accepted, token, pendingToken, issues, lost, copies>>

-----------------------------------------------------------------------------
(* Time. *)

NextDay ==
  /\ today < MaxDay
  /\ today' = today + 1
  /\ UNCHANGED <<form, bucket, requests, rate, shutdown, guards, accepted, token, pendingToken,
                 issues, lost, copies, doubt>>

WindowEnds(c) ==
  /\ rate[c] > 0
  /\ rate' = [rate EXCEPT ![c] = 0]
  /\ UNCHANGED <<form, bucket, requests, today, shutdown, guards, accepted, token, pendingToken,
                 issues, lost, copies, doubt>>

TokenAges ==
  /\ token
  /\ token' = FALSE
  /\ UNCHANGED <<form, bucket, requests, today, rate, shutdown, guards, accepted, pendingToken,
                 issues, lost, copies, doubt>>

Next ==
  \/ \E c \in Clients :
       \/ Toggle(c)
       \/ Write(c)
       \/ Capture(c)
       \/ Submit(c)
       \/ WindowEnds(c)
  \/ \E s \in Slots :
       \/ GuardRead(s)
       \/ Verified(s)
       \/ AskToken(s)
       \/ TokenArrives(s)
       \/ TokenFails(s)
       \/ IssueCreated(s)
       \/ IssueFails(s)
       \/ IssueCounted(s)
       \/ AnswerLost(s)
       \/ GuardWritten(s)
  \/ NextDay
  \/ TokenAges

Spec == Init /\ [][Next]_feedbackVars

-----------------------------------------------------------------------------
\* What the daily shutdown of one process limits, although the count only moves after an
\* issue exists: without a bucket, the issues of a day whose answer reached the route or is
\* still on its way are at most the threshold and the requests that were under way when it
\* was reached.  An issue whose answer was lost is never counted (github.ts, route.ts), so
\* nothing limits those.  (With a bucket a request that began on the day before can put its
\* own day into the flag; then the guard object decides, and it may not have been written.)
ThresholdHolds ==
  ~bucket => \A d \in 1..MaxDay : issues[d] - lost[d] <= Threshold + Cardinality(Slots) - 1

\* A request for the token that others wait for is always under way: after a failure nobody
\* waits for a promise that is over (github.ts, pendingInstallationToken).
PendingTokenIsAlive ==
  /\ pendingToken # 0 => At(pendingToken, "fetch")
  /\ \A s \in Slots : At(s, "wait") => pendingToken # 0

\* One text becomes two issues only when the user was told of a failure or left the form in
\* between: the button alone never sends it twice.
TwiceOnlyInDoubt == \A c \in Clients : copies[c] > 1 => c \in doubt

\* The issues the route heard of stay within the daily limit, tokens are fetched by somebody,
\* and a text becomes one issue unless the user was told of a failure.
IssuesAreSound == ThresholdHolds /\ PendingTokenIsAlive /\ TwiceOnlyInDoubt
=============================================================================
