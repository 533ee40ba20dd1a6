----------------------------- MODULE JobGateway -----------------------------
(***************************************************************************)
(* The server side of the user interface: the routes under                 *)
(* /api/optimization-jobs and the client of the optimizer API they call    *)
(* (deliveryOptimizerClient.ts, retry.ts).  A request is one call of a     *)
(* route.  Requests share one thing, the cached identity token.  Time is   *)
(* counted in units of the timeout of one attempt.                         *)
(***************************************************************************)
EXTENDS Integers, FiniteSets

CONSTANTS
  Requests,    \* the calls of the routes, numbered as they arrive
  Retries,     \* retries after the first attempt (2 in the code)
  TokenLife,   \* validity of an identity token
  Margin,      \* a cached token is not used when less than this is left
  BodyTime,    \* the body of an error arrives within this time, which no timer enforces
  MaxTime      \* bound on the clock

\* What the constants must be; the instance for TLC assumes it.
GatewayAssumption ==
  /\ Requests \subseteq Nat
  /\ Retries \in Nat
  /\ TokenLife \in Nat \ {0}
  /\ Margin \in Nat
  /\ BodyTime \in Nat
  /\ MaxTime \in Nat

VARIABLES
  now,           \* the clock
  cachedToken,   \* module variable cachedToken: its recorded and its real expiry
  request        \* the state of each request

gatewayVars == <<now, cachedToken, request>>

NoToken == [expiresAt |-> 0, real |-> 0]

\* What a route is asked for: to create a job, or for its status or result.
Kinds == {"create", "read"}

\* Answers of the optimizer API: those that are retried (429 and 5xx), of which the
\* route passes one on and hides one, and those that are final.
Transient == {429, 503}
Refusals == {400, 404}
NoStatus == 0   \* a timeout or a network failure: the error carries no status

Idle == [pc |-> "idle", kind |-> "read", validUntil |-> 0, since |-> 0,
         left |-> Retries, sent |-> 0, created |-> 0, status |-> NoStatus]

Init ==
  /\ now = 0
  /\ cachedToken = NoToken
  /\ request = [r \in Requests |-> Idle]

Reply(r, status) ==
  request' = [request EXCEPT ![r] =
               [request[r] EXCEPT !.pc = "replied", !.status = status,
                                  !.since = 0, !.validUntil = 0]]

IsNext(r) == \A q \in Requests : request[q].pc = "idle" <=> q >= r

\* A route is called; a body that fails validation is answered at once.
Receive(r, kind) ==
  /\ IsNext(r)
  /\ request' = [request EXCEPT ![r] =
                  [request[r] EXCEPT !.pc = "authenticate", !.kind = kind]]
  /\ UNCHANGED <<now, cachedToken>>

ReceiveInvalid(r) ==
  /\ IsNext(r)
  /\ request' = [request EXCEPT ![r] =
                  [request[r] EXCEPT !.pc = "replied", !.kind = "create", !.status = 400]]
  /\ UNCHANGED <<now, cachedToken>>

\* Plausible mistake: a token is used until the moment it expires.
ReusableUntilExpiry(token) == token.expiresAt > now

Reusable(token) == token.expiresAt - now > Margin

\* The token is read once per request and serves all its attempts.
UseCachedToken(r) ==
  /\ request[r].pc = "authenticate"
  /\ Reusable(cachedToken)
  /\ request' = [request EXCEPT ![r] =
                  [request[r] EXCEPT !.pc = "send", !.validUntil = cachedToken.real]]
  /\ UNCHANGED <<now, cachedToken>>

AskForToken(r) ==
  /\ request[r].pc = "authenticate"
  /\ ~Reusable(cachedToken)
  /\ request' = [request EXCEPT ![r] =
                  [request[r] EXCEPT !.pc = "token", !.since = now]]
  /\ UNCHANGED <<now, cachedToken>>

\* The recorded expiry counts from before the request to the metadata server.
ReceiveToken(r) ==
  /\ request[r].pc = "token"
  /\ LET token == [expiresAt |-> request[r].since + TokenLife, real |-> now + TokenLife]
     IN  /\ cachedToken' = token
         /\ request' = [request EXCEPT ![r] =
                         [request[r] EXCEPT !.pc = "send", !.since = 0, !.validUntil = token.real]]
  /\ UNCHANGED now

\* The error of getIdToken is not one of the client's: the route answers 500.
TokenFails(r) ==
  /\ request[r].pc = "token"
  /\ Reply(r, 500)
  /\ UNCHANGED <<now, cachedToken>>

\* One attempt: fetchWithTimeout.
Send(r) ==
  /\ request[r].pc = "send"
  /\ request' = [request EXCEPT ![r] =
                  [request[r] EXCEPT !.pc = "sent", !.since = now, !.sent = @ + 1]]
  /\ UNCHANGED <<now, cachedToken>>

\* What the optimizer may have done with an attempt whose answer is not a success.
MayCreate(r) == IF request[r].kind = "create" THEN {0, 1} ELSE {0}

\* The answer of a success is passed on, unless it is not JSON after all.
Succeeds(r) ==
  /\ request[r].pc = "sent"
  /\ \E s \in {200, 502} :
       request' = [request EXCEPT ![r] =
                    [request[r] EXCEPT !.pc = "replied", !.status = s,
                                       !.since = 0, !.validUntil = 0,
                                       !.created = IF request[r].kind = "create" THEN @ + 1 ELSE @]]
  /\ UNCHANGED <<now, cachedToken>>

\* The status a route answers with: buildDeliveryOptimizerErrorResponse.
RouteStatus(status) == IF status \in Refusals \cup {503} THEN status ELSE 502

Refused(r) ==
  /\ request[r].pc = "sent"
  /\ \E s \in Refusals : Reply(r, RouteStatus(s))
  /\ UNCHANGED <<now, cachedToken>>

\* Plausible mistake: the attempts are not counted.
MayRetryAlways(r, status) == status \in Transient

MayRetry(r, status) == status \in Transient /\ request[r].left > 0

\* The status line arrived in time and stops the timer; the body may be late.
TransientError(r) ==
  /\ request[r].pc = "sent"
  /\ \E s \in Transient, c \in MayCreate(r) :
       request' = [request EXCEPT ![r] =
                    [request[r] EXCEPT !.pc = "body", !.since = now, !.status = s,
                                       !.created = @ + c]]
  /\ UNCHANGED <<now, cachedToken>>

\* The body was read: the attempt is repeated, with the same headers, or the error is final.
ReadErrorBody(r) ==
  /\ request[r].pc = "body"
  /\ IF MayRetry(r, request[r].status)
       THEN request' = [request EXCEPT ![r] =
                         [request[r] EXCEPT !.pc = "send", !.left = @ - 1,
                                            !.since = 0, !.status = NoStatus]]
       ELSE Reply(r, RouteStatus(request[r].status))
  /\ UNCHANGED <<now, cachedToken>>

\* A network failure, or the abort after the timeout: not retried.
AttemptFails(r) ==
  /\ request[r].pc = "sent"
  /\ \E c \in MayCreate(r) :
       request' = [request EXCEPT ![r] =
                    [request[r] EXCEPT !.pc = "replied", !.status = RouteStatus(NoStatus),
                                       !.since = 0, !.validUntil = 0,
                                       !.created = @ + c]]
  /\ UNCHANGED <<now, cachedToken>>

\* Time passes; an attempt is aborted after one unit, and the pauses between
\* attempts (200 and 400 ms) are within one.
Tick ==
  /\ now < MaxTime
  /\ \A r \in Requests : /\ request[r].pc # "send"
                         /\ request[r].pc = "sent" => now - request[r].since < 1
                         /\ request[r].pc = "body" => now - request[r].since < BodyTime
  /\ now' = now + 1
  /\ UNCHANGED <<cachedToken, request>>

Attempt(r) ==
  \/ Send(r)
  \/ Succeeds(r)
  \/ Refused(r)
  \/ TransientError(r)
  \/ ReadErrorBody(r)
  \/ AttemptFails(r)

Next ==
  \/ \E r \in Requests : \/ \E kind \in Kinds : Receive(r, kind)
                         \/ ReceiveInvalid(r)
                         \/ UseCachedToken(r)
                         \/ AskForToken(r)
                         \/ ReceiveToken(r)
                         \/ TokenFails(r)
                         \/ Attempt(r)
  \/ Tick

Spec == Init /\ [][Next]_gatewayVars

-----------------------------------------------------------------------------
\* No attempt of a request carries an expired token, although the token is read
\* once and the attempts may take minutes (getIdToken's margin, requestJsonResponse).
TokenValidWhenSent == \A r \in Requests : request[r].pc = "send" => request[r].validUntil > now

\* The jobs one call can leave behind: every retried answer may have created one,
\* and nothing tells the optimizer that the next attempt is the same job.
DuplicatesBounded ==
  \A r \in Requests :
    /\ request[r].created <= Retries + 1
    /\ request[r].sent <= Retries + 1
    /\ request[r].kind = "read" => request[r].created = 0

\* What one call of a route does stays within its token and its attempts.
AttemptsAreSound == TokenValidWhenSent /\ DuplicatesBounded
=============================================================================
