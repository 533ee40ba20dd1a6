--------------------------- MODULE FieldPagesProofs ---------------------------
(***************************************************************************)
(* What TLAPS proves about the results page and its map, the driver's      *)
(* pages and application, and the routes of the Next.js server.  Each of   *)
(* them is proved on its own, because one moves at a time.                 *)
(***************************************************************************)
EXTENDS FieldPages, ListFacts

\* The pages are side by side: each of them moves by its own next-state relation or not
\* at all, so what holds of a part holds of them all.
LEMMA PartsKeepToTheirs ==
  Spec => /\ Results!Spec /\ Map!Spec /\ Driver!Spec
          /\ Mobile!Spec /\ Gateway!Spec /\ Form!Spec
<1>1. Init => /\ Results!Init /\ Map!Init /\ Driver!Init
              /\ Mobile!Init /\ Gateway!Init /\ Form!Init
  BY DEF Init
<1>2. [Next]_vars => [Results!Next]_Results!resultsVars
  BY DEF Next, vars, resultsVars, Results!resultsVars, Results!editVars, Results!sendVars
<1>3. [Next]_vars => [Map!Next]_Map!mapVars
  BY DEF Next, vars, mapVars, Map!mapVars
<1>4. [Next]_vars => [Driver!Next]_Driver!driverVars
  BY DEF Next, vars, driverVars, Driver!driverVars
<1>5. [Next]_vars => [Mobile!Next]_Mobile!mobileVars
  BY DEF Next, vars, mobileVars, Mobile!mobileVars
<1>6. [Next]_vars => [Gateway!Next]_Gateway!gatewayVars
  BY DEF Next, vars, callsVars, Gateway!gatewayVars
<1>7. [Next]_vars => [Form!Next]_Form!feedbackVars
  BY DEF Next, vars, feedbackVars, Form!feedbackVars, Form!serverVars
<1> QED
  BY <1>1, <1>2, <1>3, <1>4, <1>5, <1>6, <1>7, PTL
  DEF Spec, Results!Spec, Map!Spec, Driver!Spec, Mobile!Spec, Gateway!Spec, Form!Spec

-----------------------------------------------------------------------------
(* The calls of the routes under /api/optimization-jobs, for any number of *)
(* retries and any life of a token.                                        *)

\* The longest time from one attempt to the next: its answer and the body of its error.
AttemptTime == 1 + BodyTime

\* What the five minutes of the margin are for: the time all retries can take.  A token
\* that has just arrived lasts as long, too.
MarginCoversRetries ==
  /\ Retries * AttemptTime <= Margin
  /\ Retries * AttemptTime < TokenLife

Statuses == {Gateway!NoStatus, 200, 400, 404, 429, 500, 502, 503}

Tokens == [expiresAt : Nat, real : Nat]

CallSteps == {"idle", "authenticate", "token", "send", "sent", "body", "replied"}

CallRecords ==
  [pc : CallSteps,
   kind : Gateway!Kinds, validUntil : Nat, since : Nat, left : Nat, sent : Nat,
   created : Nat, status : Statuses]

\* The variables have values of their types.
CallsTypeOK ==
  /\ gNow \in Nat
  /\ gCachedToken \in Tokens
  /\ gRequest \in [Requests -> CallRecords]

\* The cached expiry is never later than the real one.
ExpiryIsHonest == gCachedToken.expiresAt <= gCachedToken.real

\* The token of a request outlasts the retries it has left.
TokenOutlasts(r) ==
  LET q == gRequest[r]
  IN  /\ q.pc = "token" => q.since <= gNow
      /\ q.pc = "send" => q.validUntil > gNow + q.left * AttemptTime
      /\ q.pc = "sent" => /\ q.since <= gNow /\ gNow <= q.since + 1
                          /\ q.validUntil > q.since + q.left * AttemptTime
      /\ q.pc = "body" => /\ q.since <= gNow /\ gNow <= q.since + BodyTime
                          /\ q.validUntil + 1 > q.since + q.left * AttemptTime

\* Every attempt takes one of the retries, and creates at most one job.
AttemptsCounted(r) ==
  LET q == gRequest[r]
  IN  /\ q.pc \in {"idle", "authenticate", "token"} =>
           q.sent = 0 /\ q.created = 0 /\ q.left = Retries
      /\ q.pc = "send" => q.sent + q.left = Retries /\ q.created <= q.sent
      /\ q.pc = "sent" => q.sent + q.left = Retries + 1 /\ q.created + 1 <= q.sent
      /\ q.pc \in {"body", "replied"} => q.sent <= Retries + 1 /\ q.created <= q.sent
      /\ q.pc = "body" => q.sent + q.left = Retries + 1
      /\ q.kind = "read" => q.created = 0

CallsIInv ==
  /\ CallsTypeOK
  /\ ExpiryIsHonest
  /\ \A r \in Requests : TokenOutlasts(r) /\ AttemptsCounted(r)

-----------------------------------------------------------------------------

\* One retry less takes one attempt's time less.
LEMMA OneRetryLess ==
  ASSUME NEW n \in Nat \ {0}, NEW t \in Nat
  PROVE  (n - 1) * t = n * t - t /\ n * t \in Nat /\ (n - 1) * t \in Nat
OBVIOUS

\* What is left to show when one request changes and time stands still.
LEMMA OneCallChanges ==
  ASSUME CallsIInv, NEW r \in Requests, NEW q \in CallRecords,
         gRequest' = [gRequest EXCEPT ![r] = q], gNow' = gNow,
         gCachedToken' \in Tokens, ExpiryIsHonest', TokenOutlasts(r)', AttemptsCounted(r)'
  PROVE  CallsIInv'
<1>1. gRequest' \in [Requests -> CallRecords] /\ gNow' \in Nat
  BY DEF CallsIInv, CallsTypeOK
<1>2. ASSUME NEW p \in Requests, p # r
      PROVE  TokenOutlasts(p)' /\ AttemptsCounted(p)'
  <2>1. gRequest'[p] = gRequest[p]
    BY <1>2 DEF CallsIInv, CallsTypeOK
  <2>2. TokenOutlasts(p) /\ AttemptsCounted(p)
    BY DEF CallsIInv
  <2> QED BY <2>1, <2>2 DEF TokenOutlasts, AttemptsCounted
<1> QED BY <1>1, <1>2 DEF CallsIInv, CallsTypeOK

\* The invariant holds when the routes have not been called yet.
LEMMA FirstCallsSound ==
  ASSUME Gateway!GatewayAssumption, Gateway!Init
  PROVE  CallsIInv
<1>1. Gateway!Idle \in CallRecords
  BY DEF Gateway!GatewayAssumption, Gateway!Idle, CallRecords, Gateway!Kinds, Statuses,
         Gateway!NoStatus, CallSteps
<1>2. CallsTypeOK
  BY <1>1 DEF Gateway!Init, CallsTypeOK, Tokens, Gateway!NoToken
<1>3. ASSUME NEW r \in Requests
      PROVE  TokenOutlasts(r) /\ AttemptsCounted(r)
  <2>1. gRequest[r] = Gateway!Idle
    BY DEF Gateway!Init
  <2> QED BY <2>1 DEF TokenOutlasts, AttemptsCounted, Gateway!Idle
<1> QED BY <1>2, <1>3 DEF CallsIInv, ExpiryIsHonest, Gateway!Init, Gateway!NoToken

\* Every step of a route, and of the clock, keeps the invariant.
LEMMA CallsStepKeeps ==
  ASSUME Gateway!GatewayAssumption, MarginCoversRetries, CallsIInv,
         [Gateway!Next]_Gateway!gatewayVars
  PROVE  CallsIInv'
<1>n. /\ gNow \in Nat /\ gCachedToken \in Tokens /\ ExpiryIsHonest
      /\ gRequest \in [Requests -> CallRecords]
  BY DEF CallsIInv, CallsTypeOK
<1>i. Requests \subseteq Nat
  BY DEF Gateway!GatewayAssumption
<1>m. /\ Retries * AttemptTime <= Margin /\ Retries * AttemptTime < TokenLife
      /\ Retries \in Nat /\ Margin \in Nat /\ TokenLife \in Nat /\ BodyTime \in Nat
      /\ Retries * AttemptTime \in Nat /\ AttemptTime = 1 + BodyTime
  <2>1. Retries \in Nat /\ AttemptTime \in Nat
    BY DEF Gateway!GatewayAssumption, AttemptTime
  <2>2. Retries * AttemptTime \in Nat
    BY <2>1
  <2> QED BY <2>2 DEF Gateway!GatewayAssumption, MarginCoversRetries, AttemptTime
<1>0. ASSUME NEW r \in Requests
      PROVE  gRequest[r] \in CallRecords /\ TokenOutlasts(r) /\ AttemptsCounted(r)
  BY <1>n DEF CallsIInv
<1>1. ASSUME NEW r \in Requests, NEW kind \in Gateway!Kinds, Gateway!Receive(r, kind)
      PROVE  CallsIInv'
  <2> DEFINE p == gRequest[r]
  <2>1. PICK q : q = [p EXCEPT !.pc = "authenticate", !.kind = kind]
    OBVIOUS
  <2>2. p \in CallRecords /\ TokenOutlasts(r) /\ AttemptsCounted(r) /\ p.pc = "idle"
    BY <1>1, <1>0, <1>i DEF Gateway!Receive, Gateway!IsNext
  <2>3. /\ q.pc = "authenticate" /\ q.kind = kind /\ q.validUntil = p.validUntil
        /\ q.since = p.since /\ q.left = p.left /\ q.sent = p.sent
        /\ q.created = p.created /\ q.status = p.status
    BY <2>1, <2>2 DEF CallRecords
  <2>4. q = [pc |-> q.pc, kind |-> q.kind, validUntil |-> q.validUntil, since |-> q.since,
             left |-> q.left, sent |-> q.sent, created |-> q.created, status |-> q.status]
    BY <2>1, <2>2 DEF CallRecords
  <2>5. /\ q.pc \in CallSteps /\ q.kind \in Gateway!Kinds /\ q.validUntil \in Nat
        /\ q.since \in Nat
        /\ q.left \in Nat /\ q.sent \in Nat /\ q.created \in Nat /\ q.status \in Statuses
    BY <2>2, <2>3, <1>n DEF CallRecords, CallSteps, Statuses, Gateway!Kinds, Tokens
  <2>6. q \in CallRecords
    BY <2>4, <2>5, Zenon DEF CallRecords
  <2>7. gRequest' = [gRequest EXCEPT ![r] = q] /\ gNow' = gNow
    BY <2>1, <1>1 DEF Gateway!Receive
  <2>8. gRequest'[r] = q
    BY <2>7, <1>n
  <2>9. gCachedToken' \in Tokens /\ ExpiryIsHonest'
    BY <1>1, <1>n DEF Gateway!Receive, ExpiryIsHonest
  <2>10. TokenOutlasts(r)'
    BY <2>2, <2>3, <2>7, <2>8, <1>n DEF TokenOutlasts, CallRecords
  <2>11. AttemptsCounted(r)'
    BY <2>2, <2>3, <2>8 DEF AttemptsCounted, CallRecords
  <2> QED BY <2>6, <2>7, <2>9, <2>10, <2>11, OneCallChanges
<1>2. ASSUME NEW r \in Requests, Gateway!ReceiveInvalid(r)
      PROVE  CallsIInv'
  <2> DEFINE p == gRequest[r]
  <2>1. PICK q : q = [p EXCEPT !.pc = "replied", !.kind = "create", !.status = 400]
    OBVIOUS
  <2>2. p \in CallRecords /\ TokenOutlasts(r) /\ AttemptsCounted(r) /\ p.pc = "idle"
    BY <1>2, <1>0, <1>i DEF Gateway!ReceiveInvalid, Gateway!IsNext
  <2>3. /\ q.pc = "replied" /\ q.kind = "create" /\ q.validUntil = p.validUntil
        /\ q.since = p.since /\ q.left = p.left /\ q.sent = p.sent
        /\ q.created = p.created /\ q.status = 400
    BY <2>1, <2>2 DEF CallRecords
  <2>4. q = [pc |-> q.pc, kind |-> q.kind, validUntil |-> q.validUntil, since |-> q.since,
             left |-> q.left, sent |-> q.sent, created |-> q.created, status |-> q.status]
    BY <2>1, <2>2 DEF CallRecords
  <2>5. /\ q.pc \in CallSteps /\ q.kind \in Gateway!Kinds /\ q.validUntil \in Nat
        /\ q.since \in Nat
        /\ q.left \in Nat /\ q.sent \in Nat /\ q.created \in Nat /\ q.status \in Statuses
    BY <2>2, <2>3, <1>n DEF CallRecords, CallSteps, Statuses, Gateway!Kinds, Tokens
  <2>6. q \in CallRecords
    BY <2>4, <2>5, Zenon DEF CallRecords
  <2>7. gRequest' = [gRequest EXCEPT ![r] = q] /\ gNow' = gNow
    BY <2>1, <1>2 DEF Gateway!ReceiveInvalid
  <2>8. gRequest'[r] = q
    BY <2>7, <1>n
  <2>9. gCachedToken' \in Tokens /\ ExpiryIsHonest'
    BY <1>2, <1>n DEF Gateway!ReceiveInvalid, ExpiryIsHonest
  <2>10. TokenOutlasts(r)'
    BY <2>2, <2>3, <2>7, <2>8, <1>n DEF TokenOutlasts, CallRecords
  <2>11. AttemptsCounted(r)'
    BY <2>2, <2>3, <2>8 DEF AttemptsCounted, CallRecords
  <2> QED BY <2>6, <2>7, <2>9, <2>10, <2>11, OneCallChanges
<1>3. ASSUME NEW r \in Requests, Gateway!UseCachedToken(r)
      PROVE  CallsIInv'
  <2> DEFINE p == gRequest[r]
  <2>1. PICK q : q = [p EXCEPT !.pc = "send", !.validUntil = gCachedToken.real]
    OBVIOUS
  <2>2. p \in CallRecords /\ TokenOutlasts(r) /\ AttemptsCounted(r) /\ p.pc = "authenticate"
    BY <1>3, <1>0 DEF Gateway!UseCachedToken
  <2>3. /\ q.pc = "send" /\ q.kind = p.kind /\ q.validUntil = gCachedToken.real
        /\ q.since = p.since /\ q.left = p.left /\ q.sent = p.sent
        /\ q.created = p.created /\ q.status = p.status
    BY <2>1, <2>2 DEF CallRecords
  <2>4. q = [pc |-> q.pc, kind |-> q.kind, validUntil |-> q.validUntil, since |-> q.since,
             left |-> q.left, sent |-> q.sent, created |-> q.created, status |-> q.status]
    BY <2>1, <2>2 DEF CallRecords
  <2>5. /\ q.pc \in CallSteps /\ q.kind \in Gateway!Kinds /\ q.validUntil \in Nat
        /\ q.since \in Nat
        /\ q.left \in Nat /\ q.sent \in Nat /\ q.created \in Nat /\ q.status \in Statuses
    BY <2>2, <2>3, <1>n DEF CallRecords, CallSteps, Statuses, Gateway!Kinds, Tokens
  <2>6. q \in CallRecords
    BY <2>4, <2>5, Zenon DEF CallRecords
  <2>7. gRequest' = [gRequest EXCEPT ![r] = q] /\ gNow' = gNow
    BY <2>1, <1>3 DEF Gateway!UseCachedToken
  <2>8. gRequest'[r] = q
    BY <2>7, <1>n
  <2>9. gCachedToken' \in Tokens /\ ExpiryIsHonest'
    BY <1>3, <1>n DEF Gateway!UseCachedToken, ExpiryIsHonest
  <2>10. TokenOutlasts(r)'
    BY <1>3, <1>m, <2>2, <2>3, <2>7, <2>8, <1>n
      DEF Gateway!UseCachedToken, Gateway!Reusable, Tokens, ExpiryIsHonest,
          AttemptsCounted, TokenOutlasts, CallRecords
  <2>11. AttemptsCounted(r)'
    BY <2>2, <2>3, <2>8 DEF AttemptsCounted, CallRecords
  <2> QED BY <2>6, <2>7, <2>9, <2>10, <2>11, OneCallChanges
<1>4. ASSUME NEW r \in Requests, Gateway!AskForToken(r)
      PROVE  CallsIInv'
  <2> DEFINE p == gRequest[r]
  <2>1. PICK q : q = [p EXCEPT !.pc = "token", !.since = gNow]
    OBVIOUS
  <2>2. p \in CallRecords /\ TokenOutlasts(r) /\ AttemptsCounted(r) /\ p.pc = "authenticate"
    BY <1>4, <1>0 DEF Gateway!AskForToken
  <2>3. /\ q.pc = "token" /\ q.kind = p.kind /\ q.validUntil = p.validUntil
        /\ q.since = gNow /\ q.left = p.left /\ q.sent = p.sent
        /\ q.created = p.created /\ q.status = p.status
    BY <2>1, <2>2 DEF CallRecords
  <2>4. q = [pc |-> q.pc, kind |-> q.kind, validUntil |-> q.validUntil, since |-> q.since,
             left |-> q.left, sent |-> q.sent, created |-> q.created, status |-> q.status]
    BY <2>1, <2>2 DEF CallRecords
  <2>5. /\ q.pc \in CallSteps /\ q.kind \in Gateway!Kinds /\ q.validUntil \in Nat
        /\ q.since \in Nat
        /\ q.left \in Nat /\ q.sent \in Nat /\ q.created \in Nat /\ q.status \in Statuses
    BY <2>2, <2>3, <1>n DEF CallRecords, CallSteps, Statuses, Gateway!Kinds, Tokens
  <2>6. q \in CallRecords
    BY <2>4, <2>5, Zenon DEF CallRecords
  <2>7. gRequest' = [gRequest EXCEPT ![r] = q] /\ gNow' = gNow
    BY <2>1, <1>4 DEF Gateway!AskForToken
  <2>8. gRequest'[r] = q
    BY <2>7, <1>n
  <2>9. gCachedToken' \in Tokens /\ ExpiryIsHonest'
    BY <1>4, <1>n DEF Gateway!AskForToken, ExpiryIsHonest
  <2>10. TokenOutlasts(r)'
    BY <2>2, <2>3, <2>7, <2>8, <1>n DEF TokenOutlasts, CallRecords
  <2>11. AttemptsCounted(r)'
    BY <2>2, <2>3, <2>8 DEF AttemptsCounted, CallRecords
  <2> QED BY <2>6, <2>7, <2>9, <2>10, <2>11, OneCallChanges
<1>5. ASSUME NEW r \in Requests, Gateway!ReceiveToken(r)
      PROVE  CallsIInv'
  <2> DEFINE p == gRequest[r]
  <2>1. PICK q : q = [p EXCEPT !.pc = "send", !.since = 0,
                      !.validUntil = gNow + TokenLife]
    OBVIOUS
  <2>2. p \in CallRecords /\ TokenOutlasts(r) /\ AttemptsCounted(r) /\ p.pc = "token"
    BY <1>5, <1>0 DEF Gateway!ReceiveToken
  <2>3. /\ q.pc = "send" /\ q.kind = p.kind /\ q.validUntil = gNow + TokenLife
        /\ q.since = 0 /\ q.left = p.left /\ q.sent = p.sent
        /\ q.created = p.created /\ q.status = p.status
    BY <2>1, <2>2 DEF CallRecords
  <2>4. q = [pc |-> q.pc, kind |-> q.kind, validUntil |-> q.validUntil, since |-> q.since,
             left |-> q.left, sent |-> q.sent, created |-> q.created, status |-> q.status]
    BY <2>1, <2>2 DEF CallRecords
  <2>5. /\ q.pc \in CallSteps /\ q.kind \in Gateway!Kinds /\ q.validUntil \in Nat
        /\ q.since \in Nat
        /\ q.left \in Nat /\ q.sent \in Nat /\ q.created \in Nat /\ q.status \in Statuses
    BY <2>2, <2>3, <1>n, <1>m DEF CallRecords, CallSteps, Statuses, Gateway!Kinds, Tokens
  <2>6. q \in CallRecords
    BY <2>4, <2>5, Zenon DEF CallRecords
  <2>7. gRequest' = [gRequest EXCEPT ![r] = q] /\ gNow' = gNow
    BY <2>1, <1>5 DEF Gateway!ReceiveToken
  <2>8. gRequest'[r] = q
    BY <2>7, <1>n
  <2>9. gCachedToken' \in Tokens /\ ExpiryIsHonest'
    BY <1>5, <2>2, <1>n, <1>m DEF Gateway!ReceiveToken, ExpiryIsHonest, Tokens,
                                  TokenOutlasts, CallRecords
  <2>10. TokenOutlasts(r)'
    BY <1>m, <2>2, <2>3, <2>7, <2>8, <1>n DEF AttemptsCounted, TokenOutlasts, CallRecords
  <2>11. AttemptsCounted(r)'
    BY <2>2, <2>3, <2>8 DEF AttemptsCounted, CallRecords
  <2> QED BY <2>6, <2>7, <2>9, <2>10, <2>11, OneCallChanges
<1>6. ASSUME NEW r \in Requests, Gateway!TokenFails(r)
      PROVE  CallsIInv'
  <2> DEFINE p == gRequest[r]
  <2>1. PICK q : q = [p EXCEPT !.pc = "replied", !.status = 500, !.since = 0,
                      !.validUntil = 0]
    OBVIOUS
  <2>2. p \in CallRecords /\ TokenOutlasts(r) /\ AttemptsCounted(r) /\ p.pc = "token"
    BY <1>6, <1>0 DEF Gateway!TokenFails
  <2>3. /\ q.pc = "replied" /\ q.kind = p.kind /\ q.validUntil = 0
        /\ q.since = 0 /\ q.left = p.left /\ q.sent = p.sent
        /\ q.created = p.created /\ q.status = 500
    BY <2>1, <2>2 DEF CallRecords
  <2>4. q = [pc |-> q.pc, kind |-> q.kind, validUntil |-> q.validUntil, since |-> q.since,
             left |-> q.left, sent |-> q.sent, created |-> q.created, status |-> q.status]
    BY <2>1, <2>2 DEF CallRecords
  <2>5. /\ q.pc \in CallSteps /\ q.kind \in Gateway!Kinds /\ q.validUntil \in Nat
        /\ q.since \in Nat
        /\ q.left \in Nat /\ q.sent \in Nat /\ q.created \in Nat /\ q.status \in Statuses
    BY <2>2, <2>3, <1>n DEF CallRecords, CallSteps, Statuses, Gateway!Kinds, Tokens
  <2>6. q \in CallRecords
    BY <2>4, <2>5, Zenon DEF CallRecords
  <2>7. gRequest' = [gRequest EXCEPT ![r] = q] /\ gNow' = gNow
    BY <2>1, <1>6 DEF Gateway!TokenFails, Gateway!Reply
  <2>8. gRequest'[r] = q
    BY <2>7, <1>n
  <2>9. gCachedToken' \in Tokens /\ ExpiryIsHonest'
    BY <1>6, <1>n DEF Gateway!TokenFails, ExpiryIsHonest
  <2>10. TokenOutlasts(r)'
    BY <2>2, <2>3, <2>7, <2>8, <1>n DEF TokenOutlasts, CallRecords
  <2>11. AttemptsCounted(r)'
    BY <2>2, <2>3, <2>8 DEF AttemptsCounted, CallRecords
  <2> QED BY <2>6, <2>7, <2>9, <2>10, <2>11, OneCallChanges
<1>7. ASSUME NEW r \in Requests, Gateway!Send(r)
      PROVE  CallsIInv'
  <2> DEFINE p == gRequest[r]
  <2>1. PICK q : q = [p EXCEPT !.pc = "sent", !.since = gNow, !.sent = @ + 1]
    OBVIOUS
  <2>2. p \in CallRecords /\ TokenOutlasts(r) /\ AttemptsCounted(r) /\ p.pc = "send"
    BY <1>7, <1>0 DEF Gateway!Send
  <2>3. /\ q.pc = "sent" /\ q.kind = p.kind /\ q.validUntil = p.validUntil
        /\ q.since = gNow /\ q.left = p.left /\ q.sent = p.sent + 1
        /\ q.created = p.created /\ q.status = p.status
    BY <2>1, <2>2 DEF CallRecords
  <2>4. q = [pc |-> q.pc, kind |-> q.kind, validUntil |-> q.validUntil, since |-> q.since,
             left |-> q.left, sent |-> q.sent, created |-> q.created, status |-> q.status]
    BY <2>1, <2>2 DEF CallRecords
  <2>5. /\ q.pc \in CallSteps /\ q.kind \in Gateway!Kinds /\ q.validUntil \in Nat
        /\ q.since \in Nat
        /\ q.left \in Nat /\ q.sent \in Nat /\ q.created \in Nat /\ q.status \in Statuses
    BY <2>2, <2>3, <1>n DEF CallRecords, CallSteps, Statuses, Gateway!Kinds, Tokens
  <2>6. q \in CallRecords
    BY <2>4, <2>5, Zenon DEF CallRecords
  <2>7. gRequest' = [gRequest EXCEPT ![r] = q] /\ gNow' = gNow
    BY <2>1, <1>7 DEF Gateway!Send
  <2>8. gRequest'[r] = q
    BY <2>7, <1>n
  <2>9. gCachedToken' \in Tokens /\ ExpiryIsHonest'
    BY <1>7, <1>n DEF Gateway!Send, ExpiryIsHonest
  <2>t. p.left * AttemptTime \in Nat
    BY <2>2, <1>m DEF CallRecords
  <2>10. TokenOutlasts(r)'
    BY <2>t, <2>2, <2>3, <2>7, <2>8, <1>n DEF TokenOutlasts, CallRecords
  <2>11. AttemptsCounted(r)'
    BY <2>2, <2>3, <2>8 DEF AttemptsCounted, CallRecords
  <2> QED BY <2>6, <2>7, <2>9, <2>10, <2>11, OneCallChanges
<1>8. ASSUME NEW r \in Requests, Gateway!Succeeds(r)
      PROVE  CallsIInv'
  <2> DEFINE p == gRequest[r]
  <2> DEFINE n == IF p.kind = "create" THEN p.created + 1 ELSE p.created
  <2>0. PICK s \in {200, 502} :
             gRequest' = [gRequest EXCEPT ![r] = [p EXCEPT !.pc = "replied", !.status = s,
                        !.since = 0, !.validUntil = 0, !.created = n]]
    BY <1>8 DEF Gateway!Succeeds
  <2>1. PICK q : q = [p EXCEPT !.pc = "replied", !.status = s, !.since = 0,
                      !.validUntil = 0, !.created = n]
    OBVIOUS
  <2>2. p \in CallRecords /\ TokenOutlasts(r) /\ AttemptsCounted(r) /\ p.pc = "sent"
    BY <1>8, <1>0 DEF Gateway!Succeeds
  <2>v. /\ s \in Statuses /\ n \in Nat
        /\ n <= p.created + 1
        /\ p.kind = "read" => n = p.created
    BY <2>0, <2>2 DEF CallRecords, Statuses
  <2> HIDE DEF n
  <2>3. /\ q.pc = "replied" /\ q.kind = p.kind /\ q.validUntil = 0
        /\ q.since = 0 /\ q.left = p.left /\ q.sent = p.sent
        /\ q.created = n /\ q.status = s
    BY <2>1, <2>2 DEF CallRecords
  <2>4. q = [pc |-> q.pc, kind |-> q.kind, validUntil |-> q.validUntil, since |-> q.since,
             left |-> q.left, sent |-> q.sent, created |-> q.created, status |-> q.status]
    BY <2>1, <2>2 DEF CallRecords
  <2>5. /\ q.pc \in CallSteps /\ q.kind \in Gateway!Kinds /\ q.validUntil \in Nat
        /\ q.since \in Nat
        /\ q.left \in Nat /\ q.sent \in Nat /\ q.created \in Nat /\ q.status \in Statuses
    BY <2>2, <2>3, <1>n, <2>v DEF CallRecords, CallSteps, Statuses, Gateway!Kinds, Tokens
  <2>6. q \in CallRecords
    BY <2>4, <2>5, Zenon DEF CallRecords
  <2>7. gRequest' = [gRequest EXCEPT ![r] = q] /\ gNow' = gNow
    BY <2>1, <2>0, <1>8 DEF Gateway!Succeeds
  <2>8. gRequest'[r] = q
    BY <2>7, <1>n
  <2>9. gCachedToken' \in Tokens /\ ExpiryIsHonest'
    BY <1>8, <1>n DEF Gateway!Succeeds, ExpiryIsHonest
  <2>10. TokenOutlasts(r)'
    BY <2>2, <2>3, <2>7, <2>8, <1>n DEF TokenOutlasts, CallRecords
  <2>11. AttemptsCounted(r)'
    BY <2>2, <2>3, <2>8, <2>v DEF AttemptsCounted, CallRecords
  <2> QED BY <2>6, <2>7, <2>9, <2>10, <2>11, OneCallChanges
<1>9. ASSUME NEW r \in Requests, Gateway!Refused(r)
      PROVE  CallsIInv'
  <2> DEFINE p == gRequest[r]
  <2>0. PICK s \in Gateway!Refusals : Gateway!Reply(r, Gateway!RouteStatus(s))
    BY <1>9 DEF Gateway!Refused
  <2>1. PICK q : q = [p EXCEPT !.pc = "replied", !.status = Gateway!RouteStatus(s),
                        !.since = 0,
                      !.validUntil = 0]
    OBVIOUS
  <2>2. p \in CallRecords /\ TokenOutlasts(r) /\ AttemptsCounted(r) /\ p.pc = "sent"
    BY <1>9, <1>0 DEF Gateway!Refused
  <2>v. Gateway!RouteStatus(s) \in Statuses
    BY <2>0 DEF Gateway!RouteStatus, Gateway!Refusals, Statuses
  <2>3. /\ q.pc = "replied" /\ q.kind = p.kind /\ q.validUntil = 0
        /\ q.since = 0 /\ q.left = p.left /\ q.sent = p.sent
        /\ q.created = p.created /\ q.status = Gateway!RouteStatus(s)
    BY <2>1, <2>2 DEF CallRecords
  <2>4. q = [pc |-> q.pc, kind |-> q.kind, validUntil |-> q.validUntil, since |-> q.since,
             left |-> q.left, sent |-> q.sent, created |-> q.created, status |-> q.status]
    BY <2>1, <2>2 DEF CallRecords
  <2>5. /\ q.pc \in CallSteps /\ q.kind \in Gateway!Kinds /\ q.validUntil \in Nat
        /\ q.since \in Nat
        /\ q.left \in Nat /\ q.sent \in Nat /\ q.created \in Nat /\ q.status \in Statuses
    BY <2>2, <2>3, <1>n, <2>v DEF CallRecords, CallSteps, Statuses, Gateway!Kinds, Tokens
  <2>6. q \in CallRecords
    BY <2>4, <2>5, Zenon DEF CallRecords
  <2>7. gRequest' = [gRequest EXCEPT ![r] = q] /\ gNow' = gNow
    BY <2>1, <2>0, <1>9 DEF Gateway!Refused, Gateway!Reply
  <2>8. gRequest'[r] = q
    BY <2>7, <1>n
  <2>9. gCachedToken' \in Tokens /\ ExpiryIsHonest'
    BY <1>9, <1>n DEF Gateway!Refused, ExpiryIsHonest
  <2>10. TokenOutlasts(r)'
    BY <2>2, <2>3, <2>7, <2>8, <1>n DEF TokenOutlasts, CallRecords
  <2>11. AttemptsCounted(r)'
    BY <2>2, <2>3, <2>8, <2>v DEF AttemptsCounted, CallRecords
  <2> QED BY <2>6, <2>7, <2>9, <2>10, <2>11, OneCallChanges
<1>10. ASSUME NEW r \in Requests, Gateway!TransientError(r)
      PROVE  CallsIInv'
  <2> DEFINE p == gRequest[r]
  <2>0. PICK s \in Gateway!Transient, c \in Gateway!MayCreate(r) :
             gRequest' = [gRequest EXCEPT ![r] = [p EXCEPT !.pc = "body", !.since = gNow,
                        !.status = s, !.created = @ + c]]
    BY <1>10 DEF Gateway!TransientError
  <2>1. PICK q : q = [p EXCEPT !.pc = "body", !.since = gNow, !.status = s,
                      !.created = @ + c]
    OBVIOUS
  <2>2. p \in CallRecords /\ TokenOutlasts(r) /\ AttemptsCounted(r) /\ p.pc = "sent"
    BY <1>10, <1>0 DEF Gateway!TransientError
  <2>v. /\ s \in Statuses /\ c \in {0, 1}
        /\ p.kind = "read" => c = 0
    BY <2>0 DEF Gateway!Transient, Gateway!MayCreate, Statuses
  <2>3. /\ q.pc = "body" /\ q.kind = p.kind /\ q.validUntil = p.validUntil
        /\ q.since = gNow /\ q.left = p.left /\ q.sent = p.sent
        /\ q.created = p.created + c /\ q.status = s
    BY <2>1, <2>2 DEF CallRecords
  <2>4. q = [pc |-> q.pc, kind |-> q.kind, validUntil |-> q.validUntil, since |-> q.since,
             left |-> q.left, sent |-> q.sent, created |-> q.created, status |-> q.status]
    BY <2>1, <2>2 DEF CallRecords
  <2>5. /\ q.pc \in CallSteps /\ q.kind \in Gateway!Kinds /\ q.validUntil \in Nat
        /\ q.since \in Nat
        /\ q.left \in Nat /\ q.sent \in Nat /\ q.created \in Nat /\ q.status \in Statuses
    BY <2>2, <2>3, <1>n, <2>v DEF CallRecords, CallSteps, Statuses, Gateway!Kinds, Tokens
  <2>6. q \in CallRecords
    BY <2>4, <2>5, Zenon DEF CallRecords
  <2>7. gRequest' = [gRequest EXCEPT ![r] = q] /\ gNow' = gNow
    BY <2>1, <2>0, <1>10 DEF Gateway!TransientError
  <2>8. gRequest'[r] = q
    BY <2>7, <1>n
  <2>9. gCachedToken' \in Tokens /\ ExpiryIsHonest'
    BY <1>10, <1>n DEF Gateway!TransientError, ExpiryIsHonest
  <2>t. p.left * AttemptTime \in Nat
    BY <2>2, <1>m DEF CallRecords
  <2>10. TokenOutlasts(r)'
    BY <1>m, <2>t, <2>2, <2>3, <2>7, <2>8, <1>n DEF TokenOutlasts, CallRecords
  <2>11. AttemptsCounted(r)'
    BY <2>2, <2>3, <2>8, <2>v DEF AttemptsCounted, CallRecords
  <2> QED BY <2>6, <2>7, <2>9, <2>10, <2>11, OneCallChanges
<1>11. ASSUME NEW r \in Requests, Gateway!ReadErrorBody(r), Gateway!MayRetry(r,
              gRequest[r].status)
      PROVE  CallsIInv'
  <2> DEFINE p == gRequest[r]
  <2>1. PICK q : q = [p EXCEPT !.pc = "send", !.left = @ - 1, !.since = 0,
                      !.status = Gateway!NoStatus]
    OBVIOUS
  <2>2. p \in CallRecords /\ TokenOutlasts(r) /\ AttemptsCounted(r) /\ p.pc = "body"
          /\ p.left > 0
    BY <1>11, <1>0 DEF Gateway!ReadErrorBody, Gateway!MayRetry
  <2>3. /\ q.pc = "send" /\ q.kind = p.kind /\ q.validUntil = p.validUntil
        /\ q.since = 0 /\ q.left = p.left - 1 /\ q.sent = p.sent
        /\ q.created = p.created /\ q.status = Gateway!NoStatus
    BY <2>1, <2>2 DEF CallRecords
  <2>4. q = [pc |-> q.pc, kind |-> q.kind, validUntil |-> q.validUntil, since |-> q.since,
             left |-> q.left, sent |-> q.sent, created |-> q.created, status |-> q.status]
    BY <2>1, <2>2 DEF CallRecords
  <2>5. /\ q.pc \in CallSteps /\ q.kind \in Gateway!Kinds /\ q.validUntil \in Nat
        /\ q.since \in Nat
        /\ q.left \in Nat /\ q.sent \in Nat /\ q.created \in Nat /\ q.status \in Statuses
    BY <2>2, <2>3, <1>n DEF CallRecords, CallSteps, Statuses, Gateway!Kinds, Tokens,
                            Gateway!NoStatus
  <2>6. q \in CallRecords
    BY <2>4, <2>5, Zenon DEF CallRecords
  <2>7. gRequest' = [gRequest EXCEPT ![r] = q] /\ gNow' = gNow
    BY <2>1, <1>11 DEF Gateway!ReadErrorBody
  <2>8. gRequest'[r] = q
    BY <2>7, <1>n
  <2>9. gCachedToken' \in Tokens /\ ExpiryIsHonest'
    BY <1>11, <1>n DEF Gateway!ReadErrorBody, ExpiryIsHonest
  <2>t. /\ p.left * AttemptTime \in Nat
        /\ (p.left - 1) * AttemptTime = p.left * AttemptTime - AttemptTime
    BY <2>2, <1>m, OneRetryLess DEF CallRecords
  <2>10. TokenOutlasts(r)'
    BY <1>m, <2>t, <2>2, <2>3, <2>7, <2>8, <1>n DEF TokenOutlasts, CallRecords
  <2>11. AttemptsCounted(r)'
    BY <2>2, <2>3, <2>8, <1>m DEF AttemptsCounted, CallRecords
  <2> QED BY <2>6, <2>7, <2>9, <2>10, <2>11, OneCallChanges
<1>12. ASSUME NEW r \in Requests, Gateway!ReadErrorBody(r), ~Gateway!MayRetry(r,
              gRequest[r].status)
      PROVE  CallsIInv'
  <2> DEFINE p == gRequest[r]
  <2>0. Gateway!Reply(r, Gateway!RouteStatus(p.status))
    BY <1>12 DEF Gateway!ReadErrorBody
  <2>1. PICK q : q = [p EXCEPT !.pc = "replied", !.status = Gateway!RouteStatus(p.status),
                      !.since = 0, !.validUntil = 0]
    OBVIOUS
  <2>2. p \in CallRecords /\ TokenOutlasts(r) /\ AttemptsCounted(r) /\ p.pc = "body"
    BY <1>12, <1>0 DEF Gateway!ReadErrorBody
  <2>v. Gateway!RouteStatus(p.status) \in Statuses
    BY DEF Gateway!RouteStatus, Gateway!Refusals, Statuses
  <2>3. /\ q.pc = "replied" /\ q.kind = p.kind /\ q.validUntil = 0
        /\ q.since = 0 /\ q.left = p.left /\ q.sent = p.sent
        /\ q.created = p.created /\ q.status = Gateway!RouteStatus(p.status)
    BY <2>1, <2>2 DEF CallRecords
  <2>4. q = [pc |-> q.pc, kind |-> q.kind, validUntil |-> q.validUntil, since |-> q.since,
             left |-> q.left, sent |-> q.sent, created |-> q.created, status |-> q.status]
    BY <2>1, <2>2 DEF CallRecords
  <2>5. /\ q.pc \in CallSteps /\ q.kind \in Gateway!Kinds /\ q.validUntil \in Nat
        /\ q.since \in Nat
        /\ q.left \in Nat /\ q.sent \in Nat /\ q.created \in Nat /\ q.status \in Statuses
    BY <2>2, <2>3, <1>n, <2>v DEF CallRecords, CallSteps, Statuses, Gateway!Kinds, Tokens
  <2>6. q \in CallRecords
    BY <2>4, <2>5, Zenon DEF CallRecords
  <2>7. gRequest' = [gRequest EXCEPT ![r] = q] /\ gNow' = gNow
    BY <2>1, <2>0, <1>12 DEF Gateway!ReadErrorBody, Gateway!Reply
  <2>8. gRequest'[r] = q
    BY <2>7, <1>n
  <2>9. gCachedToken' \in Tokens /\ ExpiryIsHonest'
    BY <1>12, <1>n DEF Gateway!ReadErrorBody, ExpiryIsHonest
  <2>10. TokenOutlasts(r)'
    BY <2>2, <2>3, <2>7, <2>8, <1>n DEF TokenOutlasts, CallRecords
  <2>11. AttemptsCounted(r)'
    BY <2>2, <2>3, <2>8, <2>v DEF AttemptsCounted, CallRecords
  <2> QED BY <2>6, <2>7, <2>9, <2>10, <2>11, OneCallChanges
<1>13. ASSUME NEW r \in Requests, Gateway!AttemptFails(r)
      PROVE  CallsIInv'
  <2> DEFINE p == gRequest[r]
  <2>0. PICK c \in Gateway!MayCreate(r) :
             gRequest' = [gRequest EXCEPT ![r] = [p EXCEPT !.pc = "replied",
                        !.status = Gateway!RouteStatus(Gateway!NoStatus), !.since = 0,
                        !.validUntil = 0,
                        !.created = @ + c]]
    BY <1>13 DEF Gateway!AttemptFails
  <2>1. PICK q : q = [p EXCEPT !.pc = "replied",
                        !.status = Gateway!RouteStatus(Gateway!NoStatus),
                      !.since = 0, !.validUntil = 0, !.created = @ + c]
    OBVIOUS
  <2>2. p \in CallRecords /\ TokenOutlasts(r) /\ AttemptsCounted(r) /\ p.pc = "sent"
    BY <1>13, <1>0 DEF Gateway!AttemptFails
  <2>v. /\ Gateway!RouteStatus(Gateway!NoStatus) \in Statuses /\ c \in {0, 1}
        /\ p.kind = "read" => c = 0
    BY <2>0 DEF Gateway!RouteStatus, Gateway!Refusals, Gateway!NoStatus, Gateway!MayCreate,
                Statuses
  <2>3. /\ q.pc = "replied" /\ q.kind = p.kind /\ q.validUntil = 0
        /\ q.since = 0 /\ q.left = p.left /\ q.sent = p.sent
        /\ q.created = p.created + c /\ q.status = Gateway!RouteStatus(Gateway!NoStatus)
    BY <2>1, <2>2 DEF CallRecords
  <2>4. q = [pc |-> q.pc, kind |-> q.kind, validUntil |-> q.validUntil, since |-> q.since,
             left |-> q.left, sent |-> q.sent, created |-> q.created, status |-> q.status]
    BY <2>1, <2>2 DEF CallRecords
  <2>5. /\ q.pc \in CallSteps /\ q.kind \in Gateway!Kinds /\ q.validUntil \in Nat
        /\ q.since \in Nat
        /\ q.left \in Nat /\ q.sent \in Nat /\ q.created \in Nat /\ q.status \in Statuses
    BY <2>2, <2>3, <1>n, <2>v DEF CallRecords, CallSteps, Statuses, Gateway!Kinds, Tokens
  <2>6. q \in CallRecords
    BY <2>4, <2>5, Zenon DEF CallRecords
  <2>7. gRequest' = [gRequest EXCEPT ![r] = q] /\ gNow' = gNow
    BY <2>1, <2>0, <1>13 DEF Gateway!AttemptFails
  <2>8. gRequest'[r] = q
    BY <2>7, <1>n
  <2>9. gCachedToken' \in Tokens /\ ExpiryIsHonest'
    BY <1>13, <1>n DEF Gateway!AttemptFails, ExpiryIsHonest
  <2>10. TokenOutlasts(r)'
    BY <2>2, <2>3, <2>7, <2>8, <1>n DEF TokenOutlasts, CallRecords
  <2>11. AttemptsCounted(r)'
    BY <2>2, <2>3, <2>8, <2>v DEF AttemptsCounted, CallRecords
  <2> QED BY <2>6, <2>7, <2>9, <2>10, <2>11, OneCallChanges
<1>14. ASSUME Gateway!Tick
      PROVE  CallsIInv'
  <2>1. /\ gNow' = gNow + 1 /\ gRequest' = gRequest /\ gCachedToken' = gCachedToken
    BY <1>14 DEF Gateway!Tick
  <2>2. ASSUME NEW r \in Requests
        PROVE  TokenOutlasts(r)' /\ AttemptsCounted(r)'
    <3>1. /\ gRequest[r].pc # "send"
          /\ gRequest[r].pc = "sent" => gNow - gRequest[r].since < 1
          /\ gRequest[r].pc = "body" => gNow - gRequest[r].since < BodyTime
      BY <1>14 DEF Gateway!Tick
    <3>2. gRequest[r] \in CallRecords /\ TokenOutlasts(r) /\ AttemptsCounted(r)
      BY <1>0
    <3>3. TokenOutlasts(r)'
      BY <2>1, <3>1, <3>2, <1>n, <1>m DEF TokenOutlasts, CallRecords
    <3> QED BY <2>1, <3>2, <3>3 DEF AttemptsCounted
  <2> QED BY <2>1, <2>2, <1>n DEF CallsIInv, CallsTypeOK, ExpiryIsHonest
<1>15. ASSUME UNCHANGED Gateway!gatewayVars
      PROVE  CallsIInv'
  BY <1>15 DEF Gateway!gatewayVars, CallsIInv, CallsTypeOK, ExpiryIsHonest, TokenOutlasts,
               AttemptsCounted
<1> QED
  BY <1>1, <1>2, <1>3, <1>4, <1>5, <1>6, <1>7, <1>8, <1>9, <1>10, <1>11, <1>12, <1>13,
     <1>14, <1>15 DEF Gateway!Next, Gateway!Attempt

-----------------------------------------------------------------------------

\* No attempt carries an expired token and no call makes more attempts, or leaves more
\* jobs, than it has retries, when the margin covers the time the retries can take.
THEOREM AttemptsStaySound ==
  ASSUME MarginCoversRetries
  PROVE  Spec => []AttemptsAreSound
<1>1. Gateway!Init => CallsIInv
  BY FirstCallsSound, GatewayAssumed
<1>2. CallsIInv /\ [Gateway!Next]_Gateway!gatewayVars => CallsIInv'
  BY CallsStepKeeps, GatewayAssumed
<1>3. CallsIInv => Gateway!AttemptsAreSound
  <2> SUFFICES ASSUME CallsIInv, NEW r \in Requests
               PROVE  /\ gRequest[r].pc = "send" => gRequest[r].validUntil > gNow
                      /\ gRequest[r].created <= Retries + 1 /\ gRequest[r].sent <= Retries + 1
                      /\ gRequest[r].kind = "read" => gRequest[r].created = 0
    BY DEF Gateway!AttemptsAreSound, Gateway!TokenValidWhenSent, Gateway!DuplicatesBounded
  <2>1. gRequest[r] \in CallRecords /\ TokenOutlasts(r) /\ AttemptsCounted(r) /\ gNow \in Nat
    BY DEF CallsIInv, CallsTypeOK
  <2>2. Retries \in Nat /\ AttemptTime \in Nat
    BY GatewayAssumed DEF Gateway!GatewayAssumption, AttemptTime
  <2>3. gRequest[r].left * AttemptTime \in Nat
    BY <2>1, <2>2 DEF CallRecords
  <2>4. gRequest[r].pc = "send" => gRequest[r].validUntil > gNow
    BY <2>1, <2>3 DEF TokenOutlasts, CallRecords
  <2>5. /\ gRequest[r].created <= Retries + 1 /\ gRequest[r].sent <= Retries + 1
        /\ gRequest[r].kind = "read" => gRequest[r].created = 0
    BY <2>1, <2>2 DEF AttemptsCounted, CallRecords, CallSteps
  <2> QED BY <2>4, <2>5
<1> QED BY <1>1, <1>2, <1>3, PartsKeepToTheirs, PTL DEF Gateway!Spec, AttemptsAreSound

-----------------------------------------------------------------------------
(* The results page: its routes *)

RouteRecords ==
  [id : Nat \ {0}, pos : Positions, note : Notes, phone : BOOLEAN, sent : BOOLEAN]

Sends == [ids : SUBSET Nat, source : Int, mounted : BOOLEAN]

\* The routes that wear the badge are routes of confirmed messages.
Confirmed(list, source, delivered) ==
  \A i \in DOMAIN list : list[i].sent => [source |-> source, id |-> list[i].id] \in delivered

\* A draft of an earlier result may hold the badges of another: it never shows again.
DraftIsSound ==
  /\ rDraft \in [source : Int, routes : Seq(RouteRecords)]
  /\ rDraft.source <= rLoaded
  /\ rDraft.source = rLoaded => Confirmed(rDraft.routes, rLoaded, rDelivered)

CardsAreNotes == \A c \in DOMAIN rCards : rCards[c] \in Notes

\* No pin waits to be saved behind a dialog that exports or sends.
NothingWaits == rDialog \in {"method", "export", "send"} => rPending = Results!NoPin

ResultsIInv ==
  /\ rLoaded \in Nat /\ rNextId \in Nat \ {0}
  /\ DraftIsSound
  /\ rPending \in [id : Nat, pos : Positions]
  /\ CardsAreNotes
  /\ rFlights \subseteq Sends /\ \A f \in rFlights : f.source <= rLoaded
  /\ NothingWaits

\* What the page shows are routes, and those with the badge were delivered.
LEMMA ShownRoutes ==
  ASSUME ResultsIInv
  PROVE  Results!Displayed \in Seq(RouteRecords)
         /\ Confirmed(Results!Displayed, rLoaded, rDelivered)
<1>1. CASE rDraft.source = rLoaded
  BY <1>1 DEF Results!Displayed, ResultsIInv, DraftIsSound
<1>2. CASE rDraft.source # rLoaded
  <2> DEFINE n == IF rLoaded = 0 THEN 0 ELSE BaseRoutes
             Fresh(i) == [id |-> i, pos |-> 0, note |-> 0, phone |-> FALSE, sent |-> FALSE]
  <2>1. n \in Nat /\ 0 \in Positions /\ 0 \in Notes
    BY ResultsAssumed DEF Results!ResultsAssumption
  <2>2. Results!Displayed = [i \in 1..n |-> Fresh(i)]
    BY <1>2 DEF Results!Displayed, Results!LoadedRoutes
  <2> HIDE DEF n
  <2>3. \A i \in 1..n : Fresh(i) \in RouteRecords /\ ~Fresh(i).sent
    BY <2>1 DEF RouteRecords
  <2> HIDE DEF Fresh
  <2>4. Results!Displayed \in Seq(RouteRecords)
    BY <2>1, <2>2, <2>3
  <2> QED BY <2>2, <2>3, <2>4 DEF Confirmed
<1> QED BY <1>1, <1>2

\* The routes a callback made for the loaded result changes are those shown.
LEMMA BaseIsShown ==
  (IF rDraft.source = rLoaded THEN rDraft.routes ELSE Results!Displayed) = Results!Displayed
BY DEF Results!Displayed

LEMMA RoutesReplaced ==
  ASSUME ResultsIInv, NEW list, list \in Seq(RouteRecords),
         Confirmed(list, rLoaded, rDelivered),
         rDraft' = [source |-> rLoaded, routes |-> list], UNCHANGED <<rLoaded, rDelivered>>
  PROVE  DraftIsSound'
BY DEF ResultsIInv, DraftIsSound, Confirmed

\* Routes that change one by one keep their ids and badges.
LEMMA RoutesChanged ==
  ASSUME ResultsIInv, NEW changed,
         changed = [i \in DOMAIN Results!Displayed |-> changed[i]],
         \A i \in DOMAIN Results!Displayed :
           /\ changed[i] \in RouteRecords
           /\ changed[i].id = Results!Displayed[i].id
           /\ changed[i].sent = Results!Displayed[i].sent,
         rDraft' = [source |-> rLoaded, routes |-> changed], UNCHANGED <<rLoaded, rDelivered>>
  PROVE  DraftIsSound'
<1> DEFINE shown == Results!Displayed
<1>1. shown \in Seq(RouteRecords) /\ Confirmed(shown, rLoaded, rDelivered)
  BY ShownRoutes
<1> HIDE DEF shown
<1>2. changed = [i \in DOMAIN shown |-> changed[i]]
      /\ \A i \in DOMAIN shown : /\ changed[i] \in RouteRecords
                                 /\ changed[i].id = shown[i].id
                                 /\ changed[i].sent = shown[i].sent
  BY DEF shown
<1>3. changed \in Seq(RouteRecords) /\ DOMAIN changed = DOMAIN shown
  BY <1>1, <1>2
<1>4. Confirmed(changed, rLoaded, rDelivered)
  BY <1>1, <1>2, <1>3 DEF Confirmed
<1> QED BY <1>3, <1>4, RoutesReplaced

\* The routes with some of the ids change, in a way that keeps ids and badges.
LEMMA SomeRoutesChanged ==
  ASSUME ResultsIInv, NEW ids, NEW change \in [RouteRecords -> RouteRecords],
         \A route \in RouteRecords :
           change[route].id = route.id /\ change[route].sent = route.sent,
         rDraft' = [source |-> rLoaded,
                    routes |-> [i \in DOMAIN Results!Displayed |->
                                  IF Results!Displayed[i].id \in ids
                                    THEN change[Results!Displayed[i]]
                                    ELSE Results!Displayed[i]]],
         UNCHANGED <<rLoaded, rDelivered>>
  PROVE  DraftIsSound'
<1> DEFINE shown == Results!Displayed
           changed == [i \in DOMAIN shown |->
                         IF shown[i].id \in ids THEN change[shown[i]] ELSE shown[i]]
<1>1. rDraft' = [source |-> rLoaded, routes |-> changed]
  OBVIOUS
<1>2. \A i \in DOMAIN shown : shown[i] \in RouteRecords
  BY ShownRoutes
<1>3. \A i \in DOMAIN shown : /\ changed[i] \in RouteRecords
                              /\ changed[i].id = shown[i].id
                              /\ changed[i].sent = shown[i].sent
  BY <1>2
<1>4. changed = [i \in DOMAIN shown |-> changed[i]]
  OBVIOUS
<1> HIDE DEF changed
<1> QED BY <1>1, <1>3, <1>4, RoutesChanged

\* The pin is saved, or there is none.
LEMMA SavePinKeeps ==
  ASSUME ResultsIInv, Results!SavePin, UNCHANGED <<rLoaded, rDelivered>>
  PROVE  DraftIsSound' /\ rPending' = Results!NoPin
<1>1. CASE rPending = Results!NoPin
  BY <1>1 DEF Results!SavePin, ResultsIInv, DraftIsSound, Confirmed
<1>2. CASE rPending # Results!NoPin
  <2> DEFINE change == [route \in RouteRecords |-> [route EXCEPT !.pos = rPending.pos]]
             shown == Results!Displayed
  <2>1. rPending.pos \in Positions /\ rPending' = Results!NoPin
    BY <1>2 DEF ResultsIInv, Results!SavePin
  <2>2. \A route \in RouteRecords :
          LET r == [route EXCEPT !.pos = rPending.pos]
          IN  r \in RouteRecords /\ r.id = route.id /\ r.sent = route.sent
    BY <2>1 DEF RouteRecords
  <2>3. \A i \in DOMAIN shown : shown[i] \in RouteRecords
    BY ShownRoutes
  <2>4. rDraft' = [source |-> rLoaded,
                   routes |-> [i \in DOMAIN shown |->
                                 IF shown[i].id \in {rPending.id}
                                   THEN [shown[i] EXCEPT !.pos = rPending.pos] ELSE shown[i]]]
    BY <1>2, BaseIsShown DEF Results!SavePin, Results!ForIds, Results!SetRoutes
  <2>5. \A i \in DOMAIN shown : change[shown[i]] = [shown[i] EXCEPT !.pos = rPending.pos]
    BY <2>3
  <2>6. change \in [RouteRecords -> RouteRecords]
    BY <2>2
  <2>7. \A route \in RouteRecords : /\ change[route].id = route.id
                                   /\ change[route].sent = route.sent
    BY <2>2
  <2>8. rDraft' = [source |-> rLoaded,
                   routes |-> [i \in DOMAIN shown |->
                                 IF shown[i].id \in {rPending.id}
                                   THEN change[shown[i]] ELSE shown[i]]]
    BY <2>4, <2>5
  <2> HIDE DEF change
  <2> QED BY <2>1, <2>6, <2>7, <2>8, SomeRoutesChanged
<1> QED BY <1>1, <1>2

LEMMA SaveNoteKeeps ==
  ASSUME ResultsIInv, Results!SaveNote
  PROVE  DraftIsSound'
<1> DEFINE shown == Results!Displayed
<1>1. PICK id \in DOMAIN rCards :
        rDraft' = [source |-> rLoaded,
                   routes |-> [i \in DOMAIN shown |->
                                 IF shown[i].id \in {id}
                                   THEN [shown[i] EXCEPT !.note = rCards[id]] ELSE shown[i]]]
  BY BaseIsShown DEF Results!SaveNote, Results!ForIds, Results!SetRoutes
<1> DEFINE change == [route \in RouteRecords |-> [route EXCEPT !.note = rCards[id]]]
<1>2. rCards[id] \in Notes
  BY <1>1 DEF ResultsIInv, CardsAreNotes
<1>3. \A route \in RouteRecords :
        LET r == [route EXCEPT !.note = rCards[id]]
        IN  r \in RouteRecords /\ r.id = route.id /\ r.sent = route.sent
  BY <1>2 DEF RouteRecords
<1>4. \A i \in DOMAIN shown : shown[i] \in RouteRecords
  BY ShownRoutes
<1>5. \A i \in DOMAIN shown : change[shown[i]] = [shown[i] EXCEPT !.note = rCards[id]]
  BY <1>4
<1>6. change \in [RouteRecords -> RouteRecords]
  BY <1>3
<1>7. \A route \in RouteRecords : change[route].id = route.id /\ change[route].sent = route.sent
  BY <1>3
<1>8. rDraft' = [source |-> rLoaded,
                 routes |-> [i \in DOMAIN shown |->
                               IF shown[i].id \in {id} THEN change[shown[i]] ELSE shown[i]]]
  BY <1>1, <1>5
<1>9. UNCHANGED <<rLoaded, rDelivered>>
  BY DEF Results!SaveNote, Results!sendVars
<1> HIDE DEF change
<1> QED BY <1>6, <1>7, <1>8, <1>9, SomeRoutesChanged

LEMMA TypePhoneKeeps ==
  ASSUME ResultsIInv, Results!TypePhone
  PROVE  DraftIsSound'
<1> DEFINE shown == Results!Displayed
           change == [route \in RouteRecords |-> [route EXCEPT !.phone = ~route.phone]]
<1>1. PICK id :
        rDraft' = [source |-> rLoaded,
                   routes |-> [i \in DOMAIN shown |->
                                 IF shown[i].id \in {id}
                                   THEN [shown[i] EXCEPT !.phone = ~shown[i].phone]
                                   ELSE shown[i]]]
  BY BaseIsShown DEF Results!TypePhone, Results!ForIds, Results!SetRoutes
<1>2. ASSUME NEW route \in RouteRecords
      PROVE  LET r == [route EXCEPT !.phone = ~route.phone]
             IN  r \in RouteRecords /\ r.id = route.id /\ r.sent = route.sent
  <2>1. (~route.phone) \in BOOLEAN
    OBVIOUS
  <2>2. \A b \in BOOLEAN : LET r == [route EXCEPT !.phone = b]
                           IN  r \in RouteRecords /\ r.id = route.id /\ r.sent = route.sent
    BY DEF RouteRecords
  <2> QED BY <2>1, <2>2, Zenon
<1>3. \A i \in DOMAIN shown : shown[i] \in RouteRecords
  BY ShownRoutes
<1>4. \A i \in DOMAIN shown : change[shown[i]] = [shown[i] EXCEPT !.phone = ~shown[i].phone]
  BY <1>3, Zenon
<1>5. change \in [RouteRecords -> RouteRecords]
  BY <1>2, Zenon
<1>6. \A route \in RouteRecords : change[route].id = route.id /\ change[route].sent = route.sent
  BY <1>2, Zenon
<1>7. rDraft' = [source |-> rLoaded,
                 routes |-> [i \in DOMAIN shown |->
                               IF shown[i].id \in {id} THEN change[shown[i]] ELSE shown[i]]]
  <2> HIDE DEF change
  <2>1. \A i \in DOMAIN shown :
          (IF shown[i].id \in {id} THEN [shown[i] EXCEPT !.phone = ~shown[i].phone]
                                   ELSE shown[i])
            = IF shown[i].id \in {id} THEN change[shown[i]] ELSE shown[i]
    BY <1>4, Zenon
  <2> QED BY <1>1, <2>1, Zenon
<1>8. UNCHANGED <<rLoaded, rDelivered>>
  BY DEF Results!TypePhone, Results!sendVars
<1> HIDE DEF change
<1> QED BY <1>5, <1>6, <1>7, <1>8, SomeRoutesChanged

\* A copy has a new id and no badge, and goes below its route.
LEMMA DuplicateKeeps ==
  ASSUME ResultsIInv, Results!DuplicateRoute
  PROVE  DraftIsSound'
<1> DEFINE shown == Results!Displayed
           i == Results!IndexOf(rMenu)
           copy == Results!CopyOf(shown[i], rNextId)
           list == SubSeq(shown, 1, i) \o <<copy>> \o SubSeq(shown, i + 1, Len(shown))
<1>1. shown \in Seq(RouteRecords) /\ Confirmed(shown, rLoaded, rDelivered)
  BY ShownRoutes
<1>2. i \in DOMAIN shown
  <2>1. \E j \in DOMAIN shown : shown[j].id = rMenu
    BY DEF Results!DuplicateRoute, Results!Ids
  <2> QED BY <2>1 DEF Results!IndexOf
<1>3. rDraft' = [source |-> rLoaded, routes |-> list] /\ UNCHANGED <<rLoaded, rDelivered>>
  BY BaseIsShown DEF Results!DuplicateRoute, Results!SetRoutes, Results!sendVars
<1>4. copy \in RouteRecords /\ ~copy.sent
  <2>1. shown[i] \in RouteRecords /\ rNextId \in Nat \ {0}
    BY <1>1, <1>2 DEF ResultsIInv
  <2> HIDE DEF i, shown
  <2> QED BY <2>1 DEF Results!CopyOf, RouteRecords
<1> HIDE DEF shown, i, copy
<1> DEFINE n == Len(shown)
<1>5. n \in Nat /\ DOMAIN shown = 1..n /\ i \in 1..n
  BY <1>1, <1>2
<1>6. /\ list \in Seq(RouteRecords) /\ DOMAIN list = 1..(n + 1)
      /\ \A j \in 1..(n + 1) : list[j] = IF j <= i THEN shown[j]
                                         ELSE IF j = i + 1 THEN copy ELSE shown[j - 1]
  <2>1. shown \in Seq(RouteRecords) /\ i \in 1..Len(shown) /\ copy \in RouteRecords
    BY <1>1, <1>4, <1>5
  <2>2. list = WithBelow(shown, i, copy)
    BY DEF WithBelow
  <2> HIDE DEF list
  <2>3. /\ WithBelow(shown, i, copy) \in Seq(RouteRecords)
        /\ DOMAIN WithBelow(shown, i, copy) = 1..(Len(shown) + 1)
    BY <2>1, InsertedBelow
  <2>4. ASSUME NEW j \in 1..(Len(shown) + 1)
        PROVE  WithBelow(shown, i, copy)[j]
                 = IF j <= i THEN shown[j] ELSE IF j = i + 1 THEN copy ELSE shown[j - 1]
    BY <2>1, InsertedBelow
  <2> QED BY <2>2, <2>3, <2>4
<1> HIDE DEF list
<1>7. Confirmed(list, rLoaded, rDelivered)
  <2> SUFFICES ASSUME NEW j \in 1..(n + 1), list[j].sent
               PROVE  [source |-> rLoaded, id |-> list[j].id] \in rDelivered
    BY <1>6 DEF Confirmed
  <2>1. CASE j <= i
    BY <1>1, <1>5, <1>6, <2>1 DEF Confirmed
  <2>2. CASE j = i + 1
    BY <1>4, <1>5, <1>6, <2>2
  <2>3. CASE j > i + 1
    <3>1. list[j] = shown[j - 1] /\ j - 1 \in 1..n
      BY <1>5, <1>6, <2>3
    <3> QED BY <1>1, <1>5, <3>1 DEF Confirmed
  <2> QED BY <1>5, <2>1, <2>2, <2>3
<1> QED BY <1>3, <1>6, <1>7, RoutesReplaced

\* The entries a list keeps, as the results page sees them.
LEMMA ResultsAreLeft ==
  ASSUME NEW list, NEW places
  PROVE  Results!EntriesAt(list, places) = EntriesAt(list, places)
<1>1. ASSUME NEW S PROVE Results!Cardinality(S) = Cardinality(S)
  BY DEF Results!Cardinality, Cardinality
<1>2. ASSUME NEW i PROVE Results!Rank(i, places) = Rank(i, places)
  BY <1>1 DEF Results!Rank, Rank
<1>3. ASSUME NEW k
      PROVE  list[CHOOSE i \in places : Results!Rank(i, places) = k]
               = list[CHOOSE i \in places : Rank(i, places) = k]
  <2>1. \A i \in places : Results!Rank(i, places) = k <=> Rank(i, places) = k
    BY <1>2
  <2>2. (CHOOSE i \in places : Results!Rank(i, places) = k)
          = (CHOOSE i \in places : Rank(i, places) = k)
    BY <2>1, Zenon
  <2> QED BY <2>2, Zenon
<1>4. Results!Cardinality(places) = Cardinality(places)
  BY <1>1
<1> DEFINE theirs(k) == list[CHOOSE i \in places : Results!Rank(i, places) = k]
           ours(k) == list[CHOOSE i \in places : Rank(i, places) = k]
<1>5. Results!EntriesAt(list, places)
        = [k \in 1..Results!Cardinality(places) |-> theirs(k)]
  BY Zenon DEF Results!EntriesAt
<1>6. EntriesAt(list, places) = [k \in 1..Cardinality(places) |-> ours(k)]
  BY Zenon DEF EntriesAt
<1>7. \A k : theirs(k) = ours(k)
  BY <1>3, Zenon
<1> HIDE DEF theirs, ours
<1>8. [k \in 1..Cardinality(places) |-> theirs(k)] = [k \in 1..Cardinality(places) |-> ours(k)]
  BY <1>7
<1> QED
  BY <1>4, <1>5, <1>6, <1>8, Zenon


LEMMA DeleteKeeps ==
  ASSUME ResultsIInv, Results!DeleteRoute
  PROVE  DraftIsSound'
<1> DEFINE shown == Results!Displayed
           places == {i \in DOMAIN shown : shown[i].id # rMenu}
           list == EntriesAt(shown, places)
<1>1. shown \in Seq(RouteRecords) /\ Confirmed(shown, rLoaded, rDelivered)
  BY ShownRoutes
<1>2. rDraft' = [source |-> rLoaded, routes |-> list] /\ UNCHANGED <<rLoaded, rDelivered>>
  BY BaseIsShown, ResultsAreLeft
  DEF Results!DeleteRoute, Results!SetRoutes, Results!sendVars
<1>3. PICK n \in Nat : DOMAIN shown = 1..n
  BY <1>1
<1>4. n \in Nat /\ places \in SUBSET (1..n)
  BY <1>3
<1> HIDE DEF shown, places
<1>5. \A l \in 1..Cardinality(places) : \E i \in places :
        EntriesAt(shown, places)[l] = shown[i] /\ Rank(i, places) = l
  BY <1>4, EntriesAtRanks, Zenon
<1>6. Cardinality(places) \in Nat /\ list = [l \in 1..Cardinality(places) |-> list[l]]
  BY <1>4, EntriesAtFacts
<1> HIDE DEF list
<1>7. \A l \in 1..Cardinality(places) : \E i \in DOMAIN shown : list[l] = shown[i]
  BY <1>3, <1>4, <1>5 DEF list
<1>8. list \in Seq(RouteRecords) /\ DOMAIN list = 1..Cardinality(places)
  BY <1>1, <1>6, <1>7
<1>9. Confirmed(list, rLoaded, rDelivered)
  BY <1>1, <1>7, <1>8 DEF Confirmed
<1> QED BY <1>2, <1>8, <1>9, RoutesReplaced

LEMMA RouteOfFacts ==
  ASSUME ResultsIInv, NEW id \in Results!Ids
  PROVE  /\ \E i \in DOMAIN Results!Displayed : Results!RouteOf(id) = Results!Displayed[i]
         /\ Results!RouteOf(id) \in RouteRecords /\ Results!RouteOf(id).id = id
<1> DEFINE shown == Results!Displayed
           place == CHOOSE j \in DOMAIN shown : shown[j].id = id
<1>1. \E j \in DOMAIN shown : shown[j].id = id
  BY DEF Results!Ids
<1>2. place \in DOMAIN shown /\ shown[place].id = id
  BY <1>1
<1>3. Results!RouteOf(id) = shown[place]
  BY DEF Results!RouteOf
<1>4. shown \in Seq(RouteRecords)
  BY ShownRoutes
<1> HIDE DEF shown, place
<1>5. shown[place] \in RouteRecords
  BY <1>2, <1>4
<1> QED BY <1>2, <1>3, <1>5 DEF shown

\* The answer of a send marks what it delivered, under the result it was sent from.
LEMMA AnswerKeeps ==
  ASSUME ResultsIInv, NEW flight \in rFlights, Results!SendAnswered(flight)
  PROVE  DraftIsSound'
<1>1. PICK sent \in SUBSET flight.ids :
        /\ rDelivered' = rDelivered \cup {[source |-> flight.source, id |-> id] : id \in sent}
        /\ Results!MarkSent(flight, sent)
  BY DEF Results!SendAnswered
<1>2. rLoaded' = rLoaded /\ flight.source \in Int /\ flight.source <= rLoaded /\ rLoaded \in Nat
  BY DEF Results!SendAnswered, ResultsIInv, Sends
<1>3. CASE sent = {}
  BY <1>1, <1>2, <1>3 DEF Results!MarkSent, ResultsIInv, DraftIsSound, Confirmed
<1>4. CASE sent # {}
  <2> DEFINE base == IF rDraft.source = flight.source THEN rDraft.routes ELSE Results!Displayed
             list == [i \in DOMAIN base |->
                        IF base[i].id \in sent THEN [base[i] EXCEPT !.sent = TRUE] ELSE base[i]]
  <2>1. rDraft' = [source |-> flight.source, routes |-> list]
    BY <1>1, <1>4 DEF Results!MarkSent, Results!SetRoutes
  <2>2. base \in Seq(RouteRecords)
    BY ShownRoutes DEF ResultsIInv, DraftIsSound
  <2>3. flight.source = rLoaded => Confirmed(base, rLoaded, rDelivered)
    BY ShownRoutes DEF Results!Displayed
  <2> HIDE DEF base
  <2>4. ASSUME NEW route \in RouteRecords
        PROVE  LET r == [route EXCEPT !.sent = TRUE]
               IN  r \in RouteRecords /\ r.id = route.id
    BY DEF RouteRecords
  <2>5. \A i \in DOMAIN base : base[i] \in RouteRecords
    BY <2>2
  <2>6. ASSUME NEW i \in DOMAIN base
        PROVE  /\ list[i] \in RouteRecords /\ list[i].id = base[i].id
               /\ list[i].sent => base[i].sent \/ base[i].id \in sent
    <3>1. CASE base[i].id \in sent
      <4>1. list[i] = [base[i] EXCEPT !.sent = TRUE]
        BY <3>1
      <4> HIDE DEF list
      <4> QED BY <2>4, <2>5, <3>1, <4>1
    <3>2. CASE base[i].id \notin sent
      BY <2>5, <3>2
    <3> QED BY <3>1, <3>2
  <2>7. DOMAIN list = DOMAIN base /\ list = [i \in DOMAIN base |-> list[i]]
    OBVIOUS
  <2> HIDE DEF list
  <2>8. list \in Seq(RouteRecords)
    BY <2>2, <2>6, <2>7
  <2>9. flight.source = rLoaded => Confirmed(list, rLoaded, rDelivered')
    BY <1>1, <2>3, <2>6, <2>7 DEF Confirmed
  <2> QED BY <1>2, <2>1, <2>8, <2>9 DEF DraftIsSound
<1> QED BY <1>3, <1>4

LEMMA FlightsKeep ==
  ASSUME ResultsIInv, UNCHANGED rLoaded,
         \/ rFlights' \subseteq rFlights
         \/ \E gone \in SUBSET rFlights :
              rFlights' = {[f EXCEPT !.mounted = FALSE] : f \in rFlights \ gone}
         \/ \E ids \in SUBSET Nat : rFlights' =
              rFlights \cup {[ids |-> ids, source |-> rLoaded, mounted |-> TRUE]}
  PROVE  rFlights' \subseteq Sends /\ \A f \in rFlights' : f.source <= rLoaded'
<1>1. rFlights \subseteq Sends /\ (\A f \in rFlights : f.source <= rLoaded) /\ rLoaded \in Nat
  BY DEF ResultsIInv
<1>2. ASSUME NEW gone \in SUBSET rFlights,
             rFlights' = {[f EXCEPT !.mounted = FALSE] : f \in rFlights \ gone}
      PROVE  rFlights' \subseteq Sends /\ \A f \in rFlights' : f.source <= rLoaded'
  <2>1. \A f \in rFlights : LET g == [f EXCEPT !.mounted = FALSE]
                            IN  g \in Sends /\ g.source = f.source
    BY <1>1 DEF Sends
  <2> QED BY <1>1, <1>2, <2>1
<1>3. ASSUME NEW ids \in SUBSET Nat,
             rFlights' = rFlights \cup {[ids |-> ids, source |-> rLoaded, mounted |-> TRUE]}
      PROVE  rFlights' \subseteq Sends /\ \A f \in rFlights' : f.source <= rLoaded'
  <2> DEFINE new == [ids |-> ids, source |-> rLoaded, mounted |-> TRUE]
  <2>1. new \in Sends /\ new.source = rLoaded
    BY <1>1 DEF Sends
  <2>2. rFlights' = rFlights \cup {new} /\ rLoaded' = rLoaded
    BY <1>3
  <2> HIDE DEF new
  <2> QED BY <1>1, <2>1, <2>2
<1> QED BY <1>1, <1>2, <1>3

LEMMA ResultsStepKeeps ==
  ASSUME ResultsIInv, [Results!Next]_Results!resultsVars
  PROVE  ResultsIInv'
<1>1. CASE Results!EditButton
  <2>1. /\ UNCHANGED <<rLoaded, rNextId, rDelivered, rFlights, rCards, rDialog>>
        /\ rDialog = "none"
        /\ Results!SavePin \/ UNCHANGED <<rDraft, rPending>>
    BY <1>1 DEF Results!EditButton, Results!SetEditMode, Results!sendVars, Results!Page
  <2>2. CASE UNCHANGED <<rDraft, rPending>>
    BY <2>1, <2>2 DEF ResultsIInv, DraftIsSound, Confirmed, CardsAreNotes, NothingWaits
  <2>3. CASE Results!SavePin
    <3>1. DraftIsSound' /\ rPending' = Results!NoPin
      BY <2>1, <2>3, SavePinKeeps
    <3>2. rPending' \in [id : Nat, pos : Positions]
      BY <3>1, ResultsAssumed DEF Results!NoPin, Results!ResultsAssumption
    <3> QED BY <2>1, <3>1, <3>2 DEF ResultsIInv, CardsAreNotes, NothingWaits
  <2> QED BY <2>1, <2>2, <2>3
<1>2. CASE Results!DragPin
  <2>1. PICK id \in Results!Ids, pos \in Positions : rPending' = [id |-> id, pos |-> pos]
    BY <1>2 DEF Results!DragPin
  <2>2. id \in Nat
    BY RouteOfFacts DEF RouteRecords
  <2> QED
    BY <1>2, <2>1, <2>2
    DEF Results!DragPin, Results!Page, Results!sendVars, ResultsIInv, DraftIsSound,
        Confirmed, CardsAreNotes, NothingWaits
<1>3. CASE Results!SavePinButton
  <2>1. DraftIsSound' /\ rPending' = Results!NoPin
    BY <1>3, SavePinKeeps DEF Results!SavePinButton, Results!sendVars
  <2>2. rPending' \in [id : Nat, pos : Positions]
    BY <2>1, ResultsAssumed DEF Results!NoPin, Results!ResultsAssumption
  <2> QED
    BY <1>3, <2>1, <2>2
    DEF Results!SavePinButton, Results!sendVars, ResultsIInv, CardsAreNotes, NothingWaits
<1>4. CASE Results!CancelPinButton \/ Results!ToggleSheet \/ Results!ToggleMenu
           \/ Results!ExportRoute
  <2>1. /\ UNCHANGED <<rLoaded, rNextId, rDraft, rDelivered, rFlights>>
        /\ UNCHANGED rPending \/ rPending' = Results!NoPin
        /\ UNCHANGED rCards \/ rCards' = Results!NoCards
        /\ UNCHANGED rDialog \/ rDialog' = "warning"
    BY <1>4 DEF Results!CancelPinButton, Results!ToggleSheet, Results!ToggleMenu,
                Results!ExportRoute, Results!sendVars
  <2>2. Results!NoPin \in [id : Nat, pos : Positions]
    BY ResultsAssumed DEF Results!NoPin, Results!ResultsAssumption
  <2> QED
    BY <2>1, <2>2
    DEF ResultsIInv, DraftIsSound, Confirmed, CardsAreNotes, NothingWaits, Results!NoCards
<1>5. CASE Results!ToggleCard \/ Results!TypeNote
  <2>1. /\ UNCHANGED <<rLoaded, rNextId, rDraft, rDelivered, rFlights, rPending, rDialog>>
        /\ \/ \E id \in Results!Ids : rCards' =
                IF id \in DOMAIN rCards THEN [c \in DOMAIN rCards \ {id} |-> rCards[c]]
                ELSE [c \in DOMAIN rCards \cup {id} |->
                        IF c = id THEN Results!RouteOf(id).note ELSE rCards[c]]
           \/ \E id \in DOMAIN rCards, note \in Notes : rCards' = [rCards EXCEPT ![id] = note]
    BY <1>5 DEF Results!ToggleCard, Results!TypeNote, Results!sendVars
  <2>2. \A id \in Results!Ids : Results!RouteOf(id).note \in Notes
    BY RouteOfFacts DEF RouteRecords
  <2>3. CardsAreNotes'
    BY <2>1, <2>2 DEF ResultsIInv, CardsAreNotes
  <2> QED BY <2>1, <2>3 DEF ResultsIInv, DraftIsSound, Confirmed, NothingWaits
<1>6. CASE Results!SaveNote
  BY <1>6, SaveNoteKeeps
  DEF Results!SaveNote, Results!editVars, Results!sendVars, ResultsIInv, CardsAreNotes,
      NothingWaits
<1>7. CASE Results!DuplicateRoute
  <2>1. DraftIsSound'
    BY <1>7, DuplicateKeeps
  <2>2. rNextId' = rNextId + 1 /\ UNCHANGED <<rLoaded, rPending, rCards, rDialog, rFlights>>
    BY <1>7 DEF Results!DuplicateRoute, Results!sendVars
  <2> QED BY <2>1, <2>2 DEF ResultsIInv, CardsAreNotes, NothingWaits
<1>8. CASE Results!DeleteRoute
  <2>1. DraftIsSound'
    BY <1>8, DeleteKeeps
  <2>2. rPending' = Results!NoPin \/ UNCHANGED rPending
    BY <1>8 DEF Results!DeleteRoute
  <2>3. Results!NoPin \in [id : Nat, pos : Positions]
    BY ResultsAssumed DEF Results!NoPin, Results!ResultsAssumption
  <2>4. CardsAreNotes'
    BY <1>8 DEF Results!DeleteRoute, ResultsIInv, CardsAreNotes
  <2> QED
    BY <1>8, <2>1, <2>2, <2>3, <2>4
    DEF Results!DeleteRoute, Results!sendVars, ResultsIInv, NothingWaits
<1>9. CASE Results!DistanceUpdate
  <2>1. rDraft' = [source |-> rLoaded, routes |-> Results!Displayed]
    BY <1>9, BaseIsShown DEF Results!DistanceUpdate, Results!SetRoutes
  <2>2. UNCHANGED <<rLoaded, rDelivered>>
    BY <1>9 DEF Results!DistanceUpdate, Results!sendVars
  <2>3. DraftIsSound'
    BY <2>1, <2>2, ShownRoutes, RoutesReplaced
  <2> QED
    BY <1>9, <2>3
    DEF Results!DistanceUpdate, Results!editVars, Results!sendVars, ResultsIInv,
        CardsAreNotes, NothingWaits
<1>10. CASE Results!ExportButton \/ Results!ChooseMethod
  BY <1>10
  DEF Results!ExportButton, Results!ChooseMethod, Results!Open, Results!Editing,
      Results!editVars, ResultsIInv, DraftIsSound, Confirmed, CardsAreNotes, NothingWaits
<1>11. CASE Results!DoneEditing
  <2>1. DraftIsSound' /\ rPending' = Results!NoPin
    BY <1>11, SavePinKeeps DEF Results!DoneEditing, Results!SetEditMode
  <2>2. rPending' \in [id : Nat, pos : Positions]
    BY <2>1, ResultsAssumed DEF Results!NoPin, Results!ResultsAssumption
  <2> QED
    BY <1>11, <2>1, <2>2 DEF Results!DoneEditing, ResultsIInv, CardsAreNotes, NothingWaits
<1>12. CASE Results!CloseDialog
  <2>1. rFlights' \subseteq Sends /\ \A f \in rFlights' : f.source <= rLoaded'
    <3>1. rFlights' = {[f EXCEPT !.mounted = FALSE] : f \in rFlights \ {}} /\ UNCHANGED rLoaded
      BY <1>12 DEF Results!CloseDialog, Results!Detached
    <3> QED BY <3>1, FlightsKeep
  <2> QED
    BY <1>12, <2>1
    DEF Results!CloseDialog, Results!Open, Results!editVars, ResultsIInv, DraftIsSound,
        Confirmed, CardsAreNotes, NothingWaits
<1>13. CASE Results!ToggleSelected \/ Results!ExportFiles
  BY <1>13
  DEF Results!ToggleSelected, Results!ExportFiles, Results!Open, Results!editVars,
      ResultsIInv, DraftIsSound, Confirmed, CardsAreNotes, NothingWaits
<1>14. CASE Results!TypePhone
  BY <1>14, TypePhoneKeeps
  DEF Results!TypePhone, Results!editVars, Results!sendVars, ResultsIInv, CardsAreNotes,
      NothingWaits
<1>15. CASE Results!Send
  <2>1. Results!Ids \subseteq Nat
    BY RouteOfFacts DEF RouteRecords
  <2>2. rFlights' \subseteq Sends /\ \A f \in rFlights' : f.source <= rLoaded'
    BY <1>15, <2>1, FlightsKeep DEF Results!Send
  <2> QED
    BY <1>15, <2>2
    DEF Results!Send, Results!editVars, ResultsIInv, DraftIsSound, Confirmed,
        CardsAreNotes, NothingWaits
<1>16. ASSUME NEW flight \in rFlights, Results!SendAnswered(flight) PROVE ResultsIInv'
  <2>1. DraftIsSound'
    BY <1>16, AnswerKeeps
  <2>2. /\ UNCHANGED <<rLoaded, rNextId, rPending, rCards>>
        /\ rDialog' = "none" \/ UNCHANGED rDialog
        /\ \/ rFlights' = {[f EXCEPT !.mounted = FALSE] : f \in rFlights \ {flight}}
           \/ rFlights' = rFlights \ {flight}
    BY <1>16 DEF Results!SendAnswered, Results!Open, Results!editVars
  <2>3. rFlights' \subseteq Sends /\ \A f \in rFlights' : f.source <= rLoaded'
    BY <2>2, FlightsKeep
  <2> QED BY <2>1, <2>2, <2>3 DEF ResultsIInv, CardsAreNotes, NothingWaits
<1>17. CASE Results!NewResults
  BY <1>17
  DEF Results!NewResults, Results!editVars, Results!sendVars, ResultsIInv, DraftIsSound,
      Sends, CardsAreNotes, NothingWaits
<1>18. CASE UNCHANGED Results!resultsVars
  BY <1>18
  DEF Results!resultsVars, Results!editVars, Results!sendVars, ResultsIInv, DraftIsSound,
      Confirmed, CardsAreNotes, NothingWaits
<1> QED
  BY <1>1, <1>2, <1>3, <1>4, <1>5, <1>6, <1>7, <1>8, <1>9, <1>10, <1>11, <1>12, <1>13,
     <1>14, <1>15, <1>16, <1>17, <1>18
  DEF Results!Next

LEMMA ResultsInvariance == Results!Spec => []ResultsIInv
<1>1. Results!Init => ResultsIInv
  <2> SUFFICES ASSUME Results!Init PROVE ResultsIInv
    OBVIOUS
  <2>1. /\ rLoaded \in Nat /\ rDraft = [source |-> -1, routes |-> <<>>]
        /\ rPending = Results!NoPin /\ rCards = Results!NoCards /\ rFlights = {}
        /\ rDialog = "none" /\ rNextId = BaseRoutes + 1
    BY DEF Results!Init
  <2>2. BaseRoutes \in Nat /\ 0 \in Positions
    BY ResultsAssumed DEF Results!ResultsAssumption
  <2>3. DraftIsSound
    BY <2>1 DEF DraftIsSound, Confirmed
  <2> QED
    BY <2>1, <2>2, <2>3
    DEF ResultsIInv, CardsAreNotes, NothingWaits, Results!NoPin, Results!NoCards
<1>2. ResultsIInv /\ [Results!Next]_Results!resultsVars => ResultsIInv'
  BY ResultsStepKeeps
<1> QED
  BY <1>1, <1>2, PTL DEF Results!Spec

\* A route wears the badge only if a message with it was confirmed: for any number of
\* routes, copies, optimisations and sends under way.
THEOREM BadgesAreEarned == Spec => []SentMeansDelivered
<1>1. ResultsIInv => SentMeansDelivered
  BY ShownRoutes DEF SentMeansDelivered, Results!SentMeansDelivered, Confirmed
<1> QED
  BY <1>1, ResultsInvariance, PartsKeepToTheirs, PTL

\* A route without a pin that waits leaves the page as it is shown.
LEMMA ExportedIsShown ==
  ASSUME ResultsIInv, rPending = Results!NoPin, NEW id \in Results!Ids
  PROVE  Results!Exported(Results!RouteOf(id)) \in Results!View
<1> DEFINE route == Results!RouteOf(id)
<1>1. route \in RouteRecords /\ \E i \in DOMAIN Results!Displayed : route = Results!Displayed[i]
  BY RouteOfFacts
<1>2. Results!Shown(route) \in Results!View
  BY <1>1 DEF Results!View
<1> HIDE DEF route
<1>3. rPending.id # route.id
  BY <1>1 DEF RouteRecords, Results!NoPin
<1>4. Results!Shown(route) = Results!Exported(route)
  BY <1>3 DEF Results!Shown, Results!Exported
<1> QED BY <1>2, <1>4 DEF route

\* No file or message differs from what the page shows: a moved pin is saved, or the
\* warning comes first, on every way to an export.
THEOREM ExportsAreWhatIsSeen == Spec => ExportMatchesView
<1>1. ResultsIInv /\ [Results!Next]_Results!resultsVars
        => [rOut' \subseteq Results!View]_Results!resultsVars
  <2> SUFFICES ASSUME ResultsIInv, Results!Next PROVE rOut' \subseteq Results!View
    BY Zenon
  <2>1. CASE Results!ExportRoute
    <3>1. CASE rOut' = {}
      BY <3>1
    <3>2. CASE rOut' # {}
      <4>1. ~Results!Editing /\ rMenu \in Results!Ids
            /\ rOut' = {Results!Exported(Results!RouteOf(rMenu))}
        BY <2>1, <3>2 DEF Results!ExportRoute
      <4>2. rPending = Results!NoPin
        BY <4>1 DEF Results!Editing
      <4> QED BY <4>1, <4>2, ExportedIsShown
    <3> QED BY <3>1, <3>2
  <2>2. CASE Results!ExportFiles \/ Results!Send
    <3>1. rDialog \in {"export", "send"}
      BY <2>2 DEF Results!ExportFiles, Results!Send
    <3>2. rPending = Results!NoPin
      BY <3>1 DEF ResultsIInv, NothingWaits
    <3>3. PICK ids \in SUBSET Results!Ids :
            rOut' = {Results!Exported(Results!RouteOf(id)) : id \in ids}
      BY <2>2 DEF Results!ExportFiles, Results!Send
    <3> QED BY <3>2, <3>3, ExportedIsShown
  <2>3. CASE rOut' = {}
    BY <2>3
  <2>4. \/ Results!ExportRoute \/ Results!ExportFiles \/ Results!Send
        \/ rOut' = {}
    BY DEF Results!Next, Results!EditButton, Results!DragPin, Results!SavePinButton,
           Results!CancelPinButton, Results!ToggleSheet, Results!ToggleCard,
           Results!TypeNote, Results!SaveNote, Results!ToggleMenu, Results!DuplicateRoute,
           Results!DeleteRoute, Results!DistanceUpdate, Results!ExportButton,
           Results!DoneEditing, Results!ChooseMethod, Results!CloseDialog,
           Results!ToggleSelected, Results!TypePhone, Results!SendAnswered,
           Results!NewResults
  <2> QED BY <2>1, <2>2, <2>3, <2>4
<1>2. []ResultsIInv /\ [][Results!Next]_Results!resultsVars => Results!ExportMatchesView
  BY <1>1, PTL DEF Results!ExportMatchesView
<1>3. Results!Spec => [][Results!Next]_Results!resultsVars
  BY DEF Results!Spec
<1> QED
  BY <1>2, <1>3, ResultsInvariance, PartsKeepToTheirs, PTL DEF ExportMatchesView

-----------------------------------------------------------------------------
(* The driver's web pages.  A serial is in one place at a time: a file     *)
(* being read, the handed file, or the routes saved and shown; so a file   *)
(* that arrives never carries the serial of work already under way.        *)

DriverRoutes ==
  {Driver!NoRoute} \cup
    [serial : Nat \ {0}, note : [DriverStops -> Int],
     status : [DriverStops -> {"pending", "completed", "failed", "other"}]]

FileReads ==
  [kind : FileKinds \cup {"none"}, serial : Nat \ {0}, mounted : BOOLEAN,
   by : {"upload", "assist"}]

\* What is still on its way, as far as the uploads, the handed file and the routes go.
ReadsAreApart(files) ==
  /\ files \subseteq FileReads
  /\ \A r \in files : /\ r.serial <= dUploads
                      /\ r.serial # dHanded.serial
                      /\ r.serial # dSaved.serial
                      /\ r.serial # dRoute.serial
  /\ \A r, q \in files : r.serial = q.serial => r = q

\* The file that was handed over is not the one of the routes.
HandedIsApart ==
  /\ dHanded \in [kind : FileKinds \cup {"none"}, serial : Nat]
  /\ dHanded.serial <= dUploads
  /\ dHanded # Driver!NoFile =>
       dHanded.serial # 0 /\ dHanded.serial # dSaved.serial /\ dHanded.serial # dRoute.serial

RoutesAreOne ==
  /\ dSaved \in DriverRoutes /\ dRoute \in DriverRoutes
  /\ dSaved.serial <= dUploads /\ dRoute.serial <= dUploads
  /\ dRoute # Driver!NoRoute /\ dRoute.serial = dSaved.serial => dRoute = dSaved

ReportIsPending ==
  /\ dOpen \in DriverStops \cup {"none"}
  /\ dReport # Driver!NoReport =>
       /\ dReport.stop \in DriverStops
       /\ dReport \in [stop : DriverStops, other : BOOLEAN]
       /\ dRoute # Driver!NoRoute /\ dRoute.status[dReport.stop] = "pending"

DriverIInv ==
  /\ dUploads \in Nat
  /\ dChosen \in FileKinds \cup {"none"}
  /\ ReadsAreApart(dReads)
  /\ HandedIsApart
  /\ RoutesAreOne
  /\ ReportIsPending

\* What a step may do to the saved route.
DoneIsKept ==
  dSaved'.serial = dSaved.serial =>
    \A s \in DOMAIN dSaved.status :
      dSaved.status[s] # "pending" => dSaved'.status[s] = dSaved.status[s]

\* The reads go on without the page.
Abandoned == {[r EXCEPT !.mounted = FALSE] : r \in dReads}

LEMMA RoutesOfFiles ==
  ASSUME NEW file, file.serial \in Nat \ {0}
  PROVE  /\ Driver!RouteOf(file) \in DriverRoutes
         /\ Driver!RouteOf(file) # Driver!NoRoute
         /\ Driver!RouteOf(file).serial = file.serial
         /\ \A s \in DriverStops : Driver!RouteOf(file).status[s] = "pending"
         /\ Driver!FirstStop \in DriverStops
<1>1. Driver!FirstStop \in DriverStops
  BY DriverAssumed DEF Driver!FirstStop, Driver!DriverAssumption
<1>2. Driver!RouteOf(file).serial # Driver!NoRoute.serial
  BY DEF Driver!RouteOf, Driver!NoRoute
<1> QED BY <1>1, <1>2 DEF DriverRoutes, Driver!RouteOf

LEMMA WorkedSerials ==
  ASSUME NEW r \in DriverRoutes
  PROVE  /\ r.serial \in Nat
         /\ r # Driver!NoRoute <=> r.serial # 0
BY DEF DriverRoutes, Driver!NoRoute

\* The reads of a page that is left are dropped, or run on without the page.
LEMMA LeftReads ==
  ASSUME ReadsAreApart(dReads)
  PROVE  /\ ReadsAreApart({})
         /\ ReadsAreApart(Abandoned)
<1>1. ReadsAreApart({})
  BY DEF ReadsAreApart
<1>2. \A r \in FileReads : LET q == [r EXCEPT !.mounted = FALSE]
                           IN  q \in FileReads /\ q.serial = r.serial
  BY DEF FileReads
<1> DEFINE left == Abandoned
<1>3. ReadsAreApart(left)
  <2>1. \A q \in left : \E r \in dReads : q = [r EXCEPT !.mounted = FALSE]
    BY DEF Abandoned
  <2>2. \A q \in left : \E r \in dReads : /\ q = [r EXCEPT !.mounted = FALSE]
                                         /\ q \in FileReads /\ q.serial = r.serial
    <3> SUFFICES ASSUME NEW q \in left
                 PROVE  \E r \in dReads : /\ q = [r EXCEPT !.mounted = FALSE]
                                          /\ q \in FileReads /\ q.serial = r.serial
      OBVIOUS
    <3>1. PICK r \in dReads : q = [r EXCEPT !.mounted = FALSE]
      BY <2>1
    <3>2. r \in FileReads
      BY DEF ReadsAreApart
    <3> QED BY <1>2, <3>1, <3>2
  <2> HIDE DEF left
  <2>3. left \subseteq FileReads
    BY <2>2
  <2>4. ASSUME NEW q \in left
        PROVE  /\ q.serial <= dUploads /\ q.serial # dHanded.serial
               /\ q.serial # dSaved.serial /\ q.serial # dRoute.serial
    BY <2>2 DEF ReadsAreApart
  <2>5. ASSUME NEW p \in left, NEW q \in left, p.serial = q.serial
        PROVE  p = q
    <3>1. PICK r \in dReads : p = [r EXCEPT !.mounted = FALSE] /\ p.serial = r.serial
      BY <2>2
    <3>2. PICK t \in dReads : q = [t EXCEPT !.mounted = FALSE] /\ q.serial = t.serial
      BY <2>2
    <3>3. r = t
      BY <2>5, <3>1, <3>2 DEF ReadsAreApart
    <3> QED BY <3>1, <3>2, <3>3
  <2> QED BY <2>3, <2>4, <2>5 DEF ReadsAreApart
<1> QED BY <1>1, <1>3

\* Arriving takes the handed file, or shows what was saved.
LEMMA ArriveKeeps ==
  ASSUME DriverIInv, Driver!Arrive, UNCHANGED dUploads,
         dReads' = {} \/ dReads' = Abandoned
  PROVE  DriverIInv' /\ DoneIsKept
<1>1. /\ dReport' = Driver!NoReport /\ dChosen' = "none" /\ dRoute' = dSaved'
      /\ dOpen' = IF dRoute' = Driver!NoRoute THEN "none" ELSE Driver!FirstStop
  BY DEF Driver!Arrive
<1>2. ReadsAreApart(dReads')
  BY LeftReads DEF DriverIInv
<1>3. Driver!FirstStop \in DriverStops
  BY DriverAssumed DEF Driver!FirstStop, Driver!DriverAssumption
<1>4. ReportIsPending'
  BY <1>1, <1>3 DEF ReportIsPending
<1>5. CASE dHanded # Driver!NoFile /\ Driver!Readable(dHanded.kind)
  <2>1. dSaved' = Driver!RouteOf(dHanded) /\ dHanded' = Driver!NoFile
    BY <1>5 DEF Driver!Arrive
  <2>2. /\ dHanded.serial \in Nat \ {0} /\ dHanded.serial <= dUploads
        /\ dHanded.serial # dSaved.serial
    BY <1>5 DEF DriverIInv, HandedIsApart
  <2>3. dSaved' \in DriverRoutes /\ dSaved'.serial = dHanded.serial
    BY <2>1, <2>2, RoutesOfFiles
  <2>4. ReadsAreApart(dReads)' /\ HandedIsApart'
    BY <1>1, <1>2, <2>1, <2>2, <2>3
    DEF DriverIInv, ReadsAreApart, HandedIsApart, Driver!NoFile, FileReads
  <2> QED
    BY <1>1, <1>4, <2>2, <2>3, <2>4 DEF DriverIInv, RoutesAreOne, DoneIsKept
<1>6. CASE ~(dHanded # Driver!NoFile /\ Driver!Readable(dHanded.kind))
  <2>1. dSaved' = dSaved /\ dHanded' = dHanded
    BY <1>6 DEF Driver!Arrive
  <2>2. ReadsAreApart(dReads)' /\ HandedIsApart'
    BY <1>1, <1>2, <2>1 DEF DriverIInv, ReadsAreApart, HandedIsApart
  <2> QED
    BY <1>1, <1>4, <2>1, <2>2 DEF DriverIInv, RoutesAreOne, DoneIsKept
<1> QED BY <1>5, <1>6

\* Leaving for another page shows no route.
LEMMA LeaveKeeps ==
  ASSUME DriverIInv, Driver!Leave, dChosen' = dChosen \/ dChosen' = "none",
         dSaved' = dSaved \/ (dSaved' = dRoute /\ dRoute # Driver!NoRoute),
         UNCHANGED <<dHanded, dUploads>>,
         \/ dReads' = {} \/ dReads' = dReads
         \/ dReads' = Abandoned
  PROVE  DriverIInv' /\ DoneIsKept
<1>1. dRoute' = Driver!NoRoute /\ dOpen' = "none" /\ dReport' = Driver!NoReport
  BY DEF Driver!Leave
<1>2. ReadsAreApart(dReads')
  BY LeftReads DEF DriverIInv
<1>3. Driver!NoRoute \in DriverRoutes /\ Driver!NoRoute.serial = 0
  BY DEF DriverRoutes, Driver!NoRoute
<1>4. dSaved' \in DriverRoutes /\ dSaved'.serial <= dUploads /\ DoneIsKept
  BY DEF DriverIInv, RoutesAreOne, DoneIsKept
<1>5. ReadsAreApart(dReads)'
  BY <1>1, <1>2, <1>3 DEF ReadsAreApart, FileReads
<1>6. HandedIsApart'
  BY <1>1, <1>3 DEF DriverIInv, HandedIsApart
<1> QED
  BY <1>1, <1>3, <1>4, <1>5, <1>6 DEF DriverIInv, RoutesAreOne, ReportIsPending

\* A change of the route on the page is a change of the saved one.
LEMMA UpdateKeeps ==
  ASSUME DriverIInv, dRoute # Driver!NoRoute, NEW r \in DriverRoutes, Driver!Update(r),
         r.serial = dRoute.serial,
         \A s \in DriverStops : dRoute.status[s] # "pending" => r.status[s] = dRoute.status[s],
         dReport' = Driver!NoReport, dOpen' \in DriverStops \cup {"none"},
         UNCHANGED <<dChosen, dReads, dHanded, dUploads>>
  PROVE  DriverIInv' /\ DoneIsKept
<1>1. dRoute' = r /\ dSaved' = r
  BY DEF Driver!Update
<1>2. DoneIsKept
  <2>1. CASE dSaved.serial = r.serial
    <3>1. dSaved = dRoute /\ DOMAIN dRoute.status = DriverStops
      BY <2>1 DEF DriverIInv, RoutesAreOne, DriverRoutes
    <3> QED BY <1>1, <3>1 DEF DoneIsKept
  <2>2. CASE dSaved.serial # r.serial
    BY <1>1, <2>2 DEF DoneIsKept
  <2> QED BY <2>1, <2>2
<1>3. ReadsAreApart(dReads)' /\ HandedIsApart'
  BY <1>1 DEF DriverIInv, ReadsAreApart, HandedIsApart
<1>4. RoutesAreOne'
  BY <1>1 DEF DriverIInv, RoutesAreOne
<1> QED
  BY <1>2, <1>3, <1>4 DEF DriverIInv, ReportIsPending

LEMMA DriverStepKeeps ==
  ASSUME DriverIInv, [Driver!Next]_Driver!driverVars
  PROVE  DriverIInv' /\ DoneIsKept
<1> DEFINE Rest == UNCHANGED <<dHanded, dSaved, dRoute, dUploads>>
<1>1. CASE Driver!Visit
  <2>1. dReads' = {} \/ dReads' = Abandoned
    BY <1>1 DEF Driver!Visit, Abandoned
  <2>2. CASE Driver!Arrive /\ UNCHANGED dUploads
    BY <2>1, <2>2, ArriveKeeps
  <2>3. CASE Driver!ToUpload /\ Driver!Leave /\ UNCHANGED <<dHanded, dSaved, dUploads>>
    <3>1. dChosen' = "none"
      BY <2>3 DEF Driver!ToUpload
    <3> QED BY <2>1, <2>3, <3>1, LeaveKeeps
  <2> QED BY <1>1, <2>2, <2>3 DEF Driver!Visit
<1>2. ASSUME Rest, UNCHANGED <<dReads, dOpen, dReport>>, dChosen' \in FileKinds \cup {"none"}
      PROVE  DriverIInv' /\ DoneIsKept
  BY <1>2
  DEF DriverIInv, ReadsAreApart, HandedIsApart, RoutesAreOne, ReportIsPending, DoneIsKept
<1>3. CASE Driver!ChooseUpload \/ Driver!RemoveUpload \/ Driver!BackToUpload
           \/ UNCHANGED Driver!driverVars
  BY <1>2, <1>3
  DEF Driver!ChooseUpload, Driver!RemoveUpload, Driver!BackToUpload, Driver!ToUpload,
      Driver!driverVars, DriverIInv
<1>4. ASSUME NEW kind \in FileKinds \cup {"none"}, NEW by \in {"upload", "assist"},
             dUploads' = dUploads + 1,
             dReads' = dReads \cup
               {[kind |-> kind, serial |-> dUploads', mounted |-> TRUE, by |-> by]},
             UNCHANGED <<dChosen, dHanded, dSaved, dRoute, dOpen, dReport>>
      PROVE  DriverIInv' /\ DoneIsKept
  <2> DEFINE new == [kind |-> kind, serial |-> dUploads', mounted |-> TRUE, by |-> by]
  <2>1. /\ dUploads \in Nat /\ ReadsAreApart(dReads)
        /\ dHanded.serial \in Nat /\ dHanded.serial <= dUploads
        /\ dSaved.serial \in Nat /\ dSaved.serial <= dUploads
        /\ dRoute.serial \in Nat /\ dRoute.serial <= dUploads
    BY WorkedSerials DEF DriverIInv, HandedIsApart, RoutesAreOne
  <2>2. new \in FileReads /\ new.serial = dUploads + 1
    BY <1>4, <2>1 DEF FileReads
  <2>3. dReads' = dReads \cup {new}
    BY <1>4
  <2> HIDE DEF new
  <2>4. ReadsAreApart(dReads)'
    BY <1>4, <2>1, <2>2, <2>3 DEF ReadsAreApart, FileReads
  <2>5. HandedIsApart' /\ RoutesAreOne' /\ ReportIsPending'
    BY <1>4, <2>1 DEF DriverIInv, HandedIsApart, RoutesAreOne, ReportIsPending
  <2> QED BY <1>4, <2>1, <2>4, <2>5 DEF DriverIInv, DoneIsKept
<1>5. CASE Driver!Continue
  BY <1>4, <1>5 DEF Driver!Continue, DriverIInv
<1>6. CASE Driver!CancelUpload
  <2>1. ReadsAreApart(dReads')
    BY <1>6, LeftReads DEF Driver!CancelUpload, DriverIInv, Abandoned
  <2> QED
    BY <1>6, <2>1
    DEF Driver!CancelUpload, Driver!ToUpload, DriverIInv, ReadsAreApart, HandedIsApart,
        RoutesAreOne, ReportIsPending, DoneIsKept
<1>7. CASE Driver!View
  <2>1. dHanded' = Driver!NoFile /\ Driver!NoFile.serial = 0
        /\ UNCHANGED <<dChosen, dReads, dSaved, dRoute, dOpen, dReport, dUploads>>
    BY <1>7 DEF Driver!View, Driver!NoFile
  <2>2. HandedIsApart'
    BY <2>1 DEF HandedIsApart, DriverIInv, Driver!NoFile
  <2>3. ReadsAreApart(dReads)'
    BY <2>1 DEF ReadsAreApart, DriverIInv, FileReads
  <2> QED
    BY <2>1, <2>2, <2>3 DEF DriverIInv, RoutesAreOne, ReportIsPending, DoneIsKept
<1>8. CASE Driver!PickRoute
  <2>1. PICK kind \in FileKinds :
          IF kind = "good" \/ kind = "bad"
            THEN dReads' = dReads \cup
                   {[kind |-> kind, serial |-> dUploads', mounted |-> TRUE, by |-> "assist"]}
            ELSE dReads' = dReads
    BY <1>8 DEF Driver!PickRoute
  <2>2. dUploads' = dUploads + 1
        /\ UNCHANGED <<dChosen, dHanded, dSaved, dRoute, dOpen, dReport>>
    BY <1>8 DEF Driver!PickRoute
  <2>3. CASE dReads' = dReads
    <3>1. dUploads \in Nat
      BY DEF DriverIInv
    <3>2. ReadsAreApart(dReads)'
      BY <2>2, <2>3, <3>1 DEF DriverIInv, ReadsAreApart, FileReads
    <3>3. HandedIsApart' /\ RoutesAreOne'
      BY <2>2, <3>1, WorkedSerials DEF DriverIInv, HandedIsApart, RoutesAreOne
    <3> QED BY <2>2, <3>1, <3>2, <3>3 DEF DriverIInv, ReportIsPending, DoneIsKept
  <2> QED BY <1>4, <2>1, <2>2, <2>3
<1>9. CASE Driver!ToggleStop
  <2>1. dOpen' \in DriverStops \cup {"none"}
    BY <1>9 DEF Driver!ToggleStop
  <2> QED
    BY <1>9, <2>1
    DEF Driver!ToggleStop, DriverIInv, ReadsAreApart, HandedIsApart, RoutesAreOne,
        ReportIsPending, DoneIsKept
<1>10. CASE Driver!ChangeNote
  <2> DEFINE noted == [dRoute EXCEPT !.note[dOpen] = 1 - @]
  <2>1. noted \in DriverRoutes /\ noted.serial = dRoute.serial
        /\ noted.status = dRoute.status
    BY <1>10
    DEF Driver!ChangeNote, Driver!Driving, DriverIInv, RoutesAreOne, DriverRoutes
  <2>2. dRoute # Driver!NoRoute /\ Driver!Update(noted) /\ dReport' = Driver!NoReport
        /\ UNCHANGED <<dChosen, dReads, dHanded, dOpen, dUploads>>
    BY <1>10 DEF Driver!ChangeNote, Driver!Driving
  <2> HIDE DEF noted
  <2> QED BY <2>1, <2>2, UpdateKeeps DEF DriverIInv, ReportIsPending
<1>11. CASE Driver!Deliver
  <2> DEFINE done == [dRoute EXCEPT !.status[dOpen] = "completed"]
  <2>1. /\ done \in DriverRoutes /\ done.serial = dRoute.serial
        /\ \A s \in DriverStops : s # dOpen => done.status[s] = dRoute.status[s]
        /\ dRoute.status[dOpen] = "pending"
    BY <1>11
    DEF Driver!Deliver, Driver!Pending, Driver!Driving, DriverIInv, RoutesAreOne,
        DriverRoutes
  <2>2. dRoute # Driver!NoRoute /\ Driver!Update(done) /\ dReport' = Driver!NoReport
        /\ dOpen' = "none" /\ UNCHANGED <<dChosen, dReads, dHanded, dUploads>>
    BY <1>11 DEF Driver!Deliver, Driver!Driving
  <2> HIDE DEF done
  <2> QED BY <2>1, <2>2, UpdateKeeps
<1>12. CASE Driver!OpenReport
  <2>1. /\ dRoute # Driver!NoRoute /\ dRoute.status[dOpen] = "pending"
        /\ dOpen \in DriverStops /\ dReport' = [stop |-> dOpen, other |-> FALSE]
        /\ UNCHANGED <<dChosen, dReads, dHanded, dSaved, dRoute, dOpen, dUploads>>
    BY <1>12
    DEF Driver!OpenReport, Driver!Driving, Driver!Pending, DriverIInv, ReportIsPending
  <2>2. ReportIsPending'
    BY <2>1 DEF ReportIsPending
  <2> QED
    BY <2>1, <2>2 DEF DriverIInv, ReadsAreApart, HandedIsApart, RoutesAreOne, DoneIsKept
<1>13. CASE Driver!EditReport
  <2>1. /\ dReport # Driver!NoReport
        /\ dReport' = [dReport EXCEPT !.other = ~@] \/ dReport' = Driver!NoReport
        /\ UNCHANGED <<dChosen, dReads, dHanded, dSaved, dRoute, dOpen, dUploads>>
    BY <1>13 DEF Driver!EditReport
  <2>2. dReport \in [stop : DriverStops, other : BOOLEAN]
    BY <2>1 DEF DriverIInv, ReportIsPending
  <2>3. LET edited == [dReport EXCEPT !.other = ~@]
        IN  edited \in [stop : DriverStops, other : BOOLEAN] /\ edited.stop = dReport.stop
    BY <2>2
  <2>4. ReportIsPending'
    BY <2>1, <2>2, <2>3 DEF DriverIInv, ReportIsPending
  <2> QED
    BY <2>1, <2>4 DEF DriverIInv, ReadsAreApart, HandedIsApart, RoutesAreOne, DoneIsKept
<1>14. CASE Driver!SubmitReport
  <2> DEFINE outcome == IF dReport.other THEN "other" ELSE "failed"
             done == [dRoute EXCEPT !.status[dReport.stop] = outcome]
  <2>1. /\ dRoute # Driver!NoRoute /\ dRoute.status[dReport.stop] = "pending"
        /\ outcome \in {"other", "failed"}
    BY <1>14 DEF Driver!SubmitReport, DriverIInv, ReportIsPending
  <2>2. Driver!Update(done)
    BY <1>14 DEF Driver!SubmitReport
  <2> HIDE DEF outcome
  <2>3. /\ done \in DriverRoutes /\ done.serial = dRoute.serial
        /\ \A s \in DriverStops : s # dReport.stop => done.status[s] = dRoute.status[s]
    BY <2>1 DEF DriverIInv, RoutesAreOne, DriverRoutes
  <2>4. dReport' = Driver!NoReport /\ dOpen' = "none"
        /\ UNCHANGED <<dChosen, dReads, dHanded, dUploads>>
    BY <1>14 DEF Driver!SubmitReport
  <2> HIDE DEF done
  <2> QED BY <2>1, <2>2, <2>3, <2>4, UpdateKeeps
<1>15. CASE Driver!Finish
  <2>1. /\ dSaved' = dRoute /\ dRoute # Driver!NoRoute /\ Driver!Leave
        /\ dReads' = Abandoned
        /\ UNCHANGED <<dChosen, dHanded, dUploads>>
    BY <1>15 DEF Driver!Finish, Driver!Driving, Abandoned
  <2> QED BY <2>1, LeaveKeeps DEF DriverIInv
<1>16. ASSUME NEW r \in dReads, Driver!HandOver(r)
       PROVE  DriverIInv' /\ DoneIsKept
  <2>1. /\ dReads' = dReads \ {r}
        /\ UNCHANGED <<dSaved, dRoute, dOpen, dReport, dUploads>>
    BY <1>16 DEF Driver!HandOver
  <2>2. /\ ReadsAreApart(dReads) /\ r \in FileReads /\ r.serial <= dUploads
        /\ r.serial # dSaved.serial /\ r.serial # dRoute.serial
        /\ \A q \in dReads \ {r} : q.serial # r.serial
    BY DEF DriverIInv, ReadsAreApart
  <2>3. dChosen' \in FileKinds \cup {"none"}
    BY <1>16 DEF Driver!HandOver, DriverIInv
  <2>4. CASE dHanded' = dHanded
    BY <2>1, <2>3, <2>4
    DEF DriverIInv, ReadsAreApart, HandedIsApart, RoutesAreOne, ReportIsPending, DoneIsKept
  <2>5. CASE dHanded' = [kind |-> r.kind, serial |-> r.serial]
    <3>1. HandedIsApart'
      BY <2>1, <2>2, <2>5 DEF HandedIsApart, FileReads
    <3>2. ReadsAreApart(dReads)'
      BY <2>1, <2>2, <2>5 DEF ReadsAreApart
    <3> QED
      BY <2>1, <2>3, <3>1, <3>2 DEF DriverIInv, RoutesAreOne, ReportIsPending, DoneIsKept
  <2> QED BY <1>16, <2>4, <2>5 DEF Driver!HandOver
<1>17. ASSUME NEW r \in dReads, Driver!RouteRead(r)
       PROVE  DriverIInv' /\ DoneIsKept
  <2>1. /\ dReads' = dReads \ {r}
        /\ UNCHANGED <<dChosen, dHanded, dReport, dUploads>>
    BY <1>17 DEF Driver!RouteRead
  <2>2. /\ ReadsAreApart(dReads) /\ r \in FileReads /\ r.serial <= dUploads
        /\ r.serial # dSaved.serial /\ r.serial # dRoute.serial
        /\ r.serial # dHanded.serial /\ r.serial \in Nat \ {0}
        /\ \A q \in dReads \ {r} : q.serial # r.serial
    BY DEF DriverIInv, ReadsAreApart, FileReads
  <2> DEFINE read == Driver!RouteOf(r)
  <2>3. /\ read \in DriverRoutes /\ read # Driver!NoRoute /\ read.serial = r.serial
        /\ \A s \in DriverStops : read.status[s] = "pending"
        /\ Driver!FirstStop \in DriverStops
    BY <2>2, RoutesOfFiles
  <2> HIDE DEF read
  <2>4. CASE UNCHANGED <<dSaved, dRoute, dOpen>>
    BY <2>1, <2>4
    DEF DriverIInv, ReadsAreApart, HandedIsApart, RoutesAreOne, ReportIsPending, DoneIsKept
  <2>5. CASE dSaved' = read /\ UNCHANGED <<dRoute, dOpen>>
    <3>1. ReadsAreApart(dReads)' /\ HandedIsApart'
      BY <2>1, <2>2, <2>3, <2>5 DEF DriverIInv, ReadsAreApart, HandedIsApart
    <3>2. RoutesAreOne' /\ DoneIsKept
      BY <2>1, <2>2, <2>3, <2>5 DEF DriverIInv, RoutesAreOne, DoneIsKept
    <3> QED BY <2>1, <2>5, <3>1, <3>2 DEF DriverIInv, ReportIsPending
  <2>6. CASE dSaved' = read /\ dRoute' = read /\ dOpen' = Driver!FirstStop
    <3>1. ReadsAreApart(dReads)' /\ HandedIsApart'
      BY <2>1, <2>2, <2>3, <2>6 DEF DriverIInv, ReadsAreApart, HandedIsApart
    <3>2. RoutesAreOne' /\ DoneIsKept
      BY <2>1, <2>2, <2>3, <2>6 DEF DriverIInv, RoutesAreOne, DoneIsKept
    <3>3. ReportIsPending'
      BY <2>1, <2>3, <2>6 DEF DriverIInv, ReportIsPending
    <3> QED BY <2>1, <3>1, <3>2, <3>3 DEF DriverIInv
  <2> QED BY <1>17, <2>4, <2>5, <2>6 DEF Driver!RouteRead, read
<1> HIDE DEF Rest
<1> QED
  BY <1>1, <1>3, <1>5, <1>6, <1>7, <1>8, <1>9, <1>10, <1>11, <1>12, <1>13, <1>14, <1>15,
     <1>16, <1>17
  DEF Driver!Next

LEMMA DriverInvariance == Driver!Spec => []DriverIInv
<1>1. Driver!Init => DriverIInv
  <2> SUFFICES ASSUME Driver!Init PROVE DriverIInv
    OBVIOUS
  <2>1. /\ dChosen = "none" /\ dReads = {} /\ dHanded = Driver!NoFile /\ dUploads = 0
        /\ dSaved = Driver!NoRoute /\ dRoute = Driver!NoRoute /\ dOpen = "none"
        /\ dReport = Driver!NoReport
    BY DEF Driver!Init
  <2>2. Driver!NoRoute \in DriverRoutes /\ Driver!NoRoute.serial = 0
    BY DEF DriverRoutes, Driver!NoRoute
  <2>3. HandedIsApart
    BY <2>1 DEF HandedIsApart, Driver!NoFile
  <2> QED
    BY <2>1, <2>2, <2>3 DEF DriverIInv, ReadsAreApart, RoutesAreOne, ReportIsPending
<1>2. DriverIInv /\ [Driver!Next]_Driver!driverVars => DriverIInv'
  BY DriverStepKeeps
<1> QED
  BY <1>1, <1>2, PTL DEF Driver!Spec

\* A stop that is delivered or reported stays so while the saved route is of the same upload:
\* for any set of stops and any number of files read, handed over, picked and abandoned.
THEOREM WorkIsNeverUndone == Spec => DoneStaysDone
<1>1. DriverIInv /\ [Driver!Next]_Driver!driverVars => [DoneIsKept]_Driver!driverVars
  BY DriverStepKeeps
<1>2. []DriverIInv /\ [][Driver!Next]_Driver!driverVars => [][DoneIsKept]_Driver!driverVars
  BY <1>1, PTL
<1>3. [][DoneIsKept]_Driver!driverVars => Driver!DoneStaysDone
  BY DEF DoneIsKept, Driver!DoneStaysDone
<1>4. Driver!Spec => [][Driver!Next]_Driver!driverVars
  BY DEF Driver!Spec
<1> QED
  BY <1>2, <1>3, <1>4, DriverInvariance, PartsKeepToTheirs, PTL DEF DoneStaysDone

-----------------------------------------------------------------------------
(* The mobile application.  The last write that waits is the route shown,  *)
(* and a report does not outlive the card it was opened on.                *)

WorkedRoutes ==
  [number : Nat \ {0}, status : [Mobile!Ids -> {"pending", "completed", "failed"}],
   note : [Mobile!Ids -> Int]]

DeliveryRoutes == {Mobile!NoRoute} \cup WorkedRoutes

LastWriteIsShown ==
  kRestored => IF kWrites = <<>> THEN kAvailable => kStored = kRoute
                                 ELSE kWrites[Len(kWrites)] = kRoute

MobileIInv ==
  /\ kRoute \in DeliveryRoutes
  /\ kStored \in DeliveryRoutes
  /\ kWrites \in Seq(DeliveryRoutes)
  /\ kImports \in Nat
  /\ ~kRestored => kRoute = Mobile!NoRoute /\ kReporting = "none" /\ kEnding = "closed"
  /\ kOpen # "none" => MobileStops # <<>>
  /\ LastWriteIsShown
  /\ Mobile!ReportIsForOpenStop
  /\ kReporting # "none" => kRoute # Mobile!NoRoute

\* Whatever the route becomes is written after everything that waits.
LEMMA SetRouteKeeps ==
  ASSUME MobileIInv, kRestored, UNCHANGED <<kRestored, kAvailable, kStored>>,
         NEW r \in DeliveryRoutes, NEW wanted, Mobile!SetRoute(r, wanted)
  PROVE  /\ kRoute' = r /\ kOpen' = Mobile!Opened(r, wanted)
         /\ kWrites' \in Seq(DeliveryRoutes) /\ LastWriteIsShown'
<1>1. kRoute' = r /\ kOpen' = Mobile!Opened(r, wanted)
  BY DEF Mobile!SetRoute
<1>2. kWrites \in Seq(DeliveryRoutes) /\ LastWriteIsShown
  BY DEF MobileIInv
<1>3. CASE r = kRoute
  BY <1>1, <1>2, <1>3 DEF Mobile!SetRoute, LastWriteIsShown
<1>4. CASE r # kRoute
  <2>1. kWrites' = kWrites \o <<r>>
    BY <1>4 DEF Mobile!SetRoute, Mobile!Persist
  <2>2. /\ kWrites' \in Seq(DeliveryRoutes) /\ kWrites' # <<>>
        /\ kWrites'[Len(kWrites')] = r
    BY <1>2, <2>1
  <2> QED BY <1>1, <2>2 DEF LastWriteIsShown
<1> QED BY <1>1, <1>3, <1>4

LEMMA CardsOpenOnRoutes ==
  ASSUME NEW r \in DeliveryRoutes, NEW wanted
  PROVE  /\ Mobile!Opened(r, wanted) # "none" => MobileStops # <<>>
         /\ wanted # "none" /\ r # Mobile!NoRoute /\ MobileStops # <<>>
              => Mobile!Opened(r, wanted) = wanted
BY DEF Mobile!Opened

LEMMA ChangedDeliveries ==
  ASSUME NEW r \in DeliveryRoutes, r # Mobile!NoRoute, NEW s
  PROVE  /\ [r EXCEPT !.status[s] = "completed"] \in DeliveryRoutes
         /\ [r EXCEPT !.status[s] = "failed"] \in DeliveryRoutes
         /\ [r EXCEPT !.note[s] = 1 - @] \in DeliveryRoutes
         /\ [r EXCEPT !.note[s] = 1 - @] # Mobile!NoRoute
         /\ [r EXCEPT !.note[s] = 1 - @].status = r.status
<1>1. r \in WorkedRoutes
  BY DEF DeliveryRoutes
<1>2. \A w \in WorkedRoutes : w # Mobile!NoRoute
  BY DEF Mobile!NoRoute, WorkedRoutes
<1>3. /\ [r EXCEPT !.status[s] = "completed"] \in WorkedRoutes
      /\ [r EXCEPT !.status[s] = "failed"] \in WorkedRoutes
  BY <1>1 DEF WorkedRoutes
<1>4. /\ [r EXCEPT !.note[s] = 1 - @] \in WorkedRoutes
      /\ [r EXCEPT !.note[s] = 1 - @].status = r.status
  BY <1>1 DEF WorkedRoutes
<1> QED BY <1>2, <1>3, <1>4 DEF DeliveryRoutes

LEMMA MobileStepKeeps ==
  ASSUME MobileIInv, [Mobile!Next]_Mobile!mobileVars
  PROVE  MobileIInv'
<1> USE DEF Mobile!ReportIsForOpenStop
<1>1. CASE Mobile!Restore
  <2>1. PICK readable \in BOOLEAN :
          /\ kRoute' = (IF readable /\ ~kExpired THEN kStored ELSE Mobile!NoRoute)
          /\ kAvailable' = readable
          /\ kWrites' = (IF readable /\ kExpired THEN <<Mobile!NoRoute>> ELSE <<>>)
                           \o Mobile!Persist(kRoute', TRUE)
          /\ kOpen' = Mobile!Opened(kRoute', "none")
    BY <1>1 DEF Mobile!Restore
  <2>2. ~kRestored /\ kReporting = "none" /\ kReporting' = "none" /\ kStored' = kStored
        /\ kRestored' = TRUE /\ kImports' = kImports
    BY <1>1 DEF Mobile!Restore, MobileIInv
  <2>3. kRoute' \in DeliveryRoutes /\ Mobile!NoRoute \in DeliveryRoutes
    BY <2>1 DEF MobileIInv, DeliveryRoutes
  <2>4. /\ kWrites' \in Seq(DeliveryRoutes) /\ kWrites' # <<>>
        /\ kWrites'[Len(kWrites')] = kRoute'
    BY <2>1, <2>3 DEF Mobile!Persist
  <2>5. kOpen' # "none" => MobileStops # <<>>
    BY <2>1, <2>3, CardsOpenOnRoutes
  <2> QED BY <2>2, <2>3, <2>4, <2>5 DEF MobileIInv, LastWriteIsShown
<1>2. CASE Mobile!WriteEnds
  <2>1. PICK succeeds \in BOOLEAN :
          /\ kAvailable' = succeeds
          /\ kStored' = (IF succeeds THEN Head(kWrites) ELSE kStored)
    BY <1>2 DEF Mobile!WriteEnds
  <2>2. /\ kWrites # <<>> /\ kWrites' = Tail(kWrites)
        /\ UNCHANGED <<kRoute, kRestored, kOpen, kReporting, kEnding, kImports>>
    BY <1>2 DEF Mobile!WriteEnds
  <2>3. kWrites \in Seq(DeliveryRoutes)
    BY DEF MobileIInv
  <2>4. /\ Head(kWrites) \in DeliveryRoutes /\ Tail(kWrites) \in Seq(DeliveryRoutes)
        /\ Tail(kWrites) = <<>> => Len(kWrites) = 1 /\ Head(kWrites) = kWrites[1]
        /\ Tail(kWrites) # <<>> =>
             Tail(kWrites)[Len(Tail(kWrites))] = kWrites[Len(kWrites)]
    <3>1. /\ Len(kWrites) \in Nat /\ Len(kWrites) >= 1
          /\ Head(kWrites) = kWrites[1] /\ Tail(kWrites) \in Seq(DeliveryRoutes)
          /\ Len(Tail(kWrites)) = Len(kWrites) - 1
          /\ \A i \in 1..(Len(kWrites) - 1) : Tail(kWrites)[i] = kWrites[i + 1]
      BY <2>2, <2>3
    <3>2. Tail(kWrites) = <<>> => Len(kWrites) = 1
      BY <3>1
    <3>3. Tail(kWrites) # <<>> => Len(kWrites) - 1 \in 1..(Len(kWrites) - 1)
      BY <3>1
    <3>4. Head(kWrites) \in DeliveryRoutes
      BY <2>2, <2>3
    <3> QED BY <3>1, <3>2, <3>3, <3>4
  <2>5. LastWriteIsShown'
    BY <2>1, <2>2, <2>4 DEF MobileIInv, LastWriteIsShown
  <2> QED
    BY <2>1, <2>2, <2>4, <2>5 DEF MobileIInv, Mobile!ToDo
<1>3. CASE Mobile!Kill
  BY <1>3 DEF Mobile!Kill, MobileIInv, LastWriteIsShown, DeliveryRoutes
<1>4. CASE Mobile!Import
  <2>1. /\ kRestored /\ Mobile!SetRoute(Mobile!NewRoute(kImports'), "none")
        /\ kImports' = kImports + 1 /\ kReporting' = "none"
        /\ UNCHANGED <<kRestored, kAvailable, kStored, kEnding>>
    BY <1>4 DEF Mobile!Import
  <2>2. Mobile!NewRoute(kImports') \in DeliveryRoutes /\ kImports' \in Nat
    <3>1. kImports' \in Nat \ {0}
      BY <2>1 DEF MobileIInv
    <3>2. Mobile!NewRoute(kImports') \in WorkedRoutes
      BY <3>1 DEF WorkedRoutes, Mobile!NewRoute
    <3> QED BY <3>1, <3>2 DEF DeliveryRoutes
  <2>3. /\ kRoute' = Mobile!NewRoute(kImports') /\ kWrites' \in Seq(DeliveryRoutes)
        /\ LastWriteIsShown' /\ kOpen' = Mobile!Opened(kRoute', "none")
    BY <2>1, <2>2, SetRouteKeeps
  <2>4. kOpen' # "none" => MobileStops # <<>>
    BY <2>2, <2>3, CardsOpenOnRoutes
  <2> QED BY <2>1, <2>2, <2>3, <2>4 DEF MobileIInv
<1>5. CASE Mobile!Toggle
  <2>1. PICK wanted : kOpen' = Mobile!Opened(kRoute, wanted)
    BY <1>5 DEF Mobile!Toggle
  <2>2. kOpen' # "none" => MobileStops # <<>>
    BY <2>1, CardsOpenOnRoutes DEF MobileIInv
  <2> QED BY <1>5, <2>2 DEF Mobile!Toggle, MobileIInv, LastWriteIsShown
<1>6. CASE Mobile!ChangeNote
  <2> DEFINE noted == [kRoute EXCEPT !.note[kOpen] = 1 - @]
  <2>1. /\ kRestored /\ kRoute # Mobile!NoRoute /\ kOpen # "none"
        /\ Mobile!SetRoute(noted, kOpen)
        /\ UNCHANGED <<kRestored, kAvailable, kStored, kReporting, kEnding, kImports>>
    BY <1>6 DEF Mobile!ChangeNote, Mobile!Driving
  <2>2. /\ noted \in DeliveryRoutes /\ noted # Mobile!NoRoute
        /\ noted.status = kRoute.status
    <3>1. kRoute \in DeliveryRoutes
      BY DEF MobileIInv
    <3> QED BY <2>1, <3>1, ChangedDeliveries, Zenon
  <2> HIDE DEF noted
  <2>3. /\ kRoute' = noted /\ kWrites' \in Seq(DeliveryRoutes) /\ LastWriteIsShown'
        /\ kOpen' = Mobile!Opened(noted, kOpen)
    BY <2>1, <2>2, SetRouteKeeps
  <2>4. kOpen' = kOpen
    BY <2>1, <2>2, <2>3, CardsOpenOnRoutes DEF MobileIInv
  <2> QED BY <2>1, <2>2, <2>3, <2>4 DEF MobileIInv, Mobile!ToDo
<1>7. CASE Mobile!Complete
  <2> DEFINE done == [kRoute EXCEPT !.status[kOpen] = "completed"]
  <2>1. /\ kRestored /\ kRoute # Mobile!NoRoute /\ kReporting # kOpen
        /\ Mobile!SetRoute(done, "none")
        /\ UNCHANGED <<kRestored, kAvailable, kStored, kReporting, kEnding, kImports>>
    BY <1>7 DEF Mobile!Complete, Mobile!Driving
  <2>2. done \in DeliveryRoutes
    <3>1. kRoute \in DeliveryRoutes
      BY DEF MobileIInv
    <3> QED BY <2>1, <3>1, ChangedDeliveries, Zenon
  <2> HIDE DEF done
  <2>3. /\ kRoute' = done /\ kWrites' \in Seq(DeliveryRoutes) /\ LastWriteIsShown'
        /\ kOpen' = Mobile!Opened(done, "none")
    BY <2>1, <2>2, SetRouteKeeps
  <2>4. kOpen' # "none" => MobileStops # <<>>
    BY <2>2, <2>3, CardsOpenOnRoutes
  <2> QED BY <2>1, <2>2, <2>3, <2>4 DEF MobileIInv
<1>8. CASE Mobile!Report
  BY <1>8 DEF Mobile!Report, Mobile!Driving, Mobile!ToDo, MobileIInv, LastWriteIsShown
<1>9. CASE Mobile!EditReport
  BY <1>9 DEF Mobile!EditReport, Mobile!Driving, Mobile!ToDo, MobileIInv, LastWriteIsShown
<1>10. CASE Mobile!SubmitFailure
  <2> DEFINE done == [kRoute EXCEPT !.status[kReporting] = "failed"]
  <2>1. /\ kRestored /\ kRoute # Mobile!NoRoute /\ kReporting' = "none"
        /\ Mobile!SetRoute(done, "none")
        /\ UNCHANGED <<kRestored, kAvailable, kStored, kEnding, kImports>>
    BY <1>10 DEF Mobile!SubmitFailure, Mobile!Driving
  <2>2. done \in DeliveryRoutes
    <3>1. kRoute \in DeliveryRoutes
      BY DEF MobileIInv
    <3> QED BY <2>1, <3>1, ChangedDeliveries, Zenon
  <2> HIDE DEF done
  <2>3. /\ kRoute' = done /\ kWrites' \in Seq(DeliveryRoutes) /\ LastWriteIsShown'
        /\ kOpen' = Mobile!Opened(done, "none")
    BY <2>1, <2>2, SetRouteKeeps
  <2>4. kOpen' # "none" => MobileStops # <<>>
    BY <2>2, <2>3, CardsOpenOnRoutes
  <2> QED BY <2>1, <2>2, <2>3, <2>4 DEF MobileIInv
<1>11. CASE Mobile!FinishRoute
  BY <1>11
  DEF Mobile!FinishRoute, Mobile!Driving, Mobile!ToDo, MobileIInv, LastWriteIsShown
<1>12. CASE Mobile!AnswerFinish
  BY <1>12 DEF Mobile!AnswerFinish, Mobile!ToDo, MobileIInv, LastWriteIsShown
<1>13. CASE Mobile!ExportEnds
  <2>1. /\ kRestored /\ kRestored' /\ UNCHANGED <<kAvailable, kStored, kImports>>
    BY <1>13 DEF Mobile!ExportEnds, MobileIInv
  <2>2. CASE UNCHANGED <<kRoute, kWrites, kOpen, kReporting>>
    BY <2>1, <2>2 DEF MobileIInv, LastWriteIsShown, Mobile!ToDo
  <2>3. CASE /\ kRoute' = Mobile!NoRoute /\ kOpen' = "none" /\ kReporting' = "none"
             /\ kWrites' = kWrites \o <<Mobile!NoRoute>> \o <<Mobile!NoRoute>>
    <3>1. kWrites \in Seq(DeliveryRoutes) /\ Mobile!NoRoute \in DeliveryRoutes
      BY DEF MobileIInv, DeliveryRoutes
    <3>2. /\ kWrites' \in Seq(DeliveryRoutes) /\ kWrites' # <<>>
          /\ kWrites'[Len(kWrites')] = Mobile!NoRoute
      BY <2>3, <3>1
    <3> QED BY <2>1, <2>3, <3>1, <3>2 DEF MobileIInv, LastWriteIsShown
  <2> QED
    BY <1>13, <2>1, <2>2, <2>3 DEF Mobile!ExportEnds, Mobile!Persist
<1>14. CASE UNCHANGED Mobile!mobileVars
  BY <1>14 DEF Mobile!mobileVars, Mobile!ToDo, MobileIInv, LastWriteIsShown
<1> QED
  BY <1>1, <1>2, <1>3, <1>4, <1>5, <1>6, <1>7, <1>8, <1>9, <1>10, <1>11, <1>12, <1>13, <1>14
  DEF Mobile!Next

LEMMA MobileInvariance == Mobile!Spec => []MobileIInv
<1>1. Mobile!Init => MobileIInv
  BY DEF Mobile!Init, MobileIInv, LastWriteIsShown, DeliveryRoutes,
         Mobile!ReportIsForOpenStop
<1>2. MobileIInv /\ [Mobile!Next]_Mobile!mobileVars => MobileIInv'
  BY MobileStepKeeps
<1> QED
  BY <1>1, <1>2, PTL DEF Mobile!Spec

\* The phone keeps what it shows and a report is about the open stop: for any list of stops
\* and any number of writes that wait, fail or are lost with the process.
THEOREM DeliveriesStaySound == Spec => []DeliveryIsSound
<1>1. MobileIInv => DeliveryIsSound
  BY DEF MobileIInv, LastWriteIsShown, DeliveryIsSound, Mobile!DeliveryIsSound,
         Mobile!StoredWhatIsShown
<1> QED
  BY <1>1, MobileInvariance, PartsKeepToTheirs, PTL

-----------------------------------------------------------------------------
(* The map.  A run of an effect that is not cancelled is of the routes the *)
(* page has now; so what it draws or places is theirs.                     *)

Places == Positions \cup {Gone}
MapRoutes == [Map!Ids -> Places]
MapLines == [pos : Places, road : BOOLEAN]
LineRuns == [routes : MapRoutes, next : Nat, waiting : BOOLEAN, cancelled : BOOLEAN]
PinRuns == [routes : MapRoutes, cancelled : BOOLEAN]

\* Every route of the page has its line, and no other has one.
Drawn(shown, of) == \A id \in Map!Ids : (shown[id] = Map!NoLine) = (of[id] = Gone)

RunsAreOfRoutes ==
  /\ mDraws \subseteq LineRuns /\ mMarks \subseteq PinRuns
  /\ \A d \in mDraws : /\ ~d.cancelled => d.routes = mRoutes
                       /\ d.waiting => d.next \in Map!Ids /\ d.routes[d.next] # Gone
                       /\ d.next # 0
  /\ \A m \in mMarks : ~m.cancelled => m.routes = mRoutes

LinesAreDrawn ==
  /\ mLines \in [Map!Ids -> MapLines]
  /\ mReady => Drawn(mLines, mRoutes)
  /\ mReady /\ mPending = Map!NoMove => \A id \in Map!Ids : mLines[id].pos = mRoutes[id]

PinsAreSet ==
  /\ mPins \in [Map!Ids -> Places]
  /\ mReady /\ mPending = Map!NoMove =>
       \A id \in Map!Ids : mPins[id] \in {Gone, mRoutes[id]}
  /\ mPending # Map!NoMove => mPins[mPending.id] \in {Gone, mPending.pos}

Moves == {Map!NoMove} \cup [id : Map!Ids, pos : Positions]

MapIInv ==
  /\ mRoutes \in MapRoutes
  /\ mPending \in Moves
  /\ ~mReady => /\ mPending = Map!NoMove /\ mPins = Map!NoPins
                /\ mDraws = {} /\ mMarks = {}
  /\ RunsAreOfRoutes
  /\ LinesAreDrawn
  /\ PinsAreSet

\* A line at a position is a line, and where it was asked to be.
LEMMA LineForFacts ==
  ASSUME NEW id \in Map!Ids, NEW pos \in Places
  PROVE  /\ Map!LineFor(id, pos) \in MapLines
         /\ Map!LineFor(id, pos).pos = pos
         /\ (Map!LineFor(id, pos) = Map!NoLine) = (pos = Gone)
         /\ Map!NoLine \in MapLines /\ Map!NoLine.pos = Gone
<1>1. Map!Cached(Map!Path(id, pos)) \in BOOLEAN
  BY DEF Map!Cached
<1>2. Map!NoLine \in MapLines /\ Map!NoLine.pos = Gone
  BY DEF Map!NoLine, MapLines, Places
<1>3. CASE pos = Gone
  BY <1>2, <1>3 DEF Map!LineFor
<1>4. CASE pos # Gone
  <2>1. Map!LineFor(id, pos) = [pos |-> pos, road |-> Map!Cached(Map!Path(id, pos))]
    BY <1>4 DEF Map!LineFor
  <2>2. Map!LineFor(id, pos) \in MapLines /\ Map!LineFor(id, pos).pos = pos
    BY <1>1, <2>1 DEF MapLines
  <2> QED BY <1>2, <1>4, <2>2
<1> QED BY <1>3, <1>4

LEMMA NoMoveFacts ==
  /\ Map!NoMove \in Moves /\ Map!NoMove.id \notin Map!Ids
  /\ \A move \in Moves : move # Map!NoMove => move.id \in Map!Ids /\ move.pos \in Positions
  /\ Gone \notin Positions
<1>1. Map!NoMove.id = 0 /\ Gone \notin Positions
  BY MapAssumed DEF Map!NoMove, Map!MapAssumption
<1>2. Map!NoMove.id \notin Map!Ids
  BY <1>1 DEF Map!Ids
<1> QED BY <1>1, <1>2 DEF Moves

\* Moving the line of a pin, or all lines back, leaves each route its line.
LEMMA MoveLinesKeeps ==
  ASSUME NEW drawn \in [Map!Ids -> MapLines], NEW new \in MapRoutes, NEW move \in Moves,
         Drawn(drawn, new)
  PROVE  LET moved == Map!MoveLines(drawn, new, move)
         IN  /\ moved \in [Map!Ids -> MapLines]
             /\ Drawn(moved, new)
             /\ move = Map!NoMove => \A id \in Map!Ids : moved[id].pos = new[id]
<1> DEFINE moved == Map!MoveLines(drawn, new, move)
<1>1. CASE move = Map!NoMove
  <2>1. moved = [id \in Map!Ids |-> IF drawn[id] = Map!NoLine THEN Map!NoLine
                                    ELSE Map!LineFor(id, new[id])]
    BY <1>1 DEF Map!MoveLines
  <2> HIDE DEF moved
  <2>2. ASSUME NEW id \in Map!Ids
        PROVE  /\ moved[id] \in MapLines /\ moved[id].pos = new[id]
               /\ (moved[id] = Map!NoLine) = (new[id] = Gone)
    <3>1. new[id] \in Places
      BY DEF MapRoutes
    <3>2. (drawn[id] = Map!NoLine) = (new[id] = Gone)
      BY DEF Drawn
    <3>3. moved[id] = IF drawn[id] = Map!NoLine THEN Map!NoLine ELSE Map!LineFor(id, new[id])
      BY <2>1
    <3> QED BY <3>1, <3>2, <3>3, LineForFacts
  <2>3. moved \in [Map!Ids -> MapLines]
    BY <2>1, <2>2
  <2>4. Drawn(moved, new)
    BY <2>2 DEF Drawn
  <2> QED BY <2>2, <2>3, <2>4 DEF moved
<1>2. CASE move # Map!NoMove
  <2>1. move.id \in Map!Ids /\ move.pos \in Positions /\ Gone \notin Positions
    BY <1>2, NoMoveFacts
  <2>2. CASE moved = drawn
    BY <1>2, <2>2
  <2>3. CASE /\ drawn[move.id] # Map!NoLine
             /\ moved = [drawn EXCEPT ![move.id] = [@ EXCEPT !.pos = move.pos]]
    <3>1. /\ [drawn[move.id] EXCEPT !.pos = move.pos] \in MapLines
          /\ [drawn[move.id] EXCEPT !.pos = move.pos].pos = move.pos
      BY <2>1 DEF MapLines, Places
    <3>2. [drawn[move.id] EXCEPT !.pos = move.pos] # Map!NoLine
      BY <2>1, <3>1 DEF Map!NoLine
    <3>3. moved = [drawn EXCEPT ![move.id] = [drawn[move.id] EXCEPT !.pos = move.pos]]
      BY <2>3
    <3> HIDE DEF moved
    <3>4. moved \in [Map!Ids -> MapLines]
      BY <2>1, <3>1, <3>3
    <3>5. Drawn(moved, new)
      BY <2>1, <2>3, <3>2, <3>3 DEF Drawn
    <3> QED BY <1>2, <3>4, <3>5 DEF moved
  <2> QED BY <1>2, <2>2, <2>3 DEF Map!MoveLines
<1> QED BY <1>1, <1>2

\* Redrawing cancels the runs that wait and drops the others.
LEMMA RedrawKeeps ==
  ASSUME RunsAreOfRoutes, NEW new \in MapRoutes, Map!Redraw(new), mRoutes' = new
  PROVE  /\ mDraws' \subseteq LineRuns
         /\ \A d \in mDraws' : /\ ~d.cancelled => d.routes = mRoutes'
                               /\ d.waiting => d.next \in Map!Ids /\ d.routes[d.next] # Gone
                               /\ d.next # 0
<1> DEFINE first == [routes |-> new, next |-> 1, waiting |-> FALSE, cancelled |-> FALSE]
<1>1. mDraws' = Map!Cancelled(mDraws) \cup {first}
  BY DEF Map!Redraw
<1>2. first \in LineRuns /\ first.routes = new /\ ~first.waiting /\ first.next # 0
  BY DEF LineRuns
<1>3. ASSUME NEW d \in Map!Cancelled(mDraws)
      PROVE  /\ d \in LineRuns /\ d.cancelled /\ d.next # 0
             /\ d.next \in Map!Ids /\ d.routes[d.next] # Gone
  <2>1. PICK r \in mDraws : r.waiting /\ d = [r EXCEPT !.cancelled = TRUE]
    BY DEF Map!Cancelled
  <2>2. r \in LineRuns /\ r.next # 0 /\ r.next \in Map!Ids /\ r.routes[r.next] # Gone
    BY <2>1 DEF RunsAreOfRoutes
  <2> QED BY <2>1, <2>2 DEF LineRuns
<1> HIDE DEF first
<1> QED BY <1>1, <1>2, <1>3

LEMMA RebuildKeeps ==
  ASSUME RunsAreOfRoutes, NEW new \in MapRoutes, Map!Rebuild(new), mRoutes' = new
  PROVE  mMarks' \subseteq PinRuns /\ \A m \in mMarks' : ~m.cancelled => m.routes = mRoutes'
<1> DEFINE first == [routes |-> new, cancelled |-> FALSE]
<1>1. mMarks' \subseteq Map!CancelledMarks \cup {first}
  BY DEF Map!Rebuild
<1>2. first \in PinRuns /\ first.routes = new
  BY DEF PinRuns
<1>3. ASSUME NEW m \in Map!CancelledMarks
      PROVE  m \in PinRuns /\ m.cancelled
  <2>1. PICK r \in mMarks : m = [r EXCEPT !.cancelled = TRUE]
    BY DEF Map!CancelledMarks
  <2>2. r \in PinRuns
    BY DEF RunsAreOfRoutes
  <2> QED BY <2>1, <2>2 DEF PinRuns
<1> HIDE DEF first
<1> QED BY <1>1, <1>2, <1>3

LEMMA NoPinsFacts ==
  Map!NoPins \in [Map!Ids -> Places] /\ \A id \in Map!Ids : Map!NoPins[id] = Gone
BY DEF Map!NoPins, Places

\* After all effects the map is of the new routes.
LEMMA AfterRoutesKeeps ==
  ASSUME MapIInv, mReady, mReady' = TRUE, NEW new \in MapRoutes, NEW move \in Moves,
         Map!AfterRoutes(new, move)
  PROVE  MapIInv'
<1>1. /\ mRoutes' = new /\ mPending' = move /\ mPins' = Map!NoPins /\ Map!Rebuild(new)
      /\ \/ /\ Map!Redraw(new)
            /\ mLines' = Map!MoveLines([id \in Map!Ids |-> Map!LineFor(id, new[id])], new, move)
         \/ /\ new = mRoutes /\ mLines' = Map!MoveLines(mLines, new, move) /\ mDraws' = mDraws
  BY DEF Map!AfterRoutes
<1>2. RunsAreOfRoutes /\ LinesAreDrawn
  BY DEF MapIInv
<1>3. RunsAreOfRoutes'
  BY <1>1, <1>2, RedrawKeeps, RebuildKeeps DEF RunsAreOfRoutes
<1>4. LinesAreDrawn'
  <2>1. CASE new = mRoutes /\ mLines' = Map!MoveLines(mLines, new, move)
    <3>1. mLines \in [Map!Ids -> MapLines] /\ Drawn(mLines, new)
      BY <1>2, <2>1 DEF LinesAreDrawn
    <3> QED BY <1>1, <2>1, <3>1, MoveLinesKeeps DEF LinesAreDrawn
  <2>2. CASE mLines' =
               Map!MoveLines([id \in Map!Ids |-> Map!LineFor(id, new[id])], new, move)
    <3> DEFINE first == [id \in Map!Ids |-> Map!LineFor(id, new[id])]
    <3>1. ASSUME NEW id \in Map!Ids
          PROVE  first[id] \in MapLines /\ (first[id] = Map!NoLine) = (new[id] = Gone)
      <4>1. new[id] \in Places
        BY DEF MapRoutes
      <4> QED BY <4>1, LineForFacts
    <3>2. first \in [Map!Ids -> MapLines] /\ Drawn(first, new)
      BY <3>1 DEF Drawn
    <3> HIDE DEF first
    <3>3. mLines' = Map!MoveLines(first, new, move)
      BY <2>2 DEF first
    <3> QED BY <1>1, <3>2, <3>3, MoveLinesKeeps DEF LinesAreDrawn
  <2> QED BY <1>1, <2>1, <2>2
<1>5. PinsAreSet'
  BY <1>1, NoPinsFacts, NoMoveFacts DEF PinsAreSet
<1> QED
  BY <1>1, <1>3, <1>4, <1>5 DEF MapIInv

\* Moving a pin, or all pins back, leaves them at the routes or the moved pin.
LEMMA MovePinsKeeps ==
  ASSUME MapIInv, mReady, NEW move \in Moves
  PROVE  LET moved == Map!MovePins(mRoutes, move)
         IN  /\ moved \in [Map!Ids -> Places]
             /\ move = Map!NoMove => \A id \in Map!Ids : moved[id] \in {Gone, mRoutes[id]}
             /\ move # Map!NoMove => moved[move.id] \in {Gone, move.pos}
<1>1. mPins \in [Map!Ids -> Places] /\ mRoutes \in [Map!Ids -> Places]
  BY DEF MapIInv, PinsAreSet, MapRoutes
<1>2. CASE move = Map!NoMove
  BY <1>1, <1>2 DEF Map!MovePins, Places
<1>3. CASE move # Map!NoMove
  <2>1. move.id \in Map!Ids /\ move.pos \in Places
    BY <1>3, NoMoveFacts DEF Places
  <2> QED BY <1>1, <1>3, <2>1 DEF Map!MovePins
<1> QED BY <1>2, <1>3

\* A run that draws the line of a route draws it where the route is.
LEMMA SetLineKeeps ==
  ASSUME MapIInv, mReady, NEW id \in Map!Ids, NEW road \in BOOLEAN, mRoutes[id] # Gone,
         Map!SetLine(id, [pos |-> mRoutes[id], road |-> road]),
         UNCHANGED <<mReady, mRoutes, mPending>>
  PROVE  LinesAreDrawn'
<1> DEFINE line == [pos |-> mRoutes[id], road |-> road]
<1>1. mLines' = [mLines EXCEPT ![id] = line] /\ mLines \in [Map!Ids -> MapLines]
  BY DEF Map!SetLine, MapIInv, LinesAreDrawn
<1>2. mRoutes[id] \in Places
  BY DEF MapIInv, MapRoutes
<1>3. line \in MapLines /\ line.pos = mRoutes[id]
  BY <1>2 DEF MapLines
<1>4. line # Map!NoLine
  BY DEF Map!NoLine
<1> HIDE DEF line
<1>5. mLines' \in [Map!Ids -> MapLines]
  BY <1>1, <1>3
<1>6. Drawn(mLines, mRoutes)' /\ LinesAreDrawn
  BY <1>1, <1>4 DEF MapIInv, LinesAreDrawn, Drawn
<1> QED
  BY <1>1, <1>3, <1>5, <1>6 DEF LinesAreDrawn

\* Runs that end or go on are still of the routes they were started for.
LEMMA RunsGoOn ==
  ASSUME RunsAreOfRoutes, NEW d \in mDraws, NEW new,
         Map!Replace(d, new), UNCHANGED <<mRoutes, mMarks>>,
         \/ new = {}
         \/ new = {[d EXCEPT !.next = @ + 1, !.waiting = FALSE]}
         \/ /\ d.next \in Map!Ids /\ d.routes[d.next] # Gone
            /\ new = {[d EXCEPT !.waiting = TRUE]}
  PROVE  RunsAreOfRoutes'
<1>1. mDraws' = (mDraws \ {d}) \cup new
  BY DEF Map!Replace
<1>2. d \in LineRuns /\ d.next # 0 /\ (~d.cancelled => d.routes = mRoutes)
  BY DEF RunsAreOfRoutes
<1>3. ASSUME NEW q \in new
      PROVE  /\ q \in LineRuns /\ (~q.cancelled => q.routes = mRoutes) /\ q.next # 0
             /\ q.waiting => q.next \in Map!Ids /\ q.routes[q.next] # Gone
  <2>1. CASE q = [d EXCEPT !.next = @ + 1, !.waiting = FALSE]
    <3>1. d.next \in Nat /\ d.next + 1 \in Nat /\ d.next + 1 # 0
      BY <1>2 DEF LineRuns
    <3>2. q \in LineRuns /\ q.next = d.next + 1 /\ q.waiting = FALSE
          /\ q.routes = d.routes /\ q.cancelled = d.cancelled
      BY <1>2, <2>1, <3>1 DEF LineRuns
    <3> QED BY <1>2, <3>1, <3>2
  <2>2. CASE q = [d EXCEPT !.waiting = TRUE] /\ d.next \in Map!Ids /\ d.routes[d.next] # Gone
    BY <1>2, <2>2 DEF LineRuns
  <2> QED BY <2>1, <2>2
<1> QED
  BY <1>1, <1>3 DEF RunsAreOfRoutes

LEMMA MapStepKeeps ==
  ASSUME MapIInv, [Map!Next]_Map!mapVars
  PROVE  MapIInv'
<1>1. CASE Map!LoadMap
  <2>1. /\ ~mReady /\ mReady' = TRUE /\ Map!Redraw(mRoutes) /\ Map!Rebuild(mRoutes)
        /\ mLines' = [id \in Map!Ids |-> Map!LineFor(id, mRoutes[id])]
        /\ UNCHANGED <<mRoutes, mPending, mPins>>
    BY <1>1 DEF Map!LoadMap
  <2>2. mRoutes \in MapRoutes /\ mPending = Map!NoMove /\ RunsAreOfRoutes
    BY <2>1 DEF MapIInv
  <2>3. RunsAreOfRoutes'
    BY <2>1, <2>2, RedrawKeeps, RebuildKeeps DEF RunsAreOfRoutes
  <2>4. ASSUME NEW id \in Map!Ids
        PROVE  /\ mLines'[id] \in MapLines /\ mLines'[id].pos = mRoutes[id]
               /\ (mLines'[id] = Map!NoLine) = (mRoutes[id] = Gone)
    <3>1. mRoutes[id] \in Places /\ mLines'[id] = Map!LineFor(id, mRoutes[id])
      BY <2>1, <2>2 DEF MapRoutes
    <3> QED BY <3>1, LineForFacts
  <2>5. mLines' \in [Map!Ids -> MapLines]
    BY <2>1, <2>4
  <2>6. LinesAreDrawn'
    BY <2>1, <2>4, <2>5 DEF LinesAreDrawn, Drawn
  <2>7. PinsAreSet'
    BY <2>1, <2>2, NoPinsFacts DEF MapIInv, PinsAreSet
  <2> QED BY <2>1, <2>2, <2>3, <2>6, <2>7 DEF MapIInv
<1>2. CASE Map!ReplaceRoutes
  <2>1. mReady /\ mReady' = TRUE /\ mRoutes \in MapRoutes /\ mPending \in Moves
    BY <1>2 DEF Map!ReplaceRoutes, MapIInv
  <2>2. ASSUME NEW new \in [Map!Ids -> Positions], Map!AfterRoutes(new, mPending)
        PROVE  MapIInv'
    <3>1. new \in MapRoutes
      BY DEF MapRoutes, Places
    <3> QED BY <2>1, <2>2, <3>1, AfterRoutesKeeps
  <2>3. ASSUME NEW id \in Map!Ids,
               Map!AfterRoutes([mRoutes EXCEPT ![id] = Gone],
                               IF mPending.id = id THEN Map!NoMove ELSE mPending)
        PROVE  MapIInv'
    <3>1. [mRoutes EXCEPT ![id] = Gone] \in MapRoutes
      BY <2>1 DEF MapRoutes, Places
    <3>2. (IF mPending.id = id THEN Map!NoMove ELSE mPending) \in Moves
      BY <2>1, NoMoveFacts
    <3> QED BY <2>1, <2>3, <3>1, <3>2, AfterRoutesKeeps
  <2>4. CASE Map!AfterRoutes(mRoutes, mPending)
    BY <2>1, <2>4, AfterRoutesKeeps
  <2> QED BY <1>2, <2>2, <2>3, <2>4 DEF Map!ReplaceRoutes
<1>3. ASSUME mReady, NEW move \in Moves, mPending' = move,
             mLines' = Map!MoveLines(mLines, mRoutes, move),
             mPins' = Map!MovePins(mRoutes, move),
             UNCHANGED <<mReady, mRoutes, mDraws, mMarks>>
      PROVE  MapIInv'
  <2>1. mRoutes \in MapRoutes /\ mLines \in [Map!Ids -> MapLines] /\ Drawn(mLines, mRoutes)
    BY <1>3 DEF MapIInv, LinesAreDrawn
  <2>2. /\ mLines' \in [Map!Ids -> MapLines] /\ Drawn(mLines', mRoutes)
        /\ move = Map!NoMove => \A id \in Map!Ids : mLines'[id].pos = mRoutes[id]
    BY <1>3, <2>1, MoveLinesKeeps
  <2>3. /\ mPins' \in [Map!Ids -> Places]
        /\ move = Map!NoMove => \A id \in Map!Ids : mPins'[id] \in {Gone, mRoutes[id]}
        /\ move # Map!NoMove => mPins'[move.id] \in {Gone, move.pos}
    BY <1>3, MovePinsKeeps
  <2>4. LinesAreDrawn'
    BY <1>3, <2>2 DEF LinesAreDrawn, Drawn
  <2>5. PinsAreSet'
    BY <1>3, <2>3 DEF PinsAreSet
  <2>6. RunsAreOfRoutes'
    BY <1>3 DEF MapIInv, RunsAreOfRoutes
  <2> QED BY <1>3, <2>1, <2>4, <2>5, <2>6 DEF MapIInv
<1>4. CASE Map!DragPin
  <2>1. PICK id \in Map!Ids, pos \in Positions :
          /\ mPending' = [id |-> id, pos |-> pos]
          /\ mLines' = Map!MoveLines(mLines, mRoutes, mPending')
          /\ mPins' = Map!MovePins(mRoutes, mPending')
    BY <1>4 DEF Map!DragPin
  <2>2. mPending' \in Moves
    BY <2>1 DEF Moves
  <2>3. mReady /\ UNCHANGED <<mReady, mRoutes, mDraws, mMarks>>
    BY <1>4 DEF Map!DragPin
  <2> QED BY <1>3, <2>1, <2>2, <2>3
<1>5. CASE Map!CancelPin
  <2>1. /\ mReady /\ mPending' = Map!NoMove
        /\ mLines' = Map!MoveLines(mLines, mRoutes, Map!NoMove)
        /\ mPins' = Map!MovePins(mRoutes, Map!NoMove)
        /\ UNCHANGED <<mReady, mRoutes, mDraws, mMarks>>
    BY <1>5 DEF Map!CancelPin
  <2> QED BY <1>3, <2>1, NoMoveFacts
<1>6. Map!WithMove \in MapRoutes
  <2>1. mRoutes \in MapRoutes /\ mPending \in Moves
    BY DEF MapIInv
  <2>2. CASE mPending = Map!NoMove
    BY <2>1, <2>2 DEF Map!WithMove
  <2>3. CASE mPending # Map!NoMove
    <3>1. mPending.id \in Map!Ids /\ mPending.pos \in Places
      BY <2>1, <2>3, NoMoveFacts DEF Places
    <3> QED BY <2>1, <3>1 DEF Map!WithMove, MapRoutes
  <2> QED BY <2>2, <2>3
<1>7. CASE Map!SavePin
  <2>1. mReady /\ mReady' = TRUE /\ Map!AfterRoutes(Map!WithMove, Map!NoMove)
    BY <1>7 DEF Map!SavePin
  <2> QED BY <1>6, <2>1, NoMoveFacts, AfterRoutesKeeps
<1>8. CASE Map!ToggleEditMode
  <2> DEFINE new == IF mEditMode THEN Map!WithMove ELSE mRoutes
             move == IF mEditMode THEN Map!NoMove ELSE mPending
  <2>1. mReady /\ mReady' = TRUE /\ Map!AfterRoutes(new, move)
    BY <1>8 DEF Map!ToggleEditMode
  <2>2. new \in MapRoutes /\ move \in Moves
    BY <1>6, NoMoveFacts DEF MapIInv
  <2> HIDE DEF new, move
  <2> QED BY <2>1, <2>2, AfterRoutesKeeps
<1>9. ASSUME NEW d \in mDraws, mReady, Map!DrawNext(d)
      PROVE  MapIInv'
  <2>1. UNCHANGED <<mReady, mRoutes, mPending, mPins, mMarks>> /\ ~d.waiting
    BY <1>9 DEF Map!DrawNext
  <2>2. d \in LineRuns /\ d.next # 0 /\ (~d.cancelled => d.routes = mRoutes)
    BY DEF MapIInv, RunsAreOfRoutes
  <2>3. PinsAreSet' /\ mRoutes' \in MapRoutes /\ mPending' \in Moves /\ RunsAreOfRoutes
    BY <2>1 DEF MapIInv, PinsAreSet
  <2>4. CASE d.next > Vehicles \/ d.cancelled
    <3>1. Map!Replace(d, {}) /\ mLines' = mLines
      BY <1>9, <2>4 DEF Map!DrawNext
    <3>2. RunsAreOfRoutes'
      BY <2>1, <2>3, <3>1, RunsGoOn
    <3> QED BY <1>9, <2>1, <2>3, <3>1, <3>2 DEF MapIInv, LinesAreDrawn, Drawn
  <2>5. CASE ~(d.next > Vehicles \/ d.cancelled)
    <3> DEFINE id == d.next
               pos == d.routes[id]
    <3>1. id \in Map!Ids /\ pos = mRoutes[id]
      <4>1. id \in Nat /\ id # 0 /\ ~(id > Vehicles) /\ Vehicles \in Nat
        BY <2>2, <2>5, MapAssumed DEF LineRuns, Map!MapAssumption
      <4>2. d.routes = mRoutes
        BY <2>2, <2>5
      <4> QED BY <4>1, <4>2 DEF Map!Ids
    <3>2. CASE pos = Gone
      <4>1. Map!Advance(d) /\ mLines' = mLines
        BY <1>9, <2>5, <3>2 DEF Map!DrawNext
      <4>2. RunsAreOfRoutes'
        BY <2>1, <2>3, <4>1, RunsGoOn DEF Map!Advance
      <4> QED BY <1>9, <2>1, <2>3, <4>1, <4>2 DEF MapIInv, LinesAreDrawn, Drawn
    <3>3. CASE pos # Gone /\ (id \in TooLong \/ Map!Cached(Map!Path(id, pos)))
      <4>1. /\ Map!Advance(d)
            /\ Map!SetLine(id, [pos |-> pos, road |-> id \notin TooLong])
        BY <1>9, <2>5, <3>3 DEF Map!DrawNext
      <4>2. RunsAreOfRoutes'
        BY <2>1, <2>3, <4>1, RunsGoOn DEF Map!Advance
      <4> DEFINE road == id \notin TooLong
      <4>3. road \in BOOLEAN
        OBVIOUS
      <4>4. Map!SetLine(id, [pos |-> mRoutes[id], road |-> road]) /\ mRoutes[id] # Gone
        BY <3>1, <3>3, <4>1
      <4> HIDE DEF road, id, pos
      <4>5. LinesAreDrawn'
        BY <1>9, <2>1, <3>1, <4>3, <4>4, SetLineKeeps
      <4> QED BY <1>9, <2>1, <2>3, <4>2, <4>5 DEF MapIInv
    <3>4. CASE pos # Gone /\ ~(id \in TooLong \/ Map!Cached(Map!Path(id, pos)))
      <4>1. Map!Replace(d, {[d EXCEPT !.waiting = TRUE]}) /\ mLines' = mLines
        BY <1>9, <2>5, <3>4 DEF Map!DrawNext
      <4>2. RunsAreOfRoutes'
        BY <2>1, <2>3, <3>1, <3>4, <4>1, RunsGoOn
      <4> QED BY <1>9, <2>1, <2>3, <4>1, <4>2 DEF MapIInv, LinesAreDrawn, Drawn
    <3> QED BY <3>2, <3>3, <3>4
  <2> QED BY <2>4, <2>5
<1>10. ASSUME NEW d \in mDraws, mReady, Map!Directions(d)
       PROVE  MapIInv'
  <2>1. UNCHANGED <<mReady, mRoutes, mPending, mPins, mMarks>> /\ d.waiting
    BY <1>10 DEF Map!Directions
  <2>2. /\ d \in LineRuns /\ (~d.cancelled => d.routes = mRoutes)
        /\ d.next \in Map!Ids /\ d.routes[d.next] # Gone
    BY <2>1 DEF MapIInv, RunsAreOfRoutes
  <2>3. PinsAreSet' /\ mRoutes' \in MapRoutes /\ mPending' \in Moves /\ RunsAreOfRoutes
    BY <2>1 DEF MapIInv, PinsAreSet
  <2>4. CASE d.cancelled
    <3>1. Map!Replace(d, {}) /\ mLines' = mLines
      BY <1>10, <2>4 DEF Map!Directions, Map!MayDraw
    <3>2. RunsAreOfRoutes'
      BY <2>1, <2>3, <3>1, RunsGoOn
    <3> QED BY <1>10, <2>1, <2>3, <3>1, <3>2 DEF MapIInv, LinesAreDrawn, Drawn
  <2>5. CASE ~d.cancelled
    <3>1. /\ Map!Advance(d)
          /\ \E road \in BOOLEAN :
               Map!SetLine(d.next, [pos |-> d.routes[d.next], road |-> road])
      BY <1>10, <2>5 DEF Map!Directions, Map!MayDraw
    <3>2. PICK road \in BOOLEAN :
            Map!SetLine(d.next, [pos |-> mRoutes[d.next], road |-> road])
      BY <2>2, <2>5, <3>1
    <3>3. RunsAreOfRoutes'
      BY <2>1, <2>3, <3>1, RunsGoOn DEF Map!Advance
    <3>4. mRoutes[d.next] # Gone
      BY <2>2, <2>5
    <3>5. LinesAreDrawn'
      BY <1>10, <2>1, <2>2, <3>2, <3>4, SetLineKeeps
    <3> QED BY <1>10, <2>1, <2>3, <3>3, <3>5 DEF MapIInv
  <2> QED BY <2>4, <2>5
<1>11. ASSUME NEW m \in mMarks, mReady, Map!MarkersReady(m)
       PROVE  MapIInv'
  <2>1. /\ mMarks' = mMarks \ {m}
        /\ UNCHANGED <<mReady, mRoutes, mPending, mLines, mDraws>>
    BY <1>11 DEF Map!MarkersReady
  <2>2. RunsAreOfRoutes' /\ LinesAreDrawn'
    BY <2>1 DEF MapIInv, RunsAreOfRoutes, LinesAreDrawn, Drawn
  <2>3. CASE mPins' = mPins
    BY <2>1, <2>2, <2>3 DEF MapIInv, PinsAreSet
  <2>4. CASE ~m.cancelled /\ mPins' = Map!PlacePins(m.routes, mPending)
    <3>1. m.routes = mRoutes /\ mRoutes \in [Map!Ids -> Places] /\ mPending \in Moves
      BY <2>4 DEF MapIInv, RunsAreOfRoutes, MapRoutes
    <3>2. mPins' = [id \in Map!Ids |-> IF id = mPending.id /\ mRoutes[id] # Gone
                                         THEN mPending.pos ELSE mRoutes[id]]
      BY <2>4, <3>1 DEF Map!PlacePins
    <3>3. PinsAreSet'
      <4>1. CASE mPending = Map!NoMove
        BY <2>1, <3>1, <3>2, <4>1, NoMoveFacts DEF PinsAreSet
      <4>2. CASE mPending # Map!NoMove
        <5>1. mPending.id \in Map!Ids /\ mPending.pos \in Places
          BY <3>1, <4>2, NoMoveFacts DEF Places
        <5> QED BY <2>1, <3>1, <3>2, <4>2, <5>1 DEF PinsAreSet
      <4> QED BY <4>1, <4>2
    <3> QED BY <2>1, <2>2, <3>3 DEF MapIInv
  <2> QED BY <1>11, <2>3, <2>4 DEF Map!MarkersReady
<1>12. CASE UNCHANGED Map!mapVars
  BY <1>12 DEF Map!mapVars, MapIInv, RunsAreOfRoutes, LinesAreDrawn, PinsAreSet, Drawn
<1>13. mDraws # {} \/ mMarks # {} => mReady
  BY DEF MapIInv
<1> QED
  BY <1>1, <1>2, <1>4, <1>5, <1>7, <1>8, <1>9, <1>10, <1>11, <1>12, <1>13 DEF Map!Next

LEMMA MapInvariance == Map!Spec => []MapIInv
<1>1. Map!Init => MapIInv
  <2> SUFFICES ASSUME Map!Init PROVE MapIInv
    OBVIOUS
  <2>1. /\ mReady = FALSE /\ mRoutes \in [Map!Ids -> Positions] /\ mPending = Map!NoMove
        /\ mLines = Map!NoLines /\ mPins = Map!NoPins /\ mDraws = {} /\ mMarks = {}
    BY DEF Map!Init
  <2>2. mRoutes \in MapRoutes
    BY <2>1 DEF MapRoutes, Places
  <2>3. mLines \in [Map!Ids -> MapLines]
    BY <2>1 DEF Map!NoLines, Map!NoLine, MapLines, Places
  <2> QED
    BY <2>1, <2>2, <2>3, NoMoveFacts, NoPinsFacts
    DEF MapIInv, RunsAreOfRoutes, LinesAreDrawn, PinsAreSet
<1>2. MapIInv /\ [Map!Next]_Map!mapVars => MapIInv'
  BY MapStepKeeps
<1> QED
  BY <1>1, <1>2, PTL DEF Map!Spec

\* The map shows the routes of the page: for any number of routes and positions, any size of
\* the cache and any number of answers that arrive for routes that are gone.
THEOREM LateAnswersAreNotDrawn == Spec => []MapShowsRoutes
<1>1. MapIInv => MapShowsRoutes
  BY DEF MapIInv, LinesAreDrawn, PinsAreSet, Drawn, MapShowsRoutes, Map!MapShowsRoutes
<1> QED
  BY <1>1, MapInvariance, PartsKeepToTheirs, PTL


-----------------------------------------------------------------------------
(* The feedback form and its route.  Three things hold together: one slot  *)
(* fetches the token the others wait for; a text that is not in doubt has  *)
(* one request of its own, or one issue, and then no button; and an issue  *)
(* of the day is counted, lost or of a request that waits for the answer.  *)

Forms == [open : BOOLEAN, text : BOOLEAN, shot : BOOLEAN,
          state : {"idle", "submitting", "success", "error"}]

StartedRequests ==
  [client : Clients, day : Nat, shot : BOOLEAN, mine : BOOLEAN,
   step : {"guard", "verify", "token", "fetch", "wait", "issue", "created", "record"}]

FormRequests == {Form!Free} \cup StartedRequests

TokenIsFetched ==
  /\ fPendingToken # 0 => /\ fPendingToken \in Slots
                          /\ fRequests[fPendingToken].step = "fetch"
  /\ \A s \in Slots : /\ fRequests[s].step = "wait" => fPendingToken # 0
                      /\ fRequests[s].step = "fetch" => fPendingToken = s

\* The form has a text and its button works.
CanSend(c) == fForm[c].text /\ fForm[c].state # "submitting"

\* The form waits for this request, sent with the text it has.
OfText(s, c) == fRequests[s].mine /\ fRequests[s].client = c

\* Where a request creates no issue any more.
Over == {"free", "created", "record"}

OneForText(c) ==
  c \notin fDoubt =>
    /\ CanSend(c) => fCopies[c] = 0 /\ \A s \in Slots : ~OfText(s, c)
    /\ fCopies[c] <= 1
    /\ \A s \in Slots : OfText(s, c) =>
         /\ fRequests[s].step \notin Over => fCopies[c] = 0
         /\ \A t \in Slots : OfText(t, c) => t = s

\* Requests that may still create an issue, those that wait for the answer about one of
\* today, and what the route counted today.
UnderWay == {s \in Slots : fRequests[s].step \notin Over}
Waiting == {s \in Slots : fRequests[s].step = "created" /\ fRequests[s].day = fToday}
Counted == IF fAccepted.day = fToday THEN fAccepted.count ELSE 0

\* The most issues the route hears of on a day, and what holds once the threshold is reached.
Limit == Threshold + Cardinality(Slots) - 1

DayIsOver ==
  /\ fShutdown = fToday
  /\ fIssues[fToday] + Cardinality(UnderWay) <= fLost[fToday] + Limit

DayIsCounted ==
  /\ fAccepted.day <= fToday
  /\ fIssues[fToday] <= Counted + fLost[fToday] + Cardinality(Waiting)
  /\ \A d \in 1..MaxDay : d > fToday => fIssues[d] = 0
  /\ ~fBucket =>
       /\ \A d \in 1..MaxDay : fIssues[d] <= fLost[d] + Limit
       /\ Counted >= Threshold => DayIsOver

FormTypes ==
  /\ fForm \in [Clients -> Forms]
  /\ fRequests \in [Slots -> FormRequests]
  /\ fToday \in 1..MaxDay
  /\ fIssues \in [1..MaxDay -> Nat] /\ fLost \in [1..MaxDay -> Nat]
  /\ fCopies \in [Clients -> Nat]
  /\ fAccepted \in [day : Nat, count : Nat]

FormIInv ==
  /\ FormTypes
  /\ TokenIsFetched
  /\ \A c \in Clients : OneForText(c)
  /\ DayIsCounted

LEMMA FreeFacts ==
  /\ Form!Free \in FormRequests /\ Form!Free.step = "free" /\ ~Form!Free.mine
  /\ \A r \in FormRequests : r.step # "free" => r \in StartedRequests
BY DEF Form!Free, FormRequests

LEMMA SlotsAreFinite ==
  /\ IsFiniteSet(Slots) /\ Cardinality(Slots) \in Nat /\ 0 \notin Slots
  /\ \A S \in SUBSET Slots : /\ IsFiniteSet(S) /\ Cardinality(S) \in Nat
                             /\ Cardinality(S) <= Cardinality(Slots)
                             /\ \A x \in S : Cardinality(S \ {x}) = Cardinality(S) - 1
<1>1. IsFiniteSet(Slots) /\ 0 \notin Slots
  BY FormAssumed DEF Form!FeedbackAssumption, Form!IsFiniteSet, IsFiniteSet
<1>2. Cardinality(Slots) \in Nat
  BY <1>1, FS_CardinalityType
<1>3. ASSUME NEW S \in SUBSET Slots
      PROVE  /\ IsFiniteSet(S) /\ Cardinality(S) \in Nat
             /\ Cardinality(S) <= Cardinality(Slots)
             /\ \A x \in S : Cardinality(S \ {x}) = Cardinality(S) - 1
  <2>1. IsFiniteSet(S) /\ Cardinality(S) <= Cardinality(Slots)
    BY <1>1, FS_Subset
  <2>2. Cardinality(S) \in Nat
    BY <2>1, FS_CardinalityType
  <2>3. ASSUME NEW x \in S PROVE Cardinality(S \ {x}) = Cardinality(S) - 1
    BY <2>1, FS_RemoveElement
  <2> QED BY <2>1, <2>2, <2>3
<1> QED BY <1>1, <1>2, <1>3

\* What a step that sends nothing and creates nothing keeps, part by part.
LEMMA TokenKept ==
  ASSUME TokenIsFetched, UNCHANGED fPendingToken,
         \A s \in Slots : \/ fRequests'[s].step = fRequests[s].step
                          \/ /\ fRequests[s].step \notin {"fetch", "wait"}
                             /\ fRequests'[s].step \notin {"fetch", "wait"}
  PROVE  TokenIsFetched'
BY DEF TokenIsFetched

LEMMA TextKept ==
  ASSUME NEW c, OneForText(c),
         c \notin fDoubt' =>
           /\ c \notin fDoubt /\ (CanSend(c)' => CanSend(c)) /\ fCopies'[c] = fCopies[c]
           /\ \A s \in Slots : OfText(s, c)' =>
                /\ OfText(s, c)
                /\ fRequests[s].step \in Over => fRequests'[s].step \in Over
  PROVE  OneForText(c)'
BY DEF OneForText

\* Numbers and sets of the day.
LEMMA DayFacts ==
  ASSUME FormTypes
  PROVE  /\ fToday \in 1..MaxDay /\ fToday \in Nat
         /\ Threshold \in Nat \ {0} /\ Limit \in Nat /\ Cardinality(Slots) \in Nat
         /\ Limit = Threshold + Cardinality(Slots) - 1
         /\ \A d \in 1..MaxDay : fIssues[d] \in Nat /\ fLost[d] \in Nat
         /\ Counted \in Nat /\ fAccepted.day \in Nat
         /\ UnderWay \in SUBSET Slots /\ Waiting \in SUBSET Slots
         /\ UnderWay \cap Waiting = {}
<1>1. /\ fToday \in 1..MaxDay /\ fToday \in Nat /\ fAccepted.day \in Nat
      /\ Threshold \in Nat \ {0} /\ Limit \in Nat /\ Cardinality(Slots) \in Nat
      /\ \A d \in 1..MaxDay : fIssues[d] \in Nat /\ fLost[d] \in Nat
  BY FormAssumed, SlotsAreFinite DEF FormTypes, Limit, Form!FeedbackAssumption
<1>2. Counted \in Nat
  BY DEF FormTypes, Counted
<1>3. UnderWay \in SUBSET Slots /\ Waiting \in SUBSET Slots /\ UnderWay \cap Waiting = {}
  BY DEF UnderWay, Waiting, Over
<1> QED BY <1>1, <1>2, <1>3 DEF Limit

\* The day is counted after a step when its issues are, and are within the limit once the
\* threshold is reached: before, the count and the requests that wait bound them.
LEMMA DayFollows ==
  ASSUME DayIsCounted, FormTypes, FormTypes', UNCHANGED <<fBucket, fToday>>,
         fAccepted'.day <= fToday,
         fIssues'[fToday] <= Counted' + fLost'[fToday] + Cardinality(Waiting'),
         \A d \in 1..MaxDay : d # fToday => fIssues'[d] = fIssues[d] /\ fLost'[d] >= fLost[d],
         ~fBucket /\ Counted' >= Threshold => DayIsOver'
  PROVE  DayIsCounted'
<1>1. /\ fToday \in 1..MaxDay /\ fToday \in Nat /\ Threshold \in Nat /\ Limit \in Nat
      /\ Limit = Threshold + Cardinality(Slots) - 1 /\ Cardinality(Slots) \in Nat
      /\ \A d \in 1..MaxDay : /\ fIssues[d] \in Nat /\ fLost[d] \in Nat
                             /\ fIssues'[d] \in Nat /\ fLost'[d] \in Nat
      /\ Counted' \in Nat /\ Limit' = Limit
  BY DayFacts DEF FormTypes, Counted, Limit
<1>2. /\ Cardinality(Waiting') \in Nat /\ Cardinality(Waiting') <= Cardinality(Slots)
      /\ Cardinality(UnderWay') \in Nat
  <2>1. Waiting' \in SUBSET Slots /\ UnderWay' \in SUBSET Slots
    BY DEF Waiting, UnderWay
  <2> QED BY <2>1, SlotsAreFinite
<1> HIDE DEF Counted, Limit, Waiting, UnderWay
<1>3. ASSUME ~fBucket PROVE fIssues'[fToday] <= fLost'[fToday] + Limit
  <2>1. CASE Counted' >= Threshold
    BY <1>1, <1>2, <1>3, <2>1 DEF DayIsOver
  <2>2. CASE ~(Counted' >= Threshold)
    BY <1>1, <1>2, <2>2
  <2> QED BY <2>1, <2>2
<1>4. ASSUME ~fBucket, NEW d \in 1..MaxDay, d # fToday PROVE fIssues'[d] <= fLost'[d] + Limit
  <2>1. fIssues[d] <= fLost[d] + Limit
    BY <1>4 DEF DayIsCounted
  <2> QED BY <1>1, <1>4, <2>1
<1>5. \A d \in 1..MaxDay : d > fToday => fIssues'[d] = 0
  BY <1>1 DEF DayIsCounted
<1> QED BY <1>1, <1>3, <1>4, <1>5 DEF DayIsCounted

LEMMA DayKept ==
  ASSUME DayIsCounted, FormTypes, FormTypes',
         UNCHANGED <<fBucket, fToday, fAccepted, fIssues, fLost>>,
         Waiting \subseteq Waiting',
         ~fBucket /\ fShutdown = fToday => /\ fShutdown' = fToday
                                           /\ UnderWay' \subseteq UnderWay
  PROVE  DayIsCounted'
<1>1. /\ fToday \in 1..MaxDay /\ fToday \in Nat /\ Limit \in Nat
      /\ fIssues[fToday] \in Nat /\ fLost[fToday] \in Nat /\ Counted \in Nat
      /\ Counted' = Counted /\ Limit' = Limit /\ fAccepted'.day <= fToday
  BY DayFacts DEF Counted, Limit, DayIsCounted
<1>2. /\ UnderWay \in SUBSET Slots /\ UnderWay' \in SUBSET Slots
      /\ Waiting \in SUBSET Slots /\ Waiting' \in SUBSET Slots
  BY DEF UnderWay, Waiting
<1>3. fIssues[fToday] <= Counted' + fLost[fToday] + Cardinality(Waiting')
  <2>1. Cardinality(Waiting) <= Cardinality(Waiting')
    BY <1>2, SlotsAreFinite, FS_Subset
  <2>2. Cardinality(Waiting) \in Nat /\ Cardinality(Waiting') \in Nat
    BY <1>2, SlotsAreFinite
  <2> HIDE DEF Waiting, Counted
  <2> QED BY <1>1, <2>1, <2>2 DEF DayIsCounted
<1>4. ASSUME ~fBucket, Counted' >= Threshold PROVE DayIsOver'
  <2>1. DayIsOver /\ UnderWay' \subseteq UnderWay /\ fShutdown' = fToday
    BY <1>1, <1>4 DEF DayIsCounted, DayIsOver
  <2>2. Cardinality(UnderWay') <= Cardinality(UnderWay)
    BY <1>2, <2>1, SlotsAreFinite, FS_Subset
  <2>3. Cardinality(UnderWay) \in Nat /\ Cardinality(UnderWay') \in Nat
    BY <1>2, SlotsAreFinite
  <2> HIDE DEF UnderWay, Limit
  <2> QED BY <1>1, <2>1, <2>2, <2>3 DEF DayIsOver
<1>5. \A d \in 1..MaxDay : fIssues'[d] = fIssues[d] /\ fLost'[d] >= fLost[d]
  BY DayFacts
<1> QED BY <1>1, <1>3, <1>4, <1>5, DayFollows

LEMMA OneRequestChanges ==
  ASSUME FormTypes, NEW s \in Slots, NEW new \in FormRequests,
         fRequests' = [fRequests EXCEPT ![s] = new]
  PROVE  /\ fRequests' \in [Slots -> FormRequests] /\ fRequests'[s] = new
         /\ \A t \in Slots : t # s => fRequests'[t] = fRequests[t]
BY DEF FormTypes

LEMMA OneFormChanges ==
  ASSUME FormTypes, NEW c \in Clients, NEW new \in Forms, fForm' = [fForm EXCEPT ![c] = new]
  PROVE  /\ fForm' \in [Clients -> Forms] /\ fForm'[c] = new
         /\ \A b \in Clients : b # c => fForm'[b] = fForm[b]
BY DEF FormTypes

\* The next step of a request, or its end.
RequestAfter(s, new) ==
  /\ new \in FormRequests
  /\ new.mine => /\ fRequests[s].mine /\ new.client = fRequests[s].client
                 /\ fRequests[s].step \in Over => new.step \in Over
  /\ new.step \in Over \/ fRequests[s].step \notin Over

LEMMA RequestGoesOn ==
  ASSUME FormTypes, NEW s \in Slots, NEW new, RequestAfter(s, new),
         fRequests' = [fRequests EXCEPT ![s] = new], fToday' = fToday
  PROVE  /\ fRequests' \in [Slots -> FormRequests]
         /\ UnderWay' \subseteq UnderWay
         /\ \A c \in Clients, t \in Slots : OfText(t, c)' =>
              /\ OfText(t, c)
              /\ fRequests[t].step \in Over => fRequests'[t].step \in Over
         /\ new.step \in Over => UnderWay' \subseteq UnderWay \ {s}
         /\ Waiting \ {s} \subseteq Waiting'
         /\ fRequests[s].step # "created" => Waiting \subseteq Waiting'
<1>1. /\ fRequests' \in [Slots -> FormRequests] /\ fRequests'[s] = new
      /\ \A t \in Slots : t # s => fRequests'[t] = fRequests[t]
  BY OneRequestChanges DEF RequestAfter
<1>2. UnderWay' \subseteq UnderWay
  BY <1>1 DEF UnderWay, RequestAfter
<1>3. ASSUME NEW c \in Clients, NEW t \in Slots, OfText(t, c)'
      PROVE  /\ OfText(t, c)
             /\ fRequests[t].step \in Over => fRequests'[t].step \in Over
  <2>1. CASE t = s
    BY <1>1, <1>3, <2>1 DEF OfText, RequestAfter
  <2>2. CASE t # s
    BY <1>1, <1>3, <2>2 DEF OfText
  <2> QED BY <2>1, <2>2
<1>4. new.step \in Over => UnderWay' \subseteq UnderWay \ {s}
  BY <1>1, <1>2 DEF UnderWay
<1>5. /\ Waiting \ {s} \subseteq Waiting'
      /\ fRequests[s].step # "created" => Waiting \subseteq Waiting'
  BY <1>1 DEF Waiting
<1> QED BY <1>1, <1>2, <1>3, <1>4, <1>5

LEMMA RequestsMoveOn ==
  ASSUME NEW s \in Slots, NEW step, FormTypes, fRequests[s].step \notin Over,
         step \in {"verify", "token", "fetch", "wait", "issue"}
  PROVE  LET new == [fRequests[s] EXCEPT !.step = step]
         IN  RequestAfter(s, new) /\ new.step = step
<1> DEFINE new == [fRequests[s] EXCEPT !.step = step]
<1>1. fRequests[s] \in StartedRequests
  <2>1. fRequests[s].step # "free"
    BY DEF Over
  <2> QED BY <2>1, FreeFacts DEF FormTypes
<1>2. new \in StartedRequests /\ new.step = step /\ new.mine = fRequests[s].mine
      /\ new.client = fRequests[s].client
  BY <1>1 DEF StartedRequests
<1> HIDE DEF new
<1>3. RequestAfter(s, new)
  BY <1>2 DEF RequestAfter, FormRequests
<1> QED BY <1>2, <1>3 DEF new

LEMMA RequestsEnd ==
  ASSUME NEW s \in Slots, FormTypes
  PROVE  RequestAfter(s, Form!Free)
BY FreeFacts DEF RequestAfter, Over

\* An answer leaves no text to send, or the client in doubt.
LEMMA AnswerFacts ==
  ASSUME FormTypes, NEW s \in Slots, NEW ok \in BOOLEAN, Form!Answer(s, ok),
         fRequests[s].step # "free"
  PROVE  /\ fForm' \in [Clients -> Forms]
         /\ fRequests' = [fRequests EXCEPT ![s] = Form!Free]
         /\ \A c \in Clients : c \notin fDoubt' =>
              c \notin fDoubt /\ (CanSend(c)' => CanSend(c))
<1> DEFINE b == fRequests[s].client
           state == IF ok THEN "success" ELSE "error"
           new == [fForm[b] EXCEPT !.state = state, !.text = @ /\ ~ok, !.shot = @ /\ ~ok]
<1>1. b \in Clients
  BY FreeFacts DEF FormTypes, StartedRequests
<1>2. fForm[b] \in Forms
  BY <1>1 DEF FormTypes
<1>3. state \in {"idle", "submitting", "success", "error"}
  OBVIOUS
<1>4. new \in Forms /\ (new.text => fForm[b].text /\ ~ok)
  <2> HIDE DEF state
  <2>1. \A f \in Forms, p, q \in BOOLEAN :
          /\ [f EXCEPT !.state = state, !.text = p, !.shot = q] \in Forms
          /\ [f EXCEPT !.state = state, !.text = p, !.shot = q].text = p
    BY <1>3 DEF Forms
  <2>2. (fForm[b].text /\ ~ok) \in BOOLEAN /\ (fForm[b].shot /\ ~ok) \in BOOLEAN
    OBVIOUS
  <2>3. new = [fForm[b] EXCEPT !.state = state, !.text = fForm[b].text /\ ~ok,
                               !.shot = fForm[b].shot /\ ~ok]
    BY <1>2, Zenon DEF Forms
  <2> HIDE DEF new, b
  <2> QED BY <1>2, <2>1, <2>2, <2>3
<1>5. fForm' = [fForm EXCEPT ![b] = new]
  <2>1. fForm' = [fForm EXCEPT ![b].state = state, ![b].text = @ /\ ~ok, ![b].shot = @ /\ ~ok]
    BY DEF Form!Answer
  <2> HIDE DEF state, b
  <2> QED BY <1>1, <1>2, <2>1 DEF FormTypes, Forms
<1>6. fRequests' = [fRequests EXCEPT ![s] = Form!Free]
      /\ fDoubt' = IF ok THEN fDoubt ELSE fDoubt \cup {b}
  BY DEF Form!Answer
<1> HIDE DEF new, b, state
<1>7. /\ fForm' \in [Clients -> Forms] /\ fForm'[b] = new
      /\ \A c \in Clients : c # b => fForm'[c] = fForm[c]
  BY <1>1, <1>4, <1>5, OneFormChanges
<1>8. ASSUME NEW c \in Clients, c \notin fDoubt'
      PROVE  c \notin fDoubt /\ (CanSend(c)' => CanSend(c))
  <2>1. CASE c = b
    BY <1>4, <1>6, <1>7, <1>8, <2>1 DEF CanSend
  <2>2. CASE c # b
    BY <1>6, <1>7, <1>8, <2>2 DEF CanSend
  <2> QED BY <2>1, <2>2
<1> QED BY <1>6, <1>7, <1>8

\* An answer ends a request and creates nothing.
LEMMA AnswerEnds ==
  ASSUME FormIInv, NEW s \in Slots, NEW ok \in BOOLEAN, Form!Answer(s, ok),
         fRequests[s].step \notin {"free", "fetch", "wait"},
         UNCHANGED <<fToday, fPendingToken, fIssues, fCopies>>,
         fAccepted' \in [day : Nat, count : Nat], fLost' \in [1..MaxDay -> Nat]
  PROVE  /\ FormTypes' /\ TokenIsFetched' /\ \A c \in Clients : OneForText(c)'
         /\ UnderWay' \subseteq UnderWay
         /\ Waiting \ {s} \subseteq Waiting'
         /\ fRequests[s].step # "created" => Waiting \subseteq Waiting'
<1>1. FormTypes
  BY DEF FormIInv
<1>2. /\ fForm' \in [Clients -> Forms]
      /\ fRequests' = [fRequests EXCEPT ![s] = Form!Free]
      /\ \A c \in Clients : c \notin fDoubt' =>
           c \notin fDoubt /\ (CanSend(c)' => CanSend(c))
  BY <1>1, AnswerFacts
<1>3. /\ fRequests' \in [Slots -> FormRequests]
      /\ UnderWay' \subseteq UnderWay
      /\ \A c \in Clients, t \in Slots : OfText(t, c)' =>
           /\ OfText(t, c)
           /\ fRequests[t].step \in Over => fRequests'[t].step \in Over
      /\ Waiting \ {s} \subseteq Waiting'
      /\ fRequests[s].step # "created" => Waiting \subseteq Waiting'
  BY <1>1, <1>2, RequestsEnd, RequestGoesOn
<1>4. FormTypes'
  BY <1>1, <1>2, <1>3 DEF FormTypes
<1>5. TokenIsFetched'
  BY <1>1, <1>2, OneRequestChanges, FreeFacts, TokenKept DEF FormIInv
<1>6. ASSUME NEW c \in Clients PROVE OneForText(c)'
  BY <1>2, <1>3, TextKept DEF FormIInv
<1> QED BY <1>3, <1>4, <1>5, <1>6

LEMMA AnsweredKeeps ==
  ASSUME FormIInv, NEW s \in Slots, NEW ok \in BOOLEAN, Form!Answer(s, ok),
         fRequests[s].step \notin {"free", "fetch", "wait", "created"},
         UNCHANGED <<fBucket, fToday, fAccepted, fPendingToken, fIssues, fLost, fCopies>>,
         ~fBucket /\ fShutdown = fToday => fShutdown' = fToday
  PROVE  FormIInv'
<1>1. FormTypes /\ fAccepted' \in [day : Nat, count : Nat] /\ fLost' \in [1..MaxDay -> Nat]
  BY DEF FormIInv, FormTypes
<1>2. /\ FormTypes' /\ TokenIsFetched' /\ \A c \in Clients : OneForText(c)'
      /\ UnderWay' \subseteq UnderWay /\ Waiting \subseteq Waiting'
  BY <1>1, AnswerEnds
<1>3. DayIsCounted'
  BY <1>1, <1>2, DayKept DEF FormIInv
<1> QED BY <1>2, <1>3 DEF FormIInv

LEMMA MovedKeeps ==
  ASSUME FormIInv, NEW s \in Slots, NEW step, Form!GoTo(s, step),
         step \in {"verify", "token", "fetch", "wait", "issue"},
         fRequests[s].step \notin {"free", "created", "record", "fetch", "wait"},
         UNCHANGED <<fForm, fBucket, fToday, fAccepted, fIssues, fLost, fCopies, fDoubt>>,
         ~fBucket /\ fShutdown = fToday => fShutdown' = fToday
  PROVE  /\ FormTypes' /\ (\A c \in Clients : OneForText(c)') /\ DayIsCounted'
         /\ fRequests'[s].step = step
         /\ \A t \in Slots : t # s => fRequests'[t] = fRequests[t]
         /\ UNCHANGED fPendingToken /\ step \notin {"fetch", "wait"} => TokenIsFetched'
<1> DEFINE new == [fRequests[s] EXCEPT !.step = step]
<1>1. FormTypes
  BY DEF FormIInv
<1>2. RequestAfter(s, new) /\ new.step = step
  BY <1>1, RequestsMoveOn DEF Over
<1>3. fRequests' = [fRequests EXCEPT ![s] = new]
  BY <1>1 DEF Form!GoTo, FormTypes
<1> HIDE DEF new
<1>4. /\ fRequests' \in [Slots -> FormRequests] /\ fRequests'[s].step = step
      /\ \A t \in Slots : t # s => fRequests'[t] = fRequests[t]
  BY <1>1, <1>2, <1>3, OneRequestChanges DEF RequestAfter
<1>5. /\ UnderWay' \subseteq UnderWay
      /\ \A c \in Clients, t \in Slots : OfText(t, c)' =>
           /\ OfText(t, c)
           /\ fRequests[t].step \in Over => fRequests'[t].step \in Over
      /\ Waiting \subseteq Waiting'
  BY <1>1, <1>2, <1>3, RequestGoesOn
<1>6. FormTypes'
  BY <1>1, <1>4 DEF FormTypes
<1>7. UNCHANGED fPendingToken /\ step \notin {"fetch", "wait"} => TokenIsFetched'
  BY <1>4, TokenKept DEF FormIInv
<1>8. ASSUME NEW c \in Clients PROVE OneForText(c)'
  <2>1. CanSend(c)' => CanSend(c)
    BY DEF CanSend
  <2> QED BY <1>5, <2>1, TextKept DEF FormIInv
<1>9. DayIsCounted'
  BY <1>1, <1>5, <1>6, DayKept DEF FormIInv
<1> QED BY <1>4, <1>6, <1>7, <1>8, <1>9

\* A step that touches neither the requests nor what is counted.
LEMMA FormAloneKeeps ==
  ASSUME FormIInv, fForm' \in [Clients -> Forms],
         UNCHANGED <<fRequests, fBucket, fToday, fShutdown, fAccepted, fPendingToken, fIssues,
                     fLost, fCopies>>,
         \A c \in Clients : c \notin fDoubt' => c \notin fDoubt /\ (CanSend(c)' => CanSend(c))
  PROVE  FormIInv'
<1>1. FormTypes'
  BY DEF FormIInv, FormTypes
<1>2. TokenIsFetched'
  BY TokenKept DEF FormIInv
<1>3. ASSUME NEW c \in Clients PROVE OneForText(c)'
  <2>1. \A s \in Slots : OfText(s, c)' => OfText(s, c)
    BY DEF OfText
  <2> QED BY <2>1, TextKept DEF FormIInv
<1>4. DayIsCounted'
  <2>1. UnderWay' \subseteq UnderWay /\ Waiting \subseteq Waiting'
    BY DEF UnderWay, Waiting
  <2> QED BY <1>1, <2>1, DayKept DEF FormIInv
<1> QED BY <1>1, <1>2, <1>3, <1>4 DEF FormIInv

\* Opening, closing and the screenshot offer nothing new to send.
LEMMA ToggleKeeps ==
  ASSUME FormIInv, NEW c \in Clients, Form!Toggle(c)
  PROVE  FormIInv'
<1> DEFINE opened == ~fForm[c].open
           state == IF fForm[c].open THEN "idle" ELSE fForm[c].state
           new == [fForm[c] EXCEPT !.open = opened, !.state = state]
<1>1. fForm[c] \in Forms /\ FormTypes
  BY DEF FormIInv, FormTypes
<1>2. opened \in BOOLEAN /\ state \in {"idle", "submitting", "success", "error"}
  BY <1>1 DEF Forms
<1>3. fForm' = [fForm EXCEPT ![c] = new]
  <2>1. fForm' = [fForm EXCEPT ![c].open = ~@,
                               ![c].state = IF fForm[c].open THEN "idle" ELSE @]
    BY DEF Form!Toggle
  <2> QED BY <1>1, <2>1 DEF FormTypes, Forms
<1>4. new \in Forms /\ new.text = fForm[c].text /\ new.state = state
  <2> HIDE DEF opened, state
  <2> QED BY <1>1, <1>2 DEF Forms
<1> HIDE DEF new
<1>5. /\ fForm' \in [Clients -> Forms] /\ fForm'[c] = new
      /\ \A b \in Clients : b # c => fForm'[b] = fForm[b]
  BY <1>1, <1>3, <1>4, OneFormChanges
<1>6. /\ fForm[c].open => fDoubt' = fDoubt \cup {c}
      /\ ~fForm[c].open => fDoubt' = fDoubt
      /\ UNCHANGED <<fRequests, fBucket, fToday, fShutdown, fAccepted, fPendingToken, fIssues,
                     fLost, fCopies>>
  BY DEF Form!Toggle, Form!serverVars
<1>7. ASSUME NEW b \in Clients, b \notin fDoubt'
      PROVE  b \notin fDoubt /\ (CanSend(b)' => CanSend(b))
  <2>1. CASE b = c
    BY <1>4, <1>5, <1>6, <1>7, <2>1 DEF CanSend
  <2>2. CASE b # c
    BY <1>5, <1>6, <1>7, <2>2 DEF CanSend
  <2> QED BY <2>1, <2>2
<1> QED BY <1>5, <1>6, <1>7, FormAloneKeeps

LEMMA CaptureKeeps ==
  ASSUME FormIInv, NEW c \in Clients, Form!Capture(c)
  PROVE  FormIInv'
<1>1. fForm[c] \in Forms /\ FormTypes
  BY DEF FormIInv, FormTypes
<1>2. PICK shot \in BOOLEAN, state \in {"idle", "submitting", "success", "error"} :
        fForm' = [fForm EXCEPT ![c] = [@ EXCEPT !.shot = shot, !.state = state]]
  <2>1. CASE fForm' = [fForm EXCEPT ![c].shot = ~@,
                                    ![c].state = IF fForm[c].shot THEN @ ELSE "idle"]
    <3> DEFINE state == IF fForm[c].shot THEN fForm[c].state ELSE "idle"
               shot == ~fForm[c].shot
    <3>1. shot \in BOOLEAN /\ state \in {"idle", "submitting", "success", "error"}
      BY <1>1 DEF Forms
    <3>2. fForm' = [fForm EXCEPT ![c] = [@ EXCEPT !.shot = shot, !.state = state]]
      BY <1>1, <2>1 DEF FormTypes, Forms
    <3> HIDE DEF shot, state
    <3> QED BY <3>1, <3>2
  <2>2. CASE fForm' = [fForm EXCEPT ![c].state = "error"]
    <3>1. fForm[c].shot \in BOOLEAN
      BY <1>1 DEF Forms
    <3>2. fForm' = [fForm EXCEPT ![c] = [@ EXCEPT !.shot = fForm[c].shot, !.state = "error"]]
      BY <1>1, <2>2 DEF FormTypes, Forms
    <3> QED BY <3>1, <3>2
  <2> QED BY <2>1, <2>2 DEF Form!Capture
<1> DEFINE new == [fForm[c] EXCEPT !.shot = shot, !.state = state]
<1>3. new \in Forms /\ new.text = fForm[c].text
  BY <1>1 DEF Forms
<1>4. fForm' = [fForm EXCEPT ![c] = new]
  BY <1>2
<1> HIDE DEF new
<1>5. /\ fForm' \in [Clients -> Forms] /\ fForm'[c] = new
      /\ \A b \in Clients : b # c => fForm'[b] = fForm[b]
  BY <1>1, <1>3, <1>4, OneFormChanges
<1>6. /\ fForm[c].state # "submitting" /\ fDoubt' = fDoubt
      /\ UNCHANGED <<fRequests, fBucket, fToday, fShutdown, fAccepted, fPendingToken, fIssues,
                     fLost, fCopies>>
  BY DEF Form!Capture, Form!serverVars
<1>7. ASSUME NEW b \in Clients PROVE CanSend(b)' => CanSend(b)
  <2>1. CASE b = c
    BY <1>3, <1>5, <1>6, <2>1 DEF CanSend
  <2>2. CASE b # c
    BY <1>5, <2>2 DEF CanSend
  <2> QED BY <2>1, <2>2
<1> QED BY <1>5, <1>6, <1>7, FormAloneKeeps

\* Another text has no request of its own yet.
LEMMA WriteKeeps ==
  ASSUME FormIInv, NEW c \in Clients, Form!Write(c)
  PROVE  FormIInv'
<1> DEFINE new == [fForm[c] EXCEPT !.text = TRUE]
<1>1. FormTypes /\ fForm[c] \in Forms
  BY DEF FormIInv, FormTypes
<1>2. /\ fForm' = [fForm EXCEPT ![c].text = TRUE]
      /\ fCopies' = [fCopies EXCEPT ![c] = 0] /\ fDoubt' = fDoubt \ {c}
      /\ fRequests' = [s \in Slots |->
           IF fRequests[s].client = c THEN [fRequests[s] EXCEPT !.mine = FALSE]
           ELSE fRequests[s]]
      /\ UNCHANGED <<fBucket, fToday, fShutdown, fAccepted, fPendingToken, fIssues, fLost>>
  BY DEF Form!Write
<1>3. new \in Forms /\ fForm' = [fForm EXCEPT ![c] = new]
  BY <1>1, <1>2 DEF FormTypes, Forms
<1> HIDE DEF new
<1>4. fForm' \in [Clients -> Forms] /\ \A b \in Clients : b # c => fForm'[b] = fForm[b]
  BY <1>1, <1>3, OneFormChanges
<1>5. /\ fCopies' \in [Clients -> Nat] /\ fCopies'[c] = 0
      /\ \A b \in Clients : b # c => fCopies'[b] = fCopies[b]
  BY <1>1, <1>2 DEF FormTypes
<1>6. ASSUME NEW s \in Slots
      PROVE  /\ fRequests'[s] \in FormRequests
             /\ fRequests'[s].step = fRequests[s].step
             /\ fRequests'[s].client = fRequests[s].client
             /\ IF fRequests[s].client = c THEN ~fRequests'[s].mine
                                           ELSE fRequests'[s] = fRequests[s]
  <2>1. fRequests[s] \in FormRequests
    BY <1>1 DEF FormTypes
  <2>2. CASE fRequests[s].client # c
    BY <1>2, <2>1, <2>2
  <2>3. CASE fRequests[s].client = c
    <3>1. fRequests'[s] = [fRequests[s] EXCEPT !.mine = FALSE]
      BY <1>2, <2>3
    <3>2. CASE fRequests[s] \in StartedRequests
      <4>1. LET q == [fRequests[s] EXCEPT !.mine = FALSE]
            IN  /\ q \in StartedRequests /\ q.mine = FALSE
                /\ q.step = fRequests[s].step /\ q.client = fRequests[s].client
        BY <3>2 DEF StartedRequests
      <4> QED BY <2>3, <3>1, <4>1 DEF FormRequests
    <3>3. CASE fRequests[s] = Form!Free
      BY <2>3, <3>3, FormAssumed DEF Form!Free, Form!FeedbackAssumption
    <3> QED BY <2>1, <3>2, <3>3 DEF FormRequests
  <2> QED BY <2>2, <2>3
<1>7. fRequests' \in [Slots -> FormRequests]
  BY <1>2, <1>6
<1>8. FormTypes'
  BY <1>1, <1>2, <1>4, <1>5, <1>7 DEF FormTypes
<1>9. TokenIsFetched'
  BY <1>2, <1>6, TokenKept DEF FormIInv
<1>10. ASSUME NEW b \in Clients PROVE OneForText(b)'
  <2>1. CASE b = c
    <3>1. \A s \in Slots : ~OfText(s, c)'
      BY <1>6 DEF OfText
    <3> QED BY <1>5, <2>1, <3>1 DEF OneForText
  <2>2. CASE b # c
    <3>1. CanSend(b)' => CanSend(b)
      BY <1>4, <2>2 DEF CanSend
    <3>2. \A s \in Slots : OfText(s, b)' =>
            OfText(s, b) /\ fRequests'[s].step = fRequests[s].step
      BY <1>6, <2>2 DEF OfText
    <3> QED BY <1>2, <1>5, <2>2, <3>1, <3>2, TextKept DEF FormIInv
  <2> QED BY <2>1, <2>2
<1>11. DayIsCounted'
  <2>1. UnderWay' \subseteq UnderWay /\ Waiting \subseteq Waiting'
    BY <1>2, <1>6 DEF UnderWay, Waiting
  <2> QED BY <1>1, <1>2, <1>8, <2>1, DayKept DEF FormIInv
<1> QED BY <1>8, <1>9, <1>10, <1>11 DEF FormIInv

\* A request is sent only while the day is open, and for a text without one.
LEMMA SubmitKeeps ==
  ASSUME FormIInv, NEW c \in Clients, Form!Submit(c)
  PROVE  FormIInv'
<1> DEFINE Refused == fShutdown = fToday \/ fRate[c] >= RateMax
<1>1. FormTypes /\ fForm[c] \in Forms
  BY DEF FormIInv, FormTypes
<1>2. /\ CanSend(c)
      /\ fShutdown' = (IF fShutdown = fToday THEN fToday ELSE 0)
      /\ UNCHANGED <<fBucket, fToday, fAccepted, fPendingToken, fIssues, fLost, fCopies>>
  BY DEF Form!Submit, Form!CanSubmit, CanSend
<1>3. CASE Refused
  <2> DEFINE new == [fForm[c] EXCEPT !.state = "error"]
  <2>1. /\ fForm' = [fForm EXCEPT ![c] = new] /\ fDoubt' = fDoubt \cup {c}
        /\ fRequests' = fRequests
    BY <1>1, <1>3 DEF Form!Submit, FormTypes, Forms
  <2>2. new \in Forms
    BY <1>1 DEF Forms
  <2> HIDE DEF new
  <2>3. fForm' \in [Clients -> Forms] /\ \A b \in Clients : b # c => fForm'[b] = fForm[b]
    BY <1>1, <2>1, <2>2, OneFormChanges
  <2>4. FormTypes'
    BY <1>1, <1>2, <2>1, <2>3 DEF FormTypes
  <2>5. TokenIsFetched'
    BY <1>2, <2>1, TokenKept DEF FormIInv
  <2>6. ASSUME NEW b \in Clients PROVE OneForText(b)'
    <3>1. CASE b = c
      BY <2>1, <3>1 DEF OneForText
    <3>2. CASE b # c
      <4>1. CanSend(b)' => CanSend(b)
        BY <2>3, <3>2 DEF CanSend
      <4>2. \A s \in Slots : OfText(s, b)' => OfText(s, b)
        BY <2>1 DEF OfText
      <4> QED BY <1>2, <2>1, <3>2, <4>1, <4>2, TextKept DEF FormIInv
    <3> QED BY <3>1, <3>2
  <2>7. DayIsCounted'
    <3>1. UnderWay' \subseteq UnderWay /\ Waiting \subseteq Waiting'
      BY <1>2, <2>1 DEF UnderWay, Waiting
    <3> QED BY <1>1, <1>2, <2>4, <3>1, DayKept DEF FormIInv
  <2> QED BY <2>4, <2>5, <2>6, <2>7 DEF FormIInv
<1>4. CASE ~Refused
  <2>1. PICK s \in Slots :
          /\ fRequests[s] = Form!Free
          /\ fRequests' = [fRequests EXCEPT ![s] =
               [client |-> c, step |-> "guard", day |-> fToday,
                shot |-> fForm[c].shot, mine |-> TRUE]]
    BY <1>4 DEF Form!Submit
  <2>2. fForm' = [fForm EXCEPT ![c].state = "submitting"] /\ fDoubt' = fDoubt
    BY <1>4 DEF Form!Submit
  <2> DEFINE new == [fForm[c] EXCEPT !.state = "submitting"]
             sent == [client |-> c, step |-> "guard", day |-> fToday,
                      shot |-> fForm[c].shot, mine |-> TRUE]
  <2>3. /\ new \in Forms /\ new.state = "submitting" /\ fForm' = [fForm EXCEPT ![c] = new]
    BY <1>1, <2>2 DEF FormTypes, Forms
  <2>4. /\ sent \in FormRequests /\ sent.step = "guard" /\ sent.client = c /\ sent.mine
        /\ fRequests' = [fRequests EXCEPT ![s] = sent]
    <3>1. fToday \in Nat /\ fForm[c].shot \in BOOLEAN
      BY <1>1 DEF FormTypes, Forms
    <3> QED BY <2>1, <3>1 DEF FormRequests, StartedRequests
  <2> HIDE DEF new, sent
  <2>5. /\ fForm' \in [Clients -> Forms] /\ fForm'[c] = new
        /\ \A b \in Clients : b # c => fForm'[b] = fForm[b]
    BY <1>1, <2>3, OneFormChanges
  <2>6. /\ fRequests' \in [Slots -> FormRequests] /\ fRequests'[s] = sent
        /\ \A t \in Slots : t # s => fRequests'[t] = fRequests[t]
    BY <1>1, <2>4, OneRequestChanges
  <2>7. FormTypes'
    BY <1>1, <1>2, <2>5, <2>6 DEF FormTypes
  <2>8. TokenIsFetched'
    BY <1>2, <2>1, <2>4, <2>6, FreeFacts, TokenKept DEF FormIInv
  <2>9. ASSUME NEW b \in Clients PROVE OneForText(b)'
    <3>1. CASE b = c
      <4>1. ~CanSend(c)'
        BY <2>3, <2>5 DEF CanSend
      <4>2. c \notin fDoubt => fCopies[c] = 0 /\ \A t \in Slots : ~OfText(t, c)
        BY <1>2 DEF FormIInv, OneForText
      <4>3. c \notin fDoubt => \A t \in Slots : OfText(t, c)' => t = s
        BY <2>6, <4>2 DEF OfText
      <4> QED BY <1>2, <2>2, <3>1, <4>1, <4>2, <4>3 DEF OneForText
    <3>2. CASE b # c
      <4>1. CanSend(b)' => CanSend(b)
        BY <2>5, <3>2 DEF CanSend
      <4>2. \A t \in Slots : OfText(t, b)' => t # s /\ OfText(t, b)
        BY <2>4, <2>6, <3>2 DEF OfText
      <4> QED BY <1>2, <2>2, <2>6, <4>1, <4>2, TextKept DEF FormIInv
    <3> QED BY <3>1, <3>2
  <2>10. DayIsCounted'
    <3>1. Waiting \subseteq Waiting'
      BY <1>2, <2>1, <2>6, FreeFacts DEF Waiting
    <3> QED BY <1>1, <1>2, <1>4, <2>7, <3>1, DayKept DEF FormIInv
  <2> QED BY <2>7, <2>8, <2>9, <2>10 DEF FormIInv
<1> QED BY <1>3, <1>4

\* The token arrives for the slot that fetches it and for all who wait.
LEMMA TokenArrivesKeeps ==
  ASSUME FormIInv, NEW s \in Slots, Form!TokenArrives(s)
  PROVE  FormIInv'
<1>1. FormTypes /\ TokenIsFetched /\ fPendingToken = s
  BY DEF FormIInv, TokenIsFetched, Form!TokenArrives, Form!At
<1>2. /\ fRequests' = [t \in Slots |-> IF t = s \/ fRequests[t].step = "wait"
                                         THEN [fRequests[t] EXCEPT !.step = "issue"]
                                         ELSE fRequests[t]]
      /\ fPendingToken' = 0 /\ fRequests[s].step = "fetch"
      /\ UNCHANGED <<fForm, fBucket, fToday, fShutdown, fAccepted, fIssues, fLost, fCopies,
                     fDoubt>>
  BY <1>1 DEF Form!TokenArrives, Form!ResetPending, Form!At
<1>3. ASSUME NEW t \in Slots
      PROVE  /\ fRequests'[t] \in FormRequests
             /\ fRequests'[t].client = fRequests[t].client
             /\ fRequests'[t].mine = fRequests[t].mine
             /\ fRequests'[t].day = fRequests[t].day
             /\ \/ fRequests'[t].step = fRequests[t].step
                \/ fRequests'[t].step = "issue" /\ fRequests[t].step \in {"fetch", "wait"}
             /\ fRequests'[t].step \notin {"fetch", "wait"}
  <2>1. fRequests[t] \in FormRequests
    BY <1>1 DEF FormTypes
  <2>2. CASE t = s \/ fRequests[t].step = "wait"
    <3>1. fRequests[t] \in StartedRequests /\ fRequests[t].step \in {"fetch", "wait"}
      BY <1>2, <2>1, <2>2, FreeFacts
    <3>2. LET q == [fRequests[t] EXCEPT !.step = "issue"]
          IN  /\ q \in StartedRequests /\ q.step = "issue"
              /\ q.client = fRequests[t].client /\ q.mine = fRequests[t].mine
              /\ q.day = fRequests[t].day
      BY <3>1 DEF StartedRequests
    <3> QED BY <1>2, <2>2, <3>1, <3>2 DEF FormRequests
  <2>3. CASE ~(t = s \/ fRequests[t].step = "wait")
    BY <1>1, <1>2, <2>1, <2>3 DEF TokenIsFetched
  <2> QED BY <2>2, <2>3
<1>4. FormTypes'
  <2>1. fRequests' \in [Slots -> FormRequests]
    BY <1>2, <1>3
  <2> QED BY <1>1, <1>2, <2>1 DEF FormTypes
<1>5. TokenIsFetched'
  BY <1>2, <1>3 DEF TokenIsFetched
<1>6. ASSUME NEW c \in Clients PROVE OneForText(c)'
  <2>1. CanSend(c)' => CanSend(c)
    BY <1>2 DEF CanSend
  <2>2. \A t \in Slots : OfText(t, c)' =>
          /\ OfText(t, c)
          /\ fRequests[t].step \in Over => fRequests'[t].step \in Over
    BY <1>3 DEF OfText, Over
  <2> QED BY <1>2, <2>1, <2>2, TextKept DEF FormIInv
<1>7. DayIsCounted'
  <2>1. UnderWay' \subseteq UnderWay /\ Waiting \subseteq Waiting'
    BY <1>2, <1>3 DEF UnderWay, Waiting, Over
  <2> QED BY <1>1, <1>2, <1>4, <2>1, DayKept DEF FormIInv
<1> QED BY <1>4, <1>5, <1>6, <1>7 DEF FormIInv

\* Everyone who waits is told when the token cannot be had.
LEMMA TokenFailsKeeps ==
  ASSUME FormIInv, NEW s \in Slots, Form!TokenFails(s)
  PROVE  FormIInv'
<1> DEFINE failed == {t \in Slots : t = s \/ fRequests[t].step = "wait"}
           told == {fRequests[t].client : t \in failed}
<1>1. FormTypes /\ TokenIsFetched /\ fPendingToken = s
  BY DEF FormIInv, TokenIsFetched, Form!TokenFails, Form!At
<1>2. /\ fRequests' = [t \in Slots |-> IF t \in failed THEN Form!Free ELSE fRequests[t]]
      /\ fForm' = [c \in Clients |-> IF c \in told THEN [fForm[c] EXCEPT !.state = "error"]
                                     ELSE fForm[c]]
      /\ fDoubt' = fDoubt \cup told
      /\ fPendingToken' = 0 /\ fRequests[s].step = "fetch"
      /\ UNCHANGED <<fBucket, fToday, fShutdown, fAccepted, fIssues, fLost, fCopies>>
  BY <1>1 DEF Form!TokenFails, Form!ResetPending, Form!At
<1>3. ASSUME NEW t \in Slots
      PROVE  /\ fRequests'[t] \in FormRequests
             /\ fRequests'[t] = Form!Free \/ fRequests'[t] = fRequests[t]
             /\ fRequests'[t].step \notin {"fetch", "wait"}
             /\ fRequests[t].step = "created" => fRequests'[t] = fRequests[t]
  <2>1. fRequests[t] \in FormRequests
    BY <1>1 DEF FormTypes
  <2>2. t \in failed => fRequests[t].step \in {"fetch", "wait"}
    BY <1>2
  <2>3. t \notin failed => fRequests[t].step \notin {"fetch", "wait"}
    BY <1>1 DEF TokenIsFetched
  <2> HIDE DEF failed
  <2> QED BY <1>2, <2>1, <2>2, <2>3, FreeFacts
<1>4. ASSUME NEW c \in Clients
      PROVE  /\ fForm'[c] \in Forms
             /\ c \notin fDoubt' => c \notin fDoubt /\ fForm'[c] = fForm[c]
  <2>1. fForm[c] \in Forms
    BY <1>1 DEF FormTypes
  <2>2. [fForm[c] EXCEPT !.state = "error"] \in Forms
    BY <2>1 DEF Forms
  <2> HIDE DEF told
  <2> QED BY <1>2, <2>1, <2>2
<1> HIDE DEF failed, told
<1>5. FormTypes'
  <2>1. fRequests' \in [Slots -> FormRequests] /\ fForm' \in [Clients -> Forms]
    BY <1>2, <1>3, <1>4
  <2> QED BY <1>1, <1>2, <2>1 DEF FormTypes
<1>6. TokenIsFetched'
  BY <1>2, <1>3 DEF TokenIsFetched
<1>7. ASSUME NEW c \in Clients PROVE OneForText(c)'
  <2>1. c \notin fDoubt' => c \notin fDoubt /\ (CanSend(c)' => CanSend(c))
    BY <1>4 DEF CanSend
  <2>2. \A t \in Slots : OfText(t, c)' => OfText(t, c) /\ fRequests'[t] = fRequests[t]
    BY <1>3, FreeFacts DEF OfText
  <2> QED BY <1>2, <2>1, <2>2, TextKept DEF FormIInv
<1>8. DayIsCounted'
  <2>1. UnderWay' \subseteq UnderWay /\ Waiting \subseteq Waiting'
    BY <1>2, <1>3, FreeFacts DEF UnderWay, Waiting, Over
  <2> QED BY <1>1, <1>2, <1>5, <2>1, DayKept DEF FormIInv
<1> QED BY <1>5, <1>6, <1>7, <1>8 DEF FormIInv

\* A count that moves on stays a count.
LEMMA OneMore ==
  ASSUME NEW S, NEW f \in [S -> Nat], NEW x
  PROVE  [f EXCEPT ![x] = @ + 1] \in [S -> Nat]
<1>1. CASE x \in S
  <2>1. f[x] + 1 \in Nat
    BY <1>1
  <2> QED BY <1>1, <2>1
<1>2. CASE x \notin S
  <2>1. \A y \in S : [f EXCEPT ![x] = @ + 1][y] = f[y]
    BY <1>2
  <2> QED BY <2>1
<1> QED BY <1>1, <1>2

\* One issue more, for which a request waits: that request can create no other.
LEMMA CreatedIsCounted ==
  ASSUME FormIInv, FormTypes', NEW s \in Slots, Form!IssueCreated(s),
         UnderWay' \subseteq UnderWay \ {s}, Waiting \subseteq Waiting', s \in Waiting'
  PROVE  DayIsCounted'
<1>1. /\ fIssues' = [fIssues EXCEPT ![fToday] = @ + 1]
      /\ UNCHANGED <<fBucket, fToday, fShutdown, fAccepted, fLost>>
      /\ fRequests[s].step = "issue"
  BY DEF Form!IssueCreated, Form!At
<1>2. FormTypes /\ DayIsCounted
  BY DEF FormIInv
<1>3. /\ fIssues[fToday] \in Nat /\ fLost[fToday] \in Nat /\ Limit \in Nat /\ Counted \in Nat
      /\ Counted' = Counted /\ Limit' = Limit /\ fAccepted'.day <= fToday
      /\ fIssues'[fToday] = fIssues[fToday] + 1
      /\ \A d \in 1..MaxDay : d # fToday => fIssues'[d] = fIssues[d] /\ fLost'[d] >= fLost[d]
  BY <1>1, <1>2, DayFacts DEF Counted, Limit, DayIsCounted, FormTypes
<1>4. /\ Cardinality(UnderWay) \in Nat /\ Cardinality(UnderWay') \in Nat
      /\ Cardinality(UnderWay') <= Cardinality(UnderWay) - 1
  <2>1. UnderWay \in SUBSET Slots /\ UnderWay' \in SUBSET Slots /\ s \in UnderWay
    BY <1>1 DEF UnderWay, Over
  <2> HIDE DEF UnderWay
  <2>2. UnderWay \ {s} \in SUBSET Slots
    BY <2>1
  <2>3. Cardinality(UnderWay') <= Cardinality(UnderWay \ {s})
    BY <2>2, SlotsAreFinite, FS_Subset
  <2> QED BY <2>1, <2>3, SlotsAreFinite
<1>5. /\ Cardinality(Waiting) \in Nat /\ Cardinality(Waiting') \in Nat
      /\ Cardinality(Waiting) <= Cardinality(Waiting') - 1
  <2>1. Waiting \in SUBSET Slots /\ Waiting' \in SUBSET Slots /\ s \notin Waiting
    BY <1>1 DEF Waiting
  <2> HIDE DEF Waiting
  <2>2. Waiting' \ {s} \in SUBSET Slots /\ Waiting \subseteq Waiting' \ {s}
    BY <2>1
  <2>3. Cardinality(Waiting) <= Cardinality(Waiting' \ {s})
    BY <2>2, SlotsAreFinite, FS_Subset
  <2> QED BY <2>1, <2>3, SlotsAreFinite
<1> HIDE DEF UnderWay, Waiting, Counted, Limit
<1>6. fIssues'[fToday] <= Counted' + fLost'[fToday] + Cardinality(Waiting')
  BY <1>1, <1>2, <1>3, <1>5 DEF DayIsCounted
<1>7. ~fBucket /\ Counted' >= Threshold => DayIsOver'
  BY <1>1, <1>2, <1>3, <1>4 DEF DayIsCounted, DayIsOver
<1> QED BY <1>1, <1>2, <1>3, <1>6, <1>7, DayFollows

\* What the answer of GitHub does to the requests that wait for one about an issue of today.
LEMMA WaitingEnds ==
  ASSUME FormTypes, FormTypes', NEW s \in Slots, Waiting \ {s} \subseteq Waiting'
  PROVE  /\ Cardinality(Waiting) \in Nat /\ Cardinality(Waiting') \in Nat
         /\ Cardinality(Waiting) <= Cardinality(Waiting') + 1
         /\ s \notin Waiting => Cardinality(Waiting) <= Cardinality(Waiting')
<1>1. Waiting \in SUBSET Slots /\ Waiting' \in SUBSET Slots
  BY DEF Waiting
<1> HIDE DEF Waiting
<1>2. Cardinality(Waiting \ {s}) <= Cardinality(Waiting')
  BY <1>1, SlotsAreFinite, FS_Subset
<1>3. CASE s \in Waiting
  BY <1>1, <1>2, <1>3, SlotsAreFinite
<1>4. CASE s \notin Waiting
  <2>1. Waiting \ {s} = Waiting
    BY <1>4
  <2>2. Cardinality(Waiting) \in Nat /\ Cardinality(Waiting') \in Nat
    BY <1>1, SlotsAreFinite
  <2>3. Cardinality(Waiting) <= Cardinality(Waiting')
    BY <1>2, <2>1
  <2> QED BY <1>4, <2>2, <2>3
<1> QED BY <1>3, <1>4

\* The answer arrives: the issue is counted, and the request that reaches the threshold
\* stops all but those under way.  None of these waits.
LEMMA CountMovesOn ==
  ASSUME FormIInv, FormTypes', NEW s \in Slots, Form!IssueCounted(s),
         UnderWay' \subseteq UnderWay, Waiting \ {s} \subseteq Waiting'
  PROVE  DayIsCounted'
<1>1. /\ fAccepted' = [day |-> fToday, count |-> Form!Count]
      /\ Form!Reached(Form!Count) => fShutdown' = fToday
      /\ UNCHANGED <<fBucket, fToday, fIssues, fLost>>
  BY DEF Form!IssueCounted
<1>2. FormTypes /\ DayIsCounted
  BY DEF FormIInv
<1>3. /\ fToday \in 1..MaxDay /\ fIssues[fToday] \in Nat /\ fLost[fToday] \in Nat
      /\ Threshold \in Nat /\ Cardinality(Slots) \in Nat /\ Counted \in Nat
      /\ Limit = Threshold + Cardinality(Slots) - 1 /\ Limit' = Limit
      /\ \A d \in 1..MaxDay : fIssues'[d] = fIssues[d] /\ fLost'[d] >= fLost[d]
  BY <1>1, <1>2, DayFacts DEF Limit
<1>4. Form!Count = Counted + 1 /\ Counted' = Counted + 1 /\ fAccepted'.day <= fToday
  <2>1. Form!Count = Counted + 1
    BY DEF Form!Count, Counted
  <2> QED BY <1>1, <1>3, <2>1 DEF Counted
<1>5. /\ Cardinality(Waiting) \in Nat /\ Cardinality(Waiting') \in Nat
      /\ Cardinality(Waiting) <= Cardinality(Waiting') + 1
  BY <1>2, WaitingEnds
<1>6. /\ Cardinality(UnderWay) \in Nat /\ Cardinality(UnderWay') \in Nat
      /\ Cardinality(UnderWay') <= Cardinality(UnderWay)
      /\ Cardinality(UnderWay) + Cardinality(Waiting) <= Cardinality(Slots)
  <2>1. /\ UnderWay \in SUBSET Slots /\ UnderWay' \in SUBSET Slots
        /\ Waiting \in SUBSET Slots /\ UnderWay \cap Waiting = {}
    BY <1>2, DayFacts DEF UnderWay
  <2> HIDE DEF UnderWay, Waiting
  <2>2. Cardinality(UnderWay') <= Cardinality(UnderWay)
    BY <2>1, SlotsAreFinite, FS_Subset
  <2>3. Cardinality(UnderWay) + Cardinality(Waiting) <= Cardinality(Slots)
    <3>1. IsFiniteSet(UnderWay) /\ IsFiniteSet(Waiting) /\ UnderWay \cup Waiting \in SUBSET Slots
      BY <2>1, SlotsAreFinite
    <3>2. Cardinality(UnderWay \cup Waiting) = Cardinality(UnderWay) + Cardinality(Waiting)
      <4>1. /\ Cardinality(UnderWay \cap Waiting) = 0
            /\ Cardinality(UnderWay) \in Nat /\ Cardinality(Waiting) \in Nat
        BY <2>1, SlotsAreFinite, FS_EmptySet
      <4>2. Cardinality(UnderWay \cup Waiting) =
              Cardinality(UnderWay) + Cardinality(Waiting) - Cardinality(UnderWay \cap Waiting)
        BY <3>1, FS_Union
      <4> QED BY <4>1, <4>2
    <3> QED BY <3>1, <3>2, SlotsAreFinite
  <2> QED BY <2>1, <2>2, <2>3, SlotsAreFinite
<1> HIDE DEF UnderWay, Waiting, Counted, Limit
<1>7. fIssues'[fToday] <= Counted' + fLost'[fToday] + Cardinality(Waiting')
  BY <1>1, <1>2, <1>3, <1>4, <1>5 DEF DayIsCounted
<1>8. ASSUME ~fBucket, Counted' >= Threshold PROVE DayIsOver'
  <2>1. fShutdown' = fToday
    BY <1>1, <1>4, <1>8 DEF Form!Reached
  <2>2. fIssues[fToday] + Cardinality(UnderWay) <= fLost[fToday] + Limit
    <3>1. CASE Counted >= Threshold
      BY <1>2, <1>8, <3>1 DEF DayIsCounted, DayIsOver
    <3>2. CASE ~(Counted >= Threshold)
      BY <1>2, <1>3, <1>5, <1>6, <3>2 DEF DayIsCounted
    <3> QED BY <3>1, <3>2
  <2> QED BY <1>1, <1>3, <1>6, <2>1, <2>2 DEF DayIsOver
<1> QED BY <1>1, <1>2, <1>3, <1>4, <1>7, <1>8, DayFollows

\* The answer is lost: the issue counts as lost on the day it was created.
LEMMA LossIsNoted ==
  ASSUME FormIInv, FormTypes', NEW s \in Slots, Form!AnswerLost(s),
         UnderWay' \subseteq UnderWay, Waiting \ {s} \subseteq Waiting'
  PROVE  DayIsCounted'
<1> DEFINE day == fRequests[s].day
<1>1. /\ fLost' = [fLost EXCEPT ![day] = @ + 1]
      /\ UNCHANGED <<fBucket, fToday, fShutdown, fAccepted, fIssues>>
  BY DEF Form!AnswerLost
<1>2. FormTypes /\ DayIsCounted
  BY DEF FormIInv
<1>3. /\ fToday \in 1..MaxDay /\ fIssues[fToday] \in Nat /\ fLost[fToday] \in Nat
      /\ Limit \in Nat /\ Counted \in Nat /\ Counted' = Counted /\ Limit' = Limit
      /\ fAccepted'.day <= fToday
  BY <1>1, <1>2, DayFacts DEF Counted, Limit, DayIsCounted
<1>4. /\ \A d \in 1..MaxDay : fIssues'[d] = fIssues[d] /\ fLost'[d] >= fLost[d]
      /\ day = fToday => fLost'[fToday] = fLost[fToday] + 1
      /\ fLost'[fToday] \in Nat
  <2>1. fLost \in [1..MaxDay -> Nat]
    BY <1>2 DEF FormTypes
  <2> HIDE DEF day
  <2> QED BY <1>1, <1>3, <2>1
<1>5. /\ Cardinality(Waiting) \in Nat /\ Cardinality(Waiting') \in Nat
      /\ Cardinality(Waiting) <= Cardinality(Waiting') + 1
      /\ day # fToday => Cardinality(Waiting) <= Cardinality(Waiting')
  <2>1. day # fToday => s \notin Waiting
    BY DEF Waiting
  <2> QED BY <1>2, <2>1, WaitingEnds
<1>6. /\ Cardinality(UnderWay) \in Nat /\ Cardinality(UnderWay') \in Nat
      /\ Cardinality(UnderWay') <= Cardinality(UnderWay)
  <2>1. UnderWay \in SUBSET Slots /\ UnderWay' \in SUBSET Slots
    BY DEF UnderWay
  <2> QED BY <2>1, SlotsAreFinite, FS_Subset
<1> HIDE DEF UnderWay, Waiting, Counted, Limit, day
<1>7. fIssues'[fToday] <= Counted' + fLost'[fToday] + Cardinality(Waiting')
  <2>1. fIssues[fToday] <= Counted + fLost[fToday] + Cardinality(Waiting)
    BY <1>2 DEF DayIsCounted
  <2>2. fIssues'[fToday] = fIssues[fToday] /\ fLost'[fToday] >= fLost[fToday]
    BY <1>3, <1>4
  <2>3. CASE day = fToday
    BY <1>3, <1>4, <1>5, <2>1, <2>2, <2>3
  <2>4. CASE day # fToday
    BY <1>3, <1>4, <1>5, <2>1, <2>2, <2>4
  <2> QED BY <2>3, <2>4
<1>8. ASSUME ~fBucket, Counted' >= Threshold PROVE DayIsOver'
  <2>1. DayIsOver /\ fLost'[fToday] >= fLost[fToday]
    BY <1>2, <1>3, <1>4, <1>8 DEF DayIsCounted
  <2> QED BY <1>1, <1>3, <1>4, <1>6, <2>1 DEF DayIsOver
<1> QED BY <1>1, <1>2, <1>3, <1>4, <1>7, <1>8, DayFollows

\* The issue of a text finds no button for it, and none of its other requests.
LEMMA IssueCreatedKeeps ==
  ASSUME FormIInv, NEW s \in Slots, Form!IssueCreated(s)
  PROVE  FormIInv'
<1> DEFINE owner == fRequests[s].client
           copied == IF fRequests[s].mine /\ fCopies[owner] < 2 THEN fCopies[owner] + 1
                     ELSE fCopies[owner]
           created == [fRequests[s] EXCEPT !.step = "created", !.day = fToday]
<1>1. FormTypes /\ fRequests[s].step = "issue" /\ fRequests[s] \in StartedRequests
  BY FreeFacts DEF FormIInv, FormTypes, Form!IssueCreated, Form!At
<1>2. owner \in Clients /\ fToday \in Nat
  BY <1>1 DEF StartedRequests, FormTypes
<1>3. /\ fCopies' = [fCopies EXCEPT ![owner] = copied]
      /\ fIssues' = [fIssues EXCEPT ![fToday] = @ + 1]
      /\ UNCHANGED <<fForm, fBucket, fToday, fAccepted, fPendingToken, fLost, fDoubt>>
  BY <1>1, <1>2 DEF Form!IssueCreated, FormTypes
<1>4. RequestAfter(s, created) /\ created.step = "created" /\ created.day = fToday
  BY <1>1, <1>2 DEF RequestAfter, StartedRequests, FormRequests, Over
<1>5. fRequests' = [fRequests EXCEPT ![s] = created]
  <2>1. fRequests' = [fRequests EXCEPT ![s].step = "created", ![s].day = fToday]
    BY DEF Form!IssueCreated
  <2> QED BY <1>1, <2>1 DEF FormTypes, StartedRequests
<1> HIDE DEF created
<1>6. /\ fRequests' \in [Slots -> FormRequests] /\ fRequests'[s] = created
      /\ \A t \in Slots : t # s => fRequests'[t] = fRequests[t]
  BY <1>1, <1>4, <1>5, OneRequestChanges DEF RequestAfter
<1>7. /\ UnderWay' \subseteq UnderWay \ {s} /\ Waiting \subseteq Waiting'
      /\ \A c \in Clients, t \in Slots : OfText(t, c)' =>
           /\ OfText(t, c)
           /\ fRequests[t].step \in Over => fRequests'[t].step \in Over
  <2>1. created.step \in Over
    BY <1>4 DEF Over
  <2> QED BY <1>1, <1>3, <1>4, <1>5, <2>1, RequestGoesOn
<1>8. /\ fCopies' \in [Clients -> Nat] /\ fCopies'[owner] = copied
      /\ \A c \in Clients : c # owner => fCopies'[c] = fCopies[c]
  <2>1. fCopies \in [Clients -> Nat] /\ fCopies[owner] \in Nat
    BY <1>1, <1>2 DEF FormTypes
  <2>2. copied \in Nat
    BY <2>1
  <2>3. fCopies' = [fCopies EXCEPT ![owner] = copied] /\ owner \in Clients
    BY <1>2, <1>3
  <2> HIDE DEF copied, owner
  <2> QED BY <2>1, <2>2, <2>3
<1>9. FormTypes'
  <2>1. fIssues' \in [1..MaxDay -> Nat]
    <3>1. fIssues \in [1..MaxDay -> Nat]
      BY <1>1 DEF FormTypes
    <3> QED BY <1>3, <3>1, OneMore
  <2>2. /\ fForm' \in [Clients -> Forms] /\ fToday' \in 1..MaxDay
        /\ fLost' \in [1..MaxDay -> Nat] /\ fAccepted' \in [day : Nat, count : Nat]
    BY <1>1, <1>3 DEF FormTypes
  <2> QED BY <1>6, <1>8, <2>1, <2>2 DEF FormTypes
<1>10. TokenIsFetched'
  BY <1>1, <1>3, <1>4, <1>6, TokenKept DEF FormIInv
<1>11. DayIsCounted'
  <2>1. s \in Waiting'
    BY <1>3, <1>4, <1>6 DEF Waiting
  <2> QED BY <1>7, <1>9, <2>1, CreatedIsCounted
<1>12. \A c \in Clients : CanSend(c)' => CanSend(c)
  BY <1>3 DEF CanSend
<1>13. ASSUME NEW c \in Clients PROVE OneForText(c)'
  <2>1. CASE c = owner /\ fRequests[s].mine
    <3>1. OfText(s, c)
      BY <2>1 DEF OfText
    <3>2. c \notin fDoubt =>
            /\ fCopies[c] = 0 /\ ~CanSend(c)
            /\ \A t \in Slots : OfText(t, c) => t = s
      BY <1>1, <3>1 DEF FormIInv, OneForText, Over
    <3>3. c \notin fDoubt => fCopies'[c] = 1 /\ ~CanSend(c)'
      BY <1>8, <1>12, <2>1, <3>2
    <3>4. c \notin fDoubt => \A t \in Slots : OfText(t, c)' => t = s
      BY <1>7, <3>2
    <3>5. fRequests'[s].step \in Over
      BY <1>4, <1>6 DEF Over
    <3> QED BY <1>3, <3>3, <3>4, <3>5 DEF OneForText
  <2>2. CASE ~(c = owner /\ fRequests[s].mine)
    <3>1. fCopies'[c] = fCopies[c]
      BY <1>8, <2>2
    <3> QED BY <1>3, <1>7, <1>12, <3>1, TextKept DEF FormIInv
  <2> QED BY <2>1, <2>2
<1> QED BY <1>9, <1>10, <1>11, <1>13 DEF FormIInv

\* The answer comes: the count of the day moves on, and with the threshold the request goes
\* on to the guard.
LEMMA IssueCountedKeeps ==
  ASSUME FormIInv, NEW s \in Slots, Form!IssueCounted(s)
  PROVE  FormIInv'
<1>1. FormTypes /\ fRequests[s].step = "created" /\ fRequests[s] \in StartedRequests
  BY FreeFacts DEF FormIInv, FormTypes, Form!IssueCounted, Form!At
<1>2. /\ UNCHANGED <<fBucket, fToday, fPendingToken, fIssues, fLost, fCopies>>
      /\ fAccepted' = [day |-> fToday, count |-> Form!Count]
  BY DEF Form!IssueCounted
<1>3. /\ fAccepted' \in [day : Nat, count : Nat] /\ fLost' \in [1..MaxDay -> Nat]
      /\ fToday \in Nat
  BY <1>1, <1>2 DEF FormTypes, Form!Count
<1>4. CASE Form!Reached(Form!Count)
  <2> DEFINE recorded == [fRequests[s] EXCEPT !.step = "record", !.day = fToday]
  <2>1. /\ fRequests' = [fRequests EXCEPT ![s].step = "record", ![s].day = fToday]
        /\ UNCHANGED <<fForm, fDoubt>>
    BY <1>4 DEF Form!IssueCounted
  <2>2. fRequests' = [fRequests EXCEPT ![s] = recorded]
    BY <1>1, <2>1 DEF FormTypes, StartedRequests
  <2>3. RequestAfter(s, recorded) /\ recorded.step = "record"
    BY <1>1, <1>3 DEF RequestAfter, StartedRequests, FormRequests, Over
  <2> HIDE DEF recorded
  <2>4. /\ fRequests' \in [Slots -> FormRequests] /\ fRequests'[s] = recorded
        /\ \A t \in Slots : t # s => fRequests'[t] = fRequests[t]
    BY <1>1, <2>2, <2>3, OneRequestChanges DEF RequestAfter
  <2>5. /\ UnderWay' \subseteq UnderWay /\ Waiting \ {s} \subseteq Waiting'
        /\ \A c \in Clients, t \in Slots : OfText(t, c)' =>
             /\ OfText(t, c)
             /\ fRequests[t].step \in Over => fRequests'[t].step \in Over
    BY <1>1, <1>2, <2>2, <2>3, RequestGoesOn
  <2>6. FormTypes'
    BY <1>1, <1>2, <1>3, <2>1, <2>4 DEF FormTypes
  <2>7. TokenIsFetched'
    BY <1>1, <1>2, <2>3, <2>4, TokenKept DEF FormIInv
  <2>8. ASSUME NEW c \in Clients PROVE OneForText(c)'
    <3>1. CanSend(c)' => CanSend(c)
      BY <2>1 DEF CanSend
    <3> QED BY <1>2, <2>1, <2>5, <3>1, TextKept DEF FormIInv
  <2>9. DayIsCounted'
    BY <2>5, <2>6, CountMovesOn
  <2> QED BY <2>6, <2>7, <2>8, <2>9 DEF FormIInv
<1>5. CASE ~Form!Reached(Form!Count)
  <2>1. Form!Answer(s, TRUE)
    BY <1>5 DEF Form!IssueCounted
  <2>2. /\ FormTypes' /\ TokenIsFetched' /\ \A c \in Clients : OneForText(c)'
        /\ UnderWay' \subseteq UnderWay /\ Waiting \ {s} \subseteq Waiting'
    BY <1>1, <1>2, <1>3, <2>1, AnswerEnds
  <2>3. DayIsCounted'
    BY <2>2, CountMovesOn
  <2> QED BY <2>2, <2>3 DEF FormIInv
<1> QED BY <1>4, <1>5

\* The answer does not come: the user is told of a failure.
LEMMA AnswerLostKeeps ==
  ASSUME FormIInv, NEW s \in Slots, Form!AnswerLost(s)
  PROVE  FormIInv'
<1>1. /\ fRequests[s].step = "created" /\ Form!Answer(s, FALSE)
      /\ fLost' = [fLost EXCEPT ![fRequests[s].day] = @ + 1]
      /\ UNCHANGED <<fToday, fAccepted, fPendingToken, fIssues, fCopies>>
  BY DEF Form!AnswerLost, Form!At
<1>2. fAccepted' \in [day : Nat, count : Nat] /\ fLost' \in [1..MaxDay -> Nat]
  <2> DEFINE day == fRequests[s].day
  <2>1. fLost \in [1..MaxDay -> Nat] /\ fAccepted \in [day : Nat, count : Nat]
    BY DEF FormIInv, FormTypes
  <2>2. fLost' = [fLost EXCEPT ![day] = @ + 1]
    BY <1>1
  <2> HIDE DEF day
  <2>3. fLost' \in [1..MaxDay -> Nat]
    BY <2>1, <2>2, OneMore
  <2> QED BY <1>1, <2>1, <2>3
<1>3. /\ FormTypes' /\ TokenIsFetched' /\ \A c \in Clients : OneForText(c)'
      /\ UnderWay' \subseteq UnderWay /\ Waiting \ {s} \subseteq Waiting'
  BY <1>1, <1>2, AnswerEnds
<1>4. DayIsCounted'
  BY <1>3, LossIsNoted
<1> QED BY <1>3, <1>4 DEF FormIInv

LEMMA FormStepKeeps ==
  ASSUME FormIInv, [Form!Next]_Form!feedbackVars
  PROVE  FormIInv'
<1>1. FormTypes /\ TokenIsFetched /\ fForm \in [Clients -> Forms]
  BY DEF FormIInv, FormTypes
<1>2. ASSUME UNCHANGED <<fForm, fBucket, fRequests, fToday, fShutdown, fAccepted,
                         fPendingToken, fIssues, fLost, fCopies, fDoubt>>
      PROVE  FormIInv'
  <2>1. \A c \in Clients : CanSend(c)' => CanSend(c)
    BY <1>2 DEF CanSend
  <2> QED BY <1>1, <1>2, <2>1, FormAloneKeeps
<1>3. CASE \/ UNCHANGED Form!feedbackVars \/ Form!TokenAges
           \/ \E c \in Clients : Form!WindowEnds(c)
  BY <1>2, <1>3 DEF Form!feedbackVars, Form!serverVars, Form!TokenAges, Form!WindowEnds
<1>4. ASSUME NEW s \in Slots, Form!GuardRead(s)
      PROVE  FormIInv'
  <2>1. /\ fRequests[s].step = "guard"
        /\ UNCHANGED <<fBucket, fToday, fAccepted, fPendingToken, fIssues, fLost, fCopies>>
    BY <1>4 DEF Form!GuardRead, Form!At
  <2>2. CASE fBucket /\ Form!Answer(s, FALSE)
    BY <2>1, <2>2, AnsweredKeeps
  <2>3. CASE Form!GoTo(s, "verify") /\ UNCHANGED <<fShutdown, fForm, fDoubt>>
    BY <2>1, <2>3, MovedKeeps DEF FormIInv
  <2> QED BY <1>4, <2>2, <2>3 DEF Form!GuardRead
<1>5. ASSUME NEW s \in Slots, Form!Verified(s)
      PROVE  FormIInv'
  <2>1. /\ fRequests[s].step = "verify"
        /\ UNCHANGED <<fBucket, fToday, fShutdown, fAccepted, fPendingToken, fIssues, fLost,
                       fCopies>>
    BY <1>5 DEF Form!Verified, Form!At
  <2>2. ASSUME NEW ok \in BOOLEAN, Form!Answer(s, ok)
        PROVE  FormIInv'
    BY <2>1, <2>2, AnsweredKeeps
  <2>3. CASE Form!GoTo(s, "token") /\ UNCHANGED <<fForm, fDoubt>>
    BY <2>1, <2>3, MovedKeeps DEF FormIInv
  <2> QED BY <1>5, <2>2, <2>3 DEF Form!Verified
<1>6. ASSUME NEW s \in Slots, Form!AskToken(s)
      PROVE  FormIInv'
  <2>1. /\ fRequests[s].step = "token"
        /\ UNCHANGED <<fForm, fBucket, fToday, fShutdown, fAccepted, fIssues, fLost, fCopies,
                       fDoubt>>
    BY <1>6 DEF Form!AskToken, Form!At
  <2>2. CASE Form!GoTo(s, "issue") /\ UNCHANGED fPendingToken
    BY <2>1, <2>2, MovedKeeps DEF FormIInv
  <2>3. CASE Form!GoTo(s, "fetch") /\ fPendingToken = 0 /\ fPendingToken' = s
    <3>1. /\ FormTypes' /\ (\A c \in Clients : OneForText(c)') /\ DayIsCounted'
          /\ fRequests'[s].step = "fetch"
          /\ \A t \in Slots : t # s => fRequests'[t] = fRequests[t]
      BY <2>1, <2>3, MovedKeeps
    <3>2. TokenIsFetched'
      BY <1>1, <2>3, <3>1, SlotsAreFinite DEF TokenIsFetched
    <3> QED BY <3>1, <3>2 DEF FormIInv
  <2>4. CASE Form!GoTo(s, "wait") /\ fPendingToken # 0 /\ fPendingToken' = fPendingToken
    <3>1. /\ FormTypes' /\ (\A c \in Clients : OneForText(c)') /\ DayIsCounted'
          /\ fRequests'[s].step = "wait"
          /\ \A t \in Slots : t # s => fRequests'[t] = fRequests[t]
      BY <2>1, <2>4, MovedKeeps
    <3>2. TokenIsFetched'
      BY <1>1, <2>1, <2>4, <3>1, SlotsAreFinite DEF TokenIsFetched
    <3> QED BY <3>1, <3>2 DEF FormIInv
  <2> QED BY <1>6, <2>2, <2>3, <2>4 DEF Form!AskToken
<1>7. ASSUME NEW s \in Slots, Form!IssueFails(s)
      PROVE  FormIInv'
  BY <1>7, AnsweredKeeps DEF Form!IssueFails, Form!At
<1>8. ASSUME NEW s \in Slots, Form!GuardWritten(s)
      PROVE  FormIInv'
  <2>1. /\ fRequests[s].step = "record" /\ \E ok \in BOOLEAN : Form!Answer(s, ok)
        /\ UNCHANGED <<fBucket, fToday, fShutdown, fAccepted, fPendingToken, fIssues, fLost,
                       fCopies>>
    BY <1>8 DEF Form!GuardWritten, Form!At
  <2> QED BY <2>1, AnsweredKeeps
<1>9. CASE Form!NextDay
  <2>1. /\ fToday' = fToday + 1 /\ fToday' \in 1..MaxDay
        /\ UNCHANGED <<fForm, fBucket, fRequests, fShutdown, fAccepted, fPendingToken, fIssues,
                       fLost, fCopies, fDoubt>>
    <3>1. fToday \in 1..MaxDay /\ fToday < MaxDay /\ fToday' = fToday + 1 /\ MaxDay \in Nat
      BY <1>9, FormAssumed DEF Form!NextDay, FormIInv, FormTypes, Form!FeedbackAssumption
    <3> QED BY <1>9, <3>1 DEF Form!NextDay
  <2>2. FormTypes'
    BY <1>1, <2>1 DEF FormTypes
  <2>3. TokenIsFetched'
    BY <1>1, <2>1, TokenKept
  <2>4. ASSUME NEW c \in Clients PROVE OneForText(c)'
    <3>1. (CanSend(c)' => CanSend(c)) /\ \A s \in Slots : OfText(s, c)' => OfText(s, c)
      BY <2>1 DEF CanSend, OfText
    <3> QED BY <2>1, <3>1, TextKept DEF FormIInv
  <2>5. DayIsCounted'
    <3>1. /\ fToday \in Nat /\ fAccepted.day <= fToday /\ fIssues[fToday + 1] = 0
          /\ Threshold \in Nat \ {0} /\ fLost[fToday + 1] \in Nat /\ Limit' = Limit
          /\ fAccepted.day \in Nat
      BY <1>1, <2>1, DayFacts DEF FormIInv, DayIsCounted, Limit
    <3>2. Counted' = 0
      BY <2>1, <3>1 DEF Counted
    <3>3. Cardinality(Waiting') \in Nat
      <4>1. Waiting' \in SUBSET Slots
        BY DEF Waiting
      <4> QED BY <4>1, SlotsAreFinite
    <3> HIDE DEF Waiting, Counted, Limit
    <3> QED BY <2>1, <3>1, <3>2, <3>3 DEF FormIInv, DayIsCounted
  <2> QED BY <2>2, <2>3, <2>4, <2>5 DEF FormIInv
<1> QED
  BY <1>3, <1>4, <1>5, <1>6, <1>7, <1>8, <1>9, ToggleKeeps, WriteKeeps, CaptureKeeps,
     SubmitKeeps, TokenArrivesKeeps, TokenFailsKeeps, IssueCreatedKeeps, IssueCountedKeeps,
     AnswerLostKeeps
  DEF Form!Next

LEMMA FormInvariance == Form!Spec => []FormIInv
<1>1. Form!Init => FormIInv
  <2> SUFFICES ASSUME Form!Init PROVE FormIInv
    OBVIOUS
  <2>1. /\ fForm = [c \in Clients |->
                      [open |-> FALSE, text |-> FALSE, shot |-> FALSE, state |-> "idle"]]
        /\ fRequests = [s \in Slots |-> Form!Free] /\ fToday = 1 /\ fPendingToken = 0
        /\ fAccepted = [day |-> 1, count |-> 0] /\ fIssues = [d \in 1..MaxDay |-> 0]
        /\ fCopies = [c \in Clients |-> 0] /\ fLost = [d \in 1..MaxDay |-> 0]
    BY DEF Form!Init
  <2>2. /\ 1 \in 1..MaxDay /\ Threshold \in Nat \ {0} /\ Cardinality(Slots) \in Nat
        /\ \A d \in 1..MaxDay : fIssues[d] = 0
    BY <2>1, FormAssumed, SlotsAreFinite DEF Form!FeedbackAssumption
  <2>3. fForm \in [Clients -> Forms] /\ \A c \in Clients : ~fForm[c].text
    BY <2>1 DEF Forms
  <2>4. FormTypes
    BY <2>1, <2>2, <2>3, FreeFacts DEF FormTypes
  <2>5. TokenIsFetched
    BY <2>1, FreeFacts DEF TokenIsFetched
  <2>6. ASSUME NEW c \in Clients PROVE OneForText(c)
    <3>1. fCopies[c] = 0 /\ ~CanSend(c) /\ \A s \in Slots : ~OfText(s, c)
      BY <2>1, <2>3, FreeFacts DEF CanSend, OfText
    <3> QED BY <3>1 DEF OneForText
  <2>7. DayIsCounted
    <3>1. Counted = 0 /\ Limit \in Nat /\ \A d \in 1..MaxDay : fLost[d] = 0
      BY <2>1, <2>2, DayFacts, <2>4 DEF Counted
    <3>2. Cardinality(Waiting) \in Nat
      BY <2>4, DayFacts, SlotsAreFinite
    <3> HIDE DEF Counted, Limit, Waiting
    <3> QED BY <2>1, <2>2, <3>1, <3>2 DEF DayIsCounted
  <2> QED BY <2>4, <2>5, <2>6, <2>7 DEF FormIInv
<1>2. FormIInv /\ [Form!Next]_Form!feedbackVars => FormIInv'
  BY FormStepKeeps
<1> QED
  BY <1>1, <1>2, PTL DEF Form!Spec

\* Without a bucket, the issues of a day that the route of one process heard of, or waits to
\* hear of, are at most the threshold and the requests then under way; an issue whose answer
\* was lost is not counted and not bounded.  The token that requests wait for is fetched, and
\* a text becomes two issues only after a failure the user saw.  For any number of clients,
\* requests under way and days, and any threshold.
THEOREM IssuesStaySound == Spec => []IssuesAreSound
<1>1. FormIInv => IssuesAreSound
  <2> SUFFICES ASSUME FormIInv PROVE IssuesAreSound
    OBVIOUS
  <2>1. Form!Cardinality(Slots) = Cardinality(Slots)
    BY DEF Form!Cardinality, Cardinality
  <2>2. Form!ThresholdHolds
    <3>1. FormTypes /\ Limit = Threshold + Cardinality(Slots) - 1
      BY DEF FormIInv, Limit
    <3>2. /\ \A d \in 1..MaxDay : fIssues[d] \in Nat /\ fLost[d] \in Nat
          /\ Cardinality(Slots) \in Nat /\ Threshold \in Nat
      BY <3>1, DayFacts
    <3>3. ~fBucket => \A d \in 1..MaxDay : fIssues[d] <= fLost[d] + Limit
      BY DEF FormIInv, DayIsCounted
    <3> QED BY <2>1, <3>1, <3>2, <3>3 DEF Form!ThresholdHolds
  <2>3. Form!PendingTokenIsAlive
    BY DEF FormIInv, TokenIsFetched, Form!PendingTokenIsAlive, Form!At
  <2>4. Form!TwiceOnlyInDoubt
    <3>1. \A c \in Clients : fCopies[c] \in Nat /\ (c \notin fDoubt => fCopies[c] <= 1)
      BY DEF FormIInv, FormTypes, OneForText
    <3> QED BY <3>1 DEF Form!TwiceOnlyInDoubt
  <2> QED BY <2>2, <2>3, <2>4 DEF IssuesAreSound, Form!IssuesAreSound
<1> QED
  BY <1>1, FormInvariance, PartsKeepToTheirs, PTL

=============================================================================
