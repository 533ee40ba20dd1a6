----------------------------- MODULE HealthProbe ------------------------------
(***************************************************************************)
(* GET /health (health_endpoint.cpp): handlers on several event loops      *)
(* share one probe of OSRM, whose result is kept for kOsrmProbeCacheTtl.   *)
(* All of it is one cache behind one mutex; a probe ends, with an answer   *)
(* of OSRM or after a timeout, in a callback on the HTTP client's thread.  *)
(***************************************************************************)
EXTENDS Integers, Sequences

CONSTANTS
  Requests,    \* requests to /health
  Ttl,         \* kOsrmProbeCacheTtl
  MaxTime      \* last reading of the clock (bounds the model)

HealthConfig == Ttl \in Nat /\ MaxTime \in Nat

VARIABLES
  now,             \* steady_clock
  cached,          \* cached_result and cached_at
  probeInFlight,   \* probe_in_flight, 0 or 1
  waiters,         \* waiters: the requests whose callbacks wait
  probe,           \* the HTTP request to OSRM: "none" or "sent"
  fanOut,          \* the waiters the client's callback has still to call
  result,          \* the result it calls them with
  step,            \* "new", "cached", "starting", "waiting", "answered"
  read,            \* the result a handler found in the cache
  askedAt,         \* when the request came
  answers          \* the results it was answered with

cacheVars == <<cached, probeInFlight, waiters>>
requestVars == <<step, read, askedAt, answers>>
vars == <<now, cacheVars, probe, fanOut, result, requestVars>>

Results == [osrm : {"ok", "down"}, at : Int]
NoResult == [osrm |-> "down", at |-> -1]

Init ==
  /\ now = 0
  /\ cached = NoResult /\ probeInFlight = 0 /\ waiters = << >>
  /\ probe = "none" /\ fanOut = << >> /\ result = NoResult
  /\ step = [r \in Requests |-> "new"]
  /\ read = [r \in Requests |-> NoResult]
  /\ askedAt = [r \in Requests |-> 0]
  /\ answers = [r \in Requests |-> << >>]

Goto(r, s) == step' = [step EXCEPT ![r] = s]

\* Mutant of Fresh: a result is kept for one unit of time more.
FreshTooLong == cached # NoResult /\ now - cached.at <= Ttl + 1

\* ReadFreshCachedOsrmProbe.
Fresh == cached # NoResult /\ now - cached.at <= Ttl

\* AddOsrmProbeWaiter, under the mutex: the handler finds a result,
AskCached(r) ==
  /\ step[r] = "new" /\ Fresh
  /\ askedAt' = [askedAt EXCEPT ![r] = now]
  /\ read' = [read EXCEPT ![r] = cached]
  /\ Goto(r, "cached")
  /\ UNCHANGED <<now, cacheVars, probe, fanOut, result, answers>>

\* or leaves its callback for a probe, which it starts itself if there is none.
AskProbe(r) ==
  /\ step[r] = "new" /\ ~Fresh
  /\ askedAt' = [askedAt EXCEPT ![r] = now]
  /\ waiters' = Append(waiters, r)
  /\ \/ probeInFlight = 1 /\ Goto(r, "waiting")
     \/ probeInFlight = 0 /\ Goto(r, "starting")
  /\ probeInFlight' = 1
  /\ UNCHANGED <<now, cached, probe, fanOut, result, read, answers>>

Answer(r, res) == answers' = [answers EXCEPT ![r] = Append(@, res)]

\* The handler answers with what it read, after it has left the critical section.
RespondCached(r) ==
  /\ step[r] = "cached"
  /\ Answer(r, read[r])
  /\ Goto(r, "answered")
  /\ UNCHANGED <<now, cacheVars, probe, fanOut, result, read, askedAt>>

\* StartOsrmProbe; the handler returns, and the request waits like the others.
StartOsrmProbe(r) ==
  /\ step[r] = "starting"
  /\ probe' = "sent"
  /\ Goto(r, "waiting")
  /\ UNCHANGED <<now, cacheVars, fanOut, result, read, askedAt, answers>>

\* Mutant of CacheOsrmProbeAndTakeWaiters: only the first waiter is taken.
CacheAndTakeFirst ==
  /\ cached' = result'
  /\ probeInFlight' = 0
  /\ fanOut' = <<Head(waiters)>> /\ waiters' = Tail(waiters)

\* Under the mutex: the result, the flag and the waiters together.
CacheOsrmProbeAndTakeWaiters ==
  /\ cached' = result'
  /\ probeInFlight' = 0
  /\ fanOut' = waiters /\ waiters' = << >>

\* The client's callback: EvaluateOsrmProbe, then the cache.
ProbeEnds ==
  /\ probe = "sent" /\ fanOut = << >>
  /\ probe' = "none"
  /\ \E osrm \in {"ok", "down"} : result' = [osrm |-> osrm, at |-> now]
  /\ CacheOsrmProbeAndTakeWaiters
  /\ UNCHANGED <<now, requestVars>>

\* It calls the waiters one after the other, without the mutex.
CallWaiter ==
  /\ fanOut # << >>
  /\ Answer(Head(fanOut), result)
  /\ Goto(Head(fanOut), "answered")
  /\ fanOut' = Tail(fanOut)
  /\ UNCHANGED <<now, cacheVars, probe, result, read, askedAt>>

Tick ==
  /\ now < MaxTime /\ now' = now + 1
  /\ UNCHANGED <<cacheVars, probe, fanOut, result, requestVars>>

HandlerStep(r) == RespondCached(r) \/ StartOsrmProbe(r)
ClientStep == ProbeEnds \/ CallWaiter

Next ==
  \/ \E r \in Requests : AskCached(r) \/ AskProbe(r) \/ HandlerStep(r)
  \/ ClientStep
  \/ Tick

Spec == Init /\ [][Next]_vars

\* Handlers run to their end, and the client calls back, at the latest after its timeout
\* (kOsrmProbeTimeoutSeconds).
FairSpec ==
  /\ Spec
  /\ \A r \in Requests : WF_vars(HandlerStep(r))
  /\ WF_vars(ClientStep)

-----------------------------------------------------------------------------
TypeOK ==
  /\ now \in Nat
  /\ cached \in Results
  /\ result \in Results
  /\ probeInFlight \in {0, 1}
  /\ waiters \in Seq(Requests) /\ fanOut \in Seq(Requests)
  /\ probe \in {"none", "sent"}
  /\ step \in [Requests -> {"new", "cached", "starting", "waiting", "answered"}]
  /\ read \in [Requests -> Results]
  /\ askedAt \in [Requests -> Nat]
  /\ answers \in [Requests -> Seq(Results)]

\* r was answered once, with a probe that ended after r came or at most Ttl before.
AnsweredFresh(r) ==
  /\ Len(answers[r]) = 1
  /\ answers[r][1].at >= askedAt[r] - Ttl
  /\ step[r] = "answered"

\* Every health request is answered exactly once and with a fresh result, also one that
\* comes while a probe starts, ends, is cached or hands out its result
\* (health_endpoint.cpp, AddOsrmProbeWaiter and CacheOsrmProbeAndTakeWaiters).
HealthServed == \A r \in Requests : step[r] # "new" ~> []AnsweredFresh(r)
=============================================================================
