-------------------------- MODULE HealthProbeProofs ---------------------------
(***************************************************************************)
(* Proofs about HealthProbe, for any number of requests and any lifetime   *)
(* of the cached result: nobody is answered twice or with an old result,   *)
(* and as long as somebody waits a probe is under way.                     *)
(***************************************************************************)
EXTENDS HealthProbe, TLAPS

\* A callback is kept in one place, and only while its request waits.
Kept(s) ==
  /\ \A i, j \in 1..Len(s) : s[i] = s[j] => i = j
  /\ \A i \in 1..Len(s) : step[s[i]] \in {"starting", "waiting"}

WaitersInv ==
  /\ Kept(waiters) /\ Kept(fanOut)
  /\ \A i \in 1..Len(waiters), j \in 1..Len(fanOut) : waiters[i] # fanOut[j]
  /\ \A j \in 1..Len(fanOut) : step[fanOut[j]] = "waiting"

AnswersInv ==
  \A r \in Requests :
    /\ step[r] # "answered" => answers[r] = << >>
    /\ step[r] = "answered" => Len(answers[r]) = 1
    /\ step[r] = "answered" => answers[r][1].at >= askedAt[r] - Ttl

FreshInv ==
  /\ \A r \in Requests : step[r] # "new" => askedAt[r] <= now
  /\ \A r \in Requests : step[r] = "cached" => read[r].at >= askedAt[r] - Ttl
  /\ \A i \in 1..Len(fanOut) : result.at >= askedAt[fanOut[i]] - Ttl

ProbeInv ==
  /\ probeInFlight = 1 => probe = "sent" \/ \E r \in Requests : step[r] = "starting"
  /\ probe = "sent" => probeInFlight = 1
  /\ \A r \in Requests : step[r] = "starting" => probeInFlight = 1
  /\ probe = "sent" => \A r \in Requests : step[r] # "starting"
  /\ \A r, s \in Requests : step[r] = "starting" /\ step[s] = "starting" => r = s
  /\ waiters # << >> => probeInFlight = 1

\* A request that waits is kept somewhere, so that a callback will answer it.
PlacedInv ==
  \A r \in Requests :
    step[r] \in {"starting", "waiting"} =>
      \/ \E i \in 1..Len(waiters) : waiters[i] = r
      \/ \E i \in 1..Len(fanOut) : fanOut[i] = r

Inv == TypeOK /\ WaitersInv /\ AnswersInv /\ FreshInv /\ ProbeInv /\ PlacedInv

-----------------------------------------------------------------------------
LEMMA InitInv == ASSUME HealthConfig, Init PROVE Inv
<1> USE DEF HealthConfig, Init, NoResult
<1>1. TypeOK
  BY DEF TypeOK, Results
<1>2. WaitersInv
  BY DEF WaitersInv, Kept
<1>3. AnswersInv /\ FreshInv
  BY DEF AnswersInv, FreshInv
<1>4. ProbeInv /\ PlacedInv
  BY DEF ProbeInv, PlacedInv
<1> QED BY <1>1, <1>2, <1>3, <1>4 DEF Inv

LEMMA AskCachedInv == ASSUME HealthConfig, Inv, NEW r \in Requests, AskCached(r) PROVE Inv'
<1> USE DEF HealthConfig, AskCached, Goto, cacheVars
<1>a. /\ \A i \in 1..Len(waiters) : waiters[i] \in Requests
      /\ \A i \in 1..Len(fanOut) : fanOut[i] \in Requests
  BY DEF Inv, TypeOK
<1>b. /\ \A i \in 1..Len(waiters) : step[waiters[i]] \in {"starting", "waiting"}
      /\ \A i \in 1..Len(fanOut) : step[fanOut[i]] = "waiting"
  BY DEF Inv, WaitersInv, Kept
<1>1. TypeOK'
  BY DEF Inv, TypeOK
<1>2. WaitersInv'
  BY <1>a, <1>b DEF Inv, TypeOK, WaitersInv, Kept
<1>3. AnswersInv'
  BY DEF Inv, TypeOK, AnswersInv
<1>4. FreshInv'
  <2>1. now \in Nat /\ cached.at \in Int /\ cached.at >= now - Ttl
    BY DEF Inv, TypeOK, Results, Fresh
  <2>2. \A q \in Requests : (step'[q] = "cached" => read'[q].at >= askedAt'[q] - Ttl)
    BY <2>1 DEF Inv, TypeOK, FreshInv
  <2>3. \A q \in Requests : step'[q] # "new" => askedAt'[q] <= now
    BY DEF Inv, TypeOK, FreshInv
  <2> QED BY <1>a, <1>b, <2>2, <2>3 DEF Inv, TypeOK, FreshInv
<1>5. ProbeInv'
  BY DEF Inv, TypeOK, ProbeInv
<1>6. PlacedInv'
  BY DEF Inv, TypeOK, PlacedInv
<1> QED BY <1>1, <1>2, <1>3, <1>4, <1>5, <1>6 DEF Inv

LEMMA AskProbeInv == ASSUME HealthConfig, Inv, NEW r \in Requests, AskProbe(r) PROVE Inv'
<1> USE DEF HealthConfig, AskProbe, Goto
<1>a. /\ \A i \in 1..Len(waiters) : waiters[i] \in Requests
      /\ \A i \in 1..Len(fanOut) : fanOut[i] \in Requests
  BY DEF Inv, TypeOK
<1>b. /\ \A i \in 1..Len(waiters) : step[waiters[i]] \in {"starting", "waiting"}
      /\ \A i \in 1..Len(fanOut) : step[fanOut[i]] = "waiting"
  BY DEF Inv, WaitersInv, Kept
<1>c. /\ Len(waiters') = Len(waiters) + 1 /\ waiters' \in Seq(Requests)
      /\ waiters'[Len(waiters) + 1] = r
      /\ \A i \in 1..Len(waiters) : waiters'[i] = waiters[i]
  BY DEF Inv, TypeOK
<1>d. \E s \in {"starting", "waiting"} : step' = [step EXCEPT ![r] = s]
  OBVIOUS
<1>1. TypeOK'
  BY <1>c, <1>d DEF Inv, TypeOK
<1>2. WaitersInv'
  <2>1. \A i \in 1..Len(waiters) : waiters'[i] # r
    BY <1>a, <1>b, <1>c
  <2>2. \A j \in 1..Len(fanOut) : fanOut[j] # r
    BY <1>a, <1>b
  <2>3. Len(waiters) \in Nat
    BY DEF Inv, TypeOK
  <2>4. \A i \in 1..Len(waiters') : i \in 1..Len(waiters) \/ i = Len(waiters) + 1
    BY <1>c, <2>3
  <2>5. \A i, j \in 1..Len(waiters') : waiters'[i] = waiters'[j] => i = j
    BY <1>c, <2>1, <2>4 DEF Inv, WaitersInv, Kept
  <2>6. \A i \in 1..Len(waiters') : step'[waiters'[i]] \in {"starting", "waiting"}
    BY <1>a, <1>b, <1>c, <1>d, <2>4 DEF Inv, TypeOK
  <2>7. \A j \in 1..Len(fanOut) : step'[fanOut[j]] = "waiting"
    BY <1>a, <1>b, <1>d, <2>2 DEF Inv, TypeOK
  <2>8. \A i \in 1..Len(waiters'), j \in 1..Len(fanOut) : waiters'[i] # fanOut[j]
    BY <1>c, <2>2, <2>4 DEF Inv, WaitersInv
  <2> QED BY <2>5, <2>6, <2>7, <2>8 DEF Inv, WaitersInv, Kept
<1>3. AnswersInv'
  BY DEF Inv, TypeOK, AnswersInv
<1>4. FreshInv'
  BY <1>a, <1>b, <1>d DEF Inv, TypeOK, FreshInv
<1>5. ProbeInv'
  <2>1. CASE probeInFlight = 1 /\ step' = [step EXCEPT ![r] = "waiting"]
    BY <2>1 DEF Inv, TypeOK, ProbeInv
  <2>2. CASE probeInFlight = 0 /\ step' = [step EXCEPT ![r] = "starting"]
    BY <2>2 DEF Inv, TypeOK, ProbeInv
  <2> QED BY <2>1, <2>2
<1>6. PlacedInv'
  <2>1. Len(waiters) \in Nat
    BY DEF Inv, TypeOK
  <2>2. Len(waiters) + 1 \in 1..Len(waiters') /\ \A i \in 1..Len(waiters) : i \in 1..Len(waiters')
    BY <1>c, <2>1
  <2> SUFFICES ASSUME NEW q \in Requests, step'[q] \in {"starting", "waiting"}
               PROVE \/ \E i \in 1..Len(waiters') : waiters'[i] = q
                     \/ \E i \in 1..Len(fanOut) : fanOut[i] = q
    BY DEF PlacedInv
  <2>3. CASE q = r
    BY <1>c, <2>2, <2>3
  <2>4. CASE q # r
    <3>1. step[q] \in {"starting", "waiting"}
      BY <1>d, <2>4 DEF Inv, TypeOK
    <3>2. CASE \E i \in 1..Len(waiters) : waiters[i] = q
      BY <1>c, <2>2, <3>2
    <3> QED BY <3>1, <3>2 DEF Inv, PlacedInv
  <2> QED BY <2>3, <2>4
<1> QED BY <1>1, <1>2, <1>3, <1>4, <1>5, <1>6 DEF Inv

LEMMA RespondCachedInv == ASSUME HealthConfig, Inv, NEW r \in Requests, RespondCached(r) PROVE Inv'
<1> USE DEF HealthConfig, RespondCached, Goto, Answer, cacheVars
<1>a. /\ \A i \in 1..Len(waiters) : waiters[i] \in Requests
      /\ \A i \in 1..Len(fanOut) : fanOut[i] \in Requests
  BY DEF Inv, TypeOK
<1>b. /\ \A i \in 1..Len(waiters) : step[waiters[i]] \in {"starting", "waiting"}
      /\ \A i \in 1..Len(fanOut) : step[fanOut[i]] = "waiting"
  BY DEF Inv, WaitersInv, Kept
<1>1. TypeOK'
  BY DEF Inv, TypeOK
<1>2. WaitersInv'
  BY <1>a, <1>b DEF Inv, TypeOK, WaitersInv, Kept
<1>3. AnswersInv'
  BY DEF Inv, TypeOK, AnswersInv, FreshInv
<1>4. FreshInv'
  BY DEF Inv, TypeOK, FreshInv
<1>5. ProbeInv'
  BY DEF Inv, TypeOK, ProbeInv
<1>6. PlacedInv'
  BY DEF Inv, TypeOK, PlacedInv
<1> QED BY <1>1, <1>2, <1>3, <1>4, <1>5, <1>6 DEF Inv

LEMMA StartOsrmProbeInv == ASSUME HealthConfig, Inv, NEW r \in Requests, StartOsrmProbe(r) PROVE Inv'
<1> USE DEF HealthConfig, StartOsrmProbe, Goto, cacheVars
<1>a. /\ \A i \in 1..Len(waiters) : waiters[i] \in Requests
      /\ \A i \in 1..Len(fanOut) : fanOut[i] \in Requests
  BY DEF Inv, TypeOK
<1>b. /\ \A i \in 1..Len(waiters) : step[waiters[i]] \in {"starting", "waiting"}
      /\ \A i \in 1..Len(fanOut) : step[fanOut[i]] = "waiting"
  BY DEF Inv, WaitersInv, Kept
<1>1. TypeOK'
  BY DEF Inv, TypeOK
<1>2. WaitersInv'
  BY <1>a, <1>b DEF Inv, TypeOK, WaitersInv, Kept
<1>3. AnswersInv'
  BY DEF Inv, TypeOK, AnswersInv
<1>4. FreshInv'
  BY DEF Inv, TypeOK, FreshInv
<1>5. ProbeInv'
  BY DEF Inv, TypeOK, ProbeInv
<1>6. PlacedInv'
  BY DEF Inv, TypeOK, PlacedInv
<1> QED BY <1>1, <1>2, <1>3, <1>4, <1>5, <1>6 DEF Inv

LEMMA ProbeEndsInv == ASSUME HealthConfig, Inv, ProbeEnds PROVE Inv'
<1> USE DEF HealthConfig, ProbeEnds, CacheOsrmProbeAndTakeWaiters, requestVars
<1>a. /\ \A i \in 1..Len(waiters) : waiters[i] \in Requests
      /\ \A i \in 1..Len(fanOut) : fanOut[i] \in Requests
  BY DEF Inv, TypeOK
<1>b. /\ \A i \in 1..Len(waiters) : step[waiters[i]] \in {"starting", "waiting"}
      /\ \A i \in 1..Len(fanOut) : step[fanOut[i]] = "waiting"
  BY DEF Inv, WaitersInv, Kept
<1>c. PICK osrm \in {"ok", "down"} : result' = [osrm |-> osrm, at |-> now]
  OBVIOUS
<1>1. TypeOK'
  BY <1>c DEF Inv, TypeOK, Results
<1>2. WaitersInv'
  <2>1. \A i \in 1..Len(waiters) : step[waiters[i]] = "waiting"
    BY <1>a, <1>b DEF Inv, ProbeInv
  <2> QED BY <2>1 DEF Inv, TypeOK, WaitersInv, Kept
<1>3. AnswersInv'
  BY DEF Inv, TypeOK, AnswersInv
<1>4. FreshInv'
  <2>1. \A i \in 1..Len(waiters) : askedAt[waiters[i]] <= now /\ askedAt[waiters[i]] \in Nat
    BY <1>a, <1>b DEF Inv, TypeOK, FreshInv
  <2>2. now \in Nat /\ result'.at = now
    BY <1>c DEF Inv, TypeOK
  <2> QED BY <2>1, <2>2 DEF Inv, FreshInv
<1>5. ProbeInv'
  BY DEF Inv, TypeOK, ProbeInv
<1>6. PlacedInv'
  BY DEF Inv, TypeOK, PlacedInv
<1> QED BY <1>1, <1>2, <1>3, <1>4, <1>5, <1>6 DEF Inv

LEMMA CallWaiterInv == ASSUME HealthConfig, Inv, CallWaiter PROVE Inv'
<1> USE DEF HealthConfig, CallWaiter, Goto, Answer, cacheVars
<1>a. /\ \A i \in 1..Len(waiters) : waiters[i] \in Requests
      /\ \A i \in 1..Len(fanOut) : fanOut[i] \in Requests
  BY DEF Inv, TypeOK
<1>b. /\ \A i \in 1..Len(waiters) : step[waiters[i]] \in {"starting", "waiting"}
      /\ \A i \in 1..Len(fanOut) : step[fanOut[i]] = "waiting"
  BY DEF Inv, WaitersInv, Kept
<1> DEFINE r == Head(fanOut)
<1>c. r \in Requests /\ r = fanOut[1] /\ 1 \in 1..Len(fanOut)
  BY DEF Inv, TypeOK
<1>d. /\ Len(fanOut') = Len(fanOut) - 1 /\ fanOut' \in Seq(Requests)
      /\ \A i \in 1..Len(fanOut') : fanOut'[i] = fanOut[i + 1] /\ i + 1 \in 1..Len(fanOut)
  BY DEF Inv, TypeOK
<1>e. step[r] \in {"starting", "waiting"}
  BY <1>b, <1>c
<1>f. /\ step' = [step EXCEPT ![r] = "answered"]
      /\ answers' = [answers EXCEPT ![r] = Append(@, result)]
      /\ UNCHANGED <<now, cached, probeInFlight, waiters, probe, result, read, askedAt>>
  OBVIOUS
<1> HIDE DEF r, CallWaiter
<1>1. TypeOK'
  <2>1. step' \in [Requests -> {"new", "cached", "starting", "waiting", "answered"}]
    BY <1>c, <1>f DEF Inv, TypeOK
  <2>2. answers' \in [Requests -> Seq(Results)]
    BY <1>c, <1>f DEF Inv, TypeOK
  <2> QED BY <1>d, <1>f, <2>1, <2>2 DEF Inv, TypeOK
<1>2. WaitersInv'
  <2>1. \A i \in 1..Len(fanOut') : fanOut'[i] # r
    <3> SUFFICES ASSUME NEW i \in 1..Len(fanOut') PROVE fanOut[i + 1] # fanOut[1]
      BY <1>c, <1>d
    <3>1. i + 1 \in 1..Len(fanOut) /\ i + 1 # 1
      BY <1>d
    <3> QED BY <1>c, <3>1 DEF Inv, WaitersInv, Kept
  <2>2. \A i \in 1..Len(waiters) : waiters[i] # r
    BY <1>c DEF Inv, WaitersInv
  <2>3. Kept(fanOut)'
    <3>1. \A i, j \in 1..Len(fanOut') : fanOut'[i] = fanOut'[j] => i = j
      BY <1>d DEF Inv, WaitersInv, Kept
    <3>2. \A i \in 1..Len(fanOut') : fanOut'[i] \in Requests /\ step[fanOut'[i]] = "waiting"
      BY <1>a, <1>b, <1>d
    <3> QED BY <1>f, <2>1, <3>1, <3>2 DEF Inv, TypeOK, Kept
  <2>4. Kept(waiters)'
    BY <1>a, <1>f, <2>2 DEF Inv, TypeOK, WaitersInv, Kept
  <2>5. \A j \in 1..Len(fanOut') : step'[fanOut'[j]] = "waiting"
    <3>1. \A i \in 1..Len(fanOut') : fanOut'[i] \in Requests /\ step[fanOut'[i]] = "waiting"
      BY <1>a, <1>b, <1>d
    <3> QED BY <1>f, <2>1, <3>1 DEF Inv, TypeOK
  <2>6. \A i \in 1..Len(waiters'), j \in 1..Len(fanOut') : waiters'[i] # fanOut'[j]
    BY <1>d, <1>f DEF Inv, WaitersInv
  <2> QED BY <2>3, <2>4, <2>5, <2>6 DEF WaitersInv
<1>3. AnswersInv'
  <2>1. answers[r] = << >> /\ result.at >= askedAt[r] - Ttl
    BY <1>c, <1>e DEF Inv, AnswersInv, FreshInv
  <2> QED BY <1>c, <1>f, <2>1 DEF Inv, TypeOK, AnswersInv
<1>4. FreshInv'
  BY <1>a, <1>c, <1>d, <1>e, <1>f DEF Inv, TypeOK, FreshInv
<1>5. ProbeInv'
  <2>1. step[r] # "starting"
    BY <1>c DEF Inv, WaitersInv
  <2> QED BY <1>c, <1>f, <2>1 DEF Inv, TypeOK, ProbeInv
<1>6. PlacedInv'
  <2> SUFFICES ASSUME NEW q \in Requests, q # r, step[q] \in {"starting", "waiting"}
               PROVE \/ \E i \in 1..Len(waiters) : waiters[i] = q
                     \/ \E i \in 1..Len(fanOut') : fanOut'[i] = q
    BY <1>c, <1>f DEF Inv, TypeOK, PlacedInv
  <2>1. CASE \E i \in 1..Len(fanOut) : fanOut[i] = q
    <3>1. PICK i \in 1..Len(fanOut) : fanOut[i] = q
      BY <2>1
    <3>2. i # 1 /\ i - 1 \in 1..Len(fanOut') /\ fanOut'[i - 1] = q
      <4>1. Len(fanOut) \in Nat /\ i \in Nat /\ i # 1
        BY <1>c, <3>1 DEF Inv, TypeOK
      <4>2. i - 1 \in 1..Len(fanOut') /\ (i - 1) + 1 = i
        BY <1>d, <4>1
      <4> QED BY <1>d, <3>1, <4>1, <4>2
    <3> QED BY <3>2
  <2> QED BY <2>1 DEF Inv, PlacedInv
<1> QED BY <1>1, <1>2, <1>3, <1>4, <1>5, <1>6 DEF Inv

-----------------------------------------------------------------------------
LEMMA NextInv == ASSUME HealthConfig, Inv, [Next]_vars PROVE Inv'
<1>1. CASE \E r \in Requests : AskCached(r)
  BY <1>1, AskCachedInv
<1>2. CASE \E r \in Requests : AskProbe(r)
  BY <1>2, AskProbeInv
<1>3. CASE \E r \in Requests : RespondCached(r)
  BY <1>3, RespondCachedInv
<1>4. CASE \E r \in Requests : StartOsrmProbe(r)
  BY <1>4, StartOsrmProbeInv
<1>5. CASE ProbeEnds
  BY <1>5, ProbeEndsInv
<1>6. CASE CallWaiter
  BY <1>6, CallWaiterInv
<1>7. CASE Tick
  BY <1>7 DEF Tick, cacheVars, requestVars, Inv, TypeOK, WaitersInv, Kept, AnswersInv,
    FreshInv, ProbeInv, PlacedInv
<1>8. CASE UNCHANGED vars
  BY <1>8 DEF vars, cacheVars, requestVars, Inv, TypeOK, WaitersInv, Kept, AnswersInv,
    FreshInv, ProbeInv, PlacedInv
<1> QED BY <1>1, <1>2, <1>3, <1>4, <1>5, <1>6, <1>7, <1>8
  DEF Next, HandlerStep, ClientStep

THEOREM InvHolds == ASSUME HealthConfig PROVE Spec => []Inv
<1>1. Init => Inv
  BY InitInv
<1>2. Inv /\ [Next]_vars => Inv'
  BY NextInv
<1> QED BY <1>1, <1>2, PTL DEF Spec

\* The variables have their types.
THEOREM HealthTypes == ASSUME HealthConfig PROVE Spec => []TypeOK
<1>1. Inv => TypeOK
  BY DEF Inv
<1> QED BY <1>1, InvHolds, PTL

\* No request is answered twice, and none with the result of a probe that ended more than
\* kOsrmProbeCacheTtl before it came, whatever probe it joined or found in the cache.
THEOREM HealthAnswersFresh ==
  ASSUME HealthConfig PROVE
  Spec => [](\A r \in Requests :
               step[r] = "answered" => Len(answers[r]) = 1
                                       /\ answers[r][1].at >= askedAt[r] - Ttl)
<1>1. Inv => \A r \in Requests :
               step[r] = "answered" => Len(answers[r]) = 1
                                       /\ answers[r][1].at >= askedAt[r] - Ttl
  BY DEF Inv, AnswersInv
<1> QED BY <1>1, InvHolds, PTL

\* No waiter is forgotten: the callback of a request that waits is in the list of a probe
\* that is under way or about to start, or among those the client is calling; and there is
\* never a second probe (AddOsrmProbeWaiter, CacheOsrmProbeAndTakeWaiters).
NoneForgotten ==
  \A r \in Requests :
    step[r] \in {"starting", "waiting"} =>
      \/ \E i \in 1..Len(fanOut) : fanOut[i] = r
      \/ /\ \E i \in 1..Len(waiters) : waiters[i] = r
         /\ probe = "sent" \/ \E q \in Requests : step[q] = "starting"

THEOREM HealthNoneForgotten == ASSUME HealthConfig PROVE Spec => []NoneForgotten
<1>1. Inv => NoneForgotten
  <2> SUFFICES ASSUME Inv, NEW i \in 1..Len(waiters)
               PROVE probe = "sent" \/ \E q \in Requests : step[q] = "starting"
    BY DEF Inv, NoneForgotten, PlacedInv
  <2>1. waiters # << >>
    BY DEF Inv, TypeOK
  <2> QED BY <2>1 DEF Inv, ProbeInv
<1> QED BY <1>1, InvHolds, PTL
=============================================================================
