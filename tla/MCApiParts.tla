------------------------------ MODULE MCApiParts ------------------------------
(***************************************************************************)
(* The instance for TLC of the parts of the API server that meet the solve *)
(* coordinator only through its interface or not at all: the runs of the   *)
(* VROOM program, the synchronous endpoint with the request tracker, and   *)
(* the health endpoint.  In a behaviour one of them moves, chosen by       *)
(* "part".                                                                 *)
(***************************************************************************)
EXTENDS VroomRunner, Integers, Sequences, FiniteSets

VARIABLES
  part,   \* the component that moves
  sPhase, sReply, sOpen, sStep, sResponses, sCounters,
  sPending, sShutdown, sWriter, sLine, sWritten, sDropped, sWriteFailures,
  hNow, hCached, hProbeInFlight, hWaiters, hProbe, hFanOut, hResult, hStep, hRead,
  hAskedAt, hAnswers

Clients == {"c1", "c2"}
HealthRequests == {"h1", "h2"}

\* One place for a solve, and a queue of one line.
Sync == INSTANCE OptimizeEndpoint WITH
  Capacity <- 1, Slots <- 1, MaxPendingLines <- 1,
  phase <- sPhase, reply <- sReply, open <- sOpen, step <- sStep,
  responses <- sResponses, counters <- sCounters, pending <- sPending,
  shutdown <- sShutdown, writer <- sWriter, line <- sLine, written <- sWritten,
  dropped <- sDropped, writeFailures <- sWriteFailures

Health == INSTANCE HealthProbe WITH
  Requests <- HealthRequests, Ttl <- 1, MaxTime <- 4,
  now <- hNow, cached <- hCached, probeInFlight <- hProbeInFlight, waiters <- hWaiters,
  probe <- hProbe, fanOut <- hFanOut, result <- hResult, step <- hStep, read <- hRead,
  askedAt <- hAskedAt, answers <- hAnswers

ASSUME Sync!EndpointConfig
ASSUME Health!HealthConfig

syncVars == <<sPhase, sReply, sOpen, sStep, sResponses, sCounters, sPending,
  sShutdown, sWriter, sLine, sWritten, sDropped, sWriteFailures>>
healthVars == <<hNow, hCached, hProbeInFlight, hWaiters, hProbe, hFanOut, hResult, hStep,
  hRead, hAskedAt, hAnswers>>
partVars == <<part, vars, syncVars, healthVars>>

PartsInit ==
  /\ part \in {"runner", "sync", "health"}
  /\ Init
  /\ Sync!Init
  /\ Health!Init

PartsNext ==
  \/ part = "runner" /\ Next /\ UNCHANGED <<part, syncVars, healthVars>>
  \/ part = "sync" /\ Sync!Next /\ UNCHANGED <<part, vars, healthVars>>
  \/ part = "health" /\ Health!Next /\ UNCHANGED <<part, vars, syncVars>>

\* The fairness of each part, while it is the one that moves.
RunnerFairness ==
  \A r \in Runs :
    /\ WF_vars(part = "runner" /\ RunStep(r))
    /\ WF_vars(part = "runner" /\ DeadlinePasses(r))

SyncFairness ==
  /\ \A c \in Clients : WF_syncVars(part = "sync" /\ Sync!RequestStep(c))
  /\ \A s \in Sync!Solves : WF_syncVars(part = "sync" /\ Sync!SolveStep(s))
  /\ WF_syncVars(part = "sync" /\ Sync!WriterStep)

HealthFairness ==
  /\ \A r \in HealthRequests : WF_healthVars(part = "health" /\ Health!HandlerStep(r))
  /\ WF_healthVars(part = "health" /\ Health!ClientStep)

PartsSpec ==
  /\ PartsInit /\ [][PartsNext]_partVars
  /\ RunnerFairness /\ SyncFairness /\ HealthFairness

-----------------------------------------------------------------------------
\* Every request is answered once, counted once and leaves one line
\* (deliveries_optimize_endpoint.cpp, observability.cpp).
RequestsServed == Sync!RequestsServed

\* Every health request is answered once, with a fresh result (health_endpoint.cpp).
HealthServed == Health!HealthServed
=============================================================================
