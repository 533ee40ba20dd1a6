------------------------------ MODULE FieldPages ------------------------------
(***************************************************************************)
(* The rest of the user interface: results and map, the driver's web pages *)
(* and mobile application, and the routes of the Next.js server with their *)
(* callers.  In a behaviour one of them moves, chosen by "view".           *)
(***************************************************************************)
EXTENDS Integers, Sequences, FiniteSets

CONSTANTS
  Positions,                                                        \* ResultsPage, RouteMap
  BaseRoutes, Notes, MaxLoads, MaxId, MaxFlights,                   \* ResultsPage
  Vehicles, Gone, TooLong, CacheSize, MaxDraws,                     \* RouteMap
  DriverStops, FileKinds, MaxUploads,                               \* DriverAssist
  MobileStops, MaxWrites, MaxImports,                               \* MobileDeliveries
  Requests, Retries, TokenLife, Margin, BodyTime, MaxTime,          \* JobGateway
  Clients, Slots, NoClient, RateMax, Threshold, MaxDay, MaxIssues   \* Feedback

VARIABLES
  view,   \* the component that moves
  rLayout, rLoaded, rDraft, rEditMode, rPending, rSheet, rCards, rMenu, rDialog, rSelected,
  rSendState, rFlights, rDelivered, rNextId, rOut,
  mReady, mRoutes, mEditMode, mPending, mLines, mPins, mCache, mDraws, mMarks,
  dPage, dChosen, dProcessing, dReads, dHanded, dSaved, dRoute, dOpen, dReport, dError, dUploads,
  kRoute, kRestored, kAvailable, kStored, kExpired, kWrites, kOpen, kReporting, kReason,
  kEnding, kImports,
  gNow, gCachedToken, gRequest,
  fForm, fRequests, fBucket, fToday, fRate, fShutdown, fGuards, fAccepted, fToken,
  fPendingToken, fIssues, fLost, fCopies, fDoubt

Results == INSTANCE ResultsPage WITH
  layout <- rLayout, loaded <- rLoaded, draft <- rDraft,
  editMode <- rEditMode, pending <- rPending, sheet <- rSheet, cards <- rCards,
  menu <- rMenu, dialog <- rDialog, selected <- rSelected, sendState <- rSendState,
  flights <- rFlights, delivered <- rDelivered, nextId <- rNextId, out <- rOut

Map == INSTANCE RouteMap WITH
  ready <- mReady, routes <- mRoutes, editMode <- mEditMode,
  pending <- mPending, lines <- mLines, pins <- mPins, cache <- mCache, draws <- mDraws,
  marks <- mMarks

Driver == INSTANCE DriverAssist WITH
  Stops <- DriverStops, page <- dPage, chosen <- dChosen, processing <- dProcessing,
  reads <- dReads, handed <- dHanded, saved <- dSaved, route <- dRoute, open <- dOpen,
  report <- dReport, error <- dError, uploads <- dUploads

Mobile == INSTANCE MobileDeliveries WITH
  Stops <- MobileStops, route <- kRoute,
  restored <- kRestored, available <- kAvailable, stored <- kStored, expired <- kExpired,
  writes <- kWrites, open <- kOpen, reporting <- kReporting, reason <- kReason,
  ending <- kEnding, imports <- kImports

Gateway == INSTANCE JobGateway WITH
  now <- gNow, cachedToken <- gCachedToken, request <- gRequest

Form == INSTANCE Feedback WITH
  form <- fForm, requests <- fRequests, bucket <- fBucket,
  today <- fToday, rate <- fRate, shutdown <- fShutdown, guards <- fGuards,
  accepted <- fAccepted, token <- fToken, pendingToken <- fPendingToken, issues <- fIssues,
  lost <- fLost, copies <- fCopies, doubt <- fDoubt

ASSUME ResultsAssumed == Results!ResultsAssumption
ASSUME MapAssumed == Map!MapAssumption
ASSUME DriverAssumed == Driver!DriverAssumption
ASSUME MobileAssumed == Mobile!MobileAssumption
ASSUME GatewayAssumed == Gateway!GatewayAssumption
ASSUME FormAssumed == Form!FeedbackAssumption

resultsVars == <<rLayout, rLoaded, rDraft, rEditMode, rPending, rSheet, rCards, rMenu,
  rDialog, rSelected, rSendState, rFlights, rDelivered, rNextId, rOut>>
mapVars == <<mReady, mRoutes, mEditMode, mPending, mLines, mPins, mCache, mDraws, mMarks>>
driverVars == <<dPage, dChosen, dProcessing, dReads, dHanded, dSaved, dRoute, dOpen,
  dReport, dError, dUploads>>
mobileVars == <<kRoute, kRestored, kAvailable, kStored, kExpired, kWrites, kOpen,
  kReporting, kReason, kEnding, kImports>>
callsVars == <<gNow, gCachedToken, gRequest>>
feedbackVars == <<fForm, fRequests, fBucket, fToday, fRate, fShutdown, fGuards, fAccepted,
  fToken, fPendingToken, fIssues, fLost, fCopies, fDoubt>>
vars == <<view, resultsVars, mapVars, driverVars, mobileVars, callsVars, feedbackVars>>

Init ==
  /\ view \in {"results", "map", "driver", "mobile", "calls", "feedback"}
  /\ Results!Init
  /\ Map!Init
  /\ Driver!Init
  /\ Mobile!Init
  /\ Gateway!Init
  /\ Form!Init

Next ==
  \/ /\ view = "results" /\ Results!Next
     /\ UNCHANGED <<view, mapVars, driverVars, mobileVars, callsVars, feedbackVars>>
  \/ /\ view = "map" /\ Map!Next
     /\ UNCHANGED <<view, resultsVars, driverVars, mobileVars, callsVars, feedbackVars>>
  \/ /\ view = "driver" /\ Driver!Next
     /\ UNCHANGED <<view, resultsVars, mapVars, mobileVars, callsVars, feedbackVars>>
  \/ /\ view = "mobile" /\ Mobile!Next
     /\ UNCHANGED <<view, resultsVars, mapVars, driverVars, callsVars, feedbackVars>>
  \/ /\ view = "calls" /\ Gateway!Next
     /\ UNCHANGED <<view, resultsVars, mapVars, driverVars, mobileVars, feedbackVars>>
  \/ /\ view = "feedback" /\ Form!Next
     /\ UNCHANGED <<view, resultsVars, mapVars, driverVars, mobileVars, callsVars>>

Spec == Init /\ [][Next]_vars

-----------------------------------------------------------------------------
\* What leaves the results page is what it shows (results/page.tsx).
ExportMatchesView == Results!ExportMatchesView

\* The badge of a route means a confirmed message with it (results/page.tsx,
\* markRoutesSent).
SentMeansDelivered == Results!SentMeansDelivered

\* Lines and pins are those of the routes, whatever arrives late (Map.tsx).
MapShowsRoutes == Map!MapShowsRoutes

\* A stop that is done stays done (driver_assist/page.tsx).
DoneStaysDone == Driver!DoneStaysDone

\* The phone keeps what it shows, and a report is for the open stop
\* (useRoutePersistence.ts, index.tsx).
DeliveryIsSound == Mobile!DeliveryIsSound

\* No attempt carries an expired token, and the attempts and jobs of a call are bounded
\* (deliveryOptimizerClient.ts).
AttemptsAreSound == Gateway!AttemptsAreSound

\* Without a bucket the issues the route of one process heard of stay within the daily limit
\* (an issue whose answer is lost is not counted); tokens are fetched, and a text becomes two
\* issues only after a failure the user saw (api/feedback/route.ts, github.ts).
IssuesAreSound == Form!IssuesAreSound
=============================================================================
