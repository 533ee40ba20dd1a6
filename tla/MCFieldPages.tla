----------------------------- MODULE MCFieldPages -----------------------------
(***************************************************************************)
(* The instance of the field pages for TLC: one or two of everything, and  *)
(* one start for the components that stand still.                          *)
(***************************************************************************)
EXTENDS FieldPages

MCMobileStops == <<"s1", "s2">>

MCInit ==
  /\ Init
  /\ view # "results" => rLayout = "desktop" /\ rLoaded = 0
  /\ view # "map" => mRoutes = <<0, 0>>
  /\ view # "feedback" => fBucket = FALSE

MCSpec == MCInit /\ [][Next]_vars

\* Bounds of the results page: one card is expanded, one message is confirmed, new results
\* arrive on wide windows only, and notes are written there, to the first result, with no
\* message confirmed yet.
ResultsBound ==
  /\ Cardinality(DOMAIN rCards) <= 1 /\ Cardinality(rDelivered) <= 1
  /\ rLayout = "mobile" => rLoaded <= 1
  /\ rLayout = "mobile" \/ rLoaded = 2 \/ rDelivered # {} =>
       /\ \A i \in DOMAIN rDraft.routes : rDraft.routes[i].note = 0
       /\ \A id \in DOMAIN rCards : rCards[id] = 0

\* Bounds of the feedback route: two more issues than the threshold, one answer of GitHub is
\* lost, one request is under way at midnight, and screenshots are of the first day.
FeedbackBound ==
  /\ fLost[1] + fLost[2] <= 1
  /\ fIssues[1] + fIssues[2] <= 3
  /\ Cardinality({s \in {1, 2} : fRequests[s].day \in 1..fToday - 1}) <= 1
  /\ fToday = 2 => ~fForm["c1"].shot
=============================================================================
