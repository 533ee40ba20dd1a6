---------------------------- MODULE DriverAssist ----------------------------
(***************************************************************************)
(* The driver's web pages: upload-route, driver-view, driver_assist and    *)
(* its summary.  They share two pieces of storage: the uploaded file in    *)
(* sessionStorage (routeFile) and the route with its progress in           *)
(* localStorage (driver_assist.routeState).  The driver moves between the  *)
(* pages by their buttons and by the address bar, which also reloads.      *)
(* Reading a file takes time, during which the driver may leave the page.  *)
(***************************************************************************)
EXTENDS Integers, FiniteSets

CONSTANTS
  Stops,      \* the stops of a route
  FileKinds,  \* what files the driver has: see DriverAssumption
  MaxUploads  \* files handed over or picked (bound)

\* "good": a save file; "large": one over the 1 MB of loadSessionFromFile; "huge": over the
\* 10 MB of the upload page; "bad": JSON of another shape; "other": not a .json file.
DriverAssumption ==
  /\ FileKinds \subseteq {"good", "large", "huge", "bad", "other"}
  /\ MaxUploads \in Nat /\ IsFiniteSet(Stops) /\ Stops # {}

VARIABLES
  page,       \* "upload", "going" (to driver-view), "view", "assist", "summary"
  chosen,     \* upload page: file, "none" when there is none
  processing, \* upload page: the operation that is current, 0 when idle
  reads,      \* files being read: upload page (operation) and driver_assist
  handed,     \* routeFile of sessionStorage
  saved,      \* routeState of localStorage
  route,      \* driver_assist: the route on the page
  open,       \* openId, or "none"
  report,     \* the stop, reason and details of the report dialog
  error,      \* driver_assist: an import failed
  uploads     \* files handed over so far; numbers the routes made from them

driverVars == <<page, chosen, processing, reads, handed, saved, route, open, report, error,
                uploads>>

NoFile == [kind |-> "none", serial |-> 0]
NoRoute == [serial |-> 0, status |-> [s \in {} |-> ""], note |-> [s \in {} |-> 0]]
NoReport == [stop |-> "none", other |-> FALSE]

\* transformSessionToDriverRoute: every stop starts as work to be done.
RouteOf(file) == [serial |-> file.serial, status |-> [s \in Stops |-> "pending"],
                  note |-> [s \in Stops |-> 0]]
FirstStop == CHOOSE s \in Stops : TRUE

Readable(kind) == kind \in {"good", "large"}

Init ==
  /\ page = "upload" /\ chosen = "none" /\ processing = 0 /\ reads = {}
  /\ handed = NoFile /\ saved = NoRoute
  /\ route = NoRoute /\ open = "none" /\ report = NoReport /\ error = FALSE
  /\ uploads = 0

-----------------------------------------------------------------------------
(* Arriving at a page.  Each operator sets page and what the page holds.   *)

ToUpload == page' = "upload" /\ chosen' = "none" /\ processing' = 0

\* Plausible mistake: the import does not clear the handed file.
ArriveKeepingFile ==
  LET imports == handed # NoFile /\ Readable(handed.kind)
      shown == IF imports THEN RouteOf(handed) ELSE saved
  IN /\ route' = shown /\ error' = FALSE
     /\ open' = IF shown = NoRoute THEN "none" ELSE FirstStop
     /\ report' = NoReport
     /\ saved' = shown
     /\ UNCHANGED handed
     /\ page' = (IF shown = NoRoute THEN "upload" ELSE "assist")
     /\ chosen' = "none" /\ processing' = 0

\* The effects of driver_assist: the uploaded file first, else the saved progress.
Arrive ==
  LET imports == handed # NoFile /\ Readable(handed.kind)
      failed == handed # NoFile /\ ~Readable(handed.kind)
      shown == IF imports THEN RouteOf(handed) ELSE saved
  IN /\ route' = shown
     /\ error' = failed
     /\ open' = IF shown = NoRoute THEN "none" ELSE FirstStop
     /\ report' = NoReport
     /\ saved' = shown
     /\ handed' = (IF imports THEN NoFile ELSE handed)
     /\ page' = (IF shown = NoRoute /\ ~failed THEN "upload" ELSE "assist")
     /\ chosen' = "none" /\ processing' = 0

Leave == route' = NoRoute /\ open' = "none" /\ report' = NoReport /\ error' = FALSE

\* The address bar and the browser's reload, which end the reads of the page, and the
\* back button, which does not.
Visit ==
  /\ reads' \in {{}, {[r EXCEPT !.mounted = FALSE] : r \in reads}}
  /\ \/ Arrive /\ UNCHANGED uploads
     \/ ToUpload /\ Leave /\ UNCHANGED <<handed, saved, uploads>>

\* driver-view is rendered: it takes the file out of storage, and shows its name.
View ==
  /\ page = "going"
  /\ page' = "view" /\ handed' = NoFile
  /\ UNCHANGED <<chosen, processing, reads, saved, route, open, report, error, uploads>>

-----------------------------------------------------------------------------
(* The upload page. *)

ChooseUpload ==
  /\ page = "upload" /\ processing = 0
  /\ \E kind \in FileKinds \ {"huge", "other"} : chosen' = kind
  /\ UNCHANGED <<page, processing, reads, handed, saved, route, open, report, error, uploads>>

RemoveUpload ==
  /\ page = "upload" /\ processing = 0 /\ chosen # "none"
  /\ chosen' = "none"
  /\ UNCHANGED <<page, processing, reads, handed, saved, route, open, report, error, uploads>>

\* handleContinue, up to the await of the text.
Continue ==
  /\ page = "upload" /\ chosen # "none" /\ processing = 0 /\ uploads < MaxUploads
  /\ uploads' = uploads + 1
  /\ processing' = uploads'
  /\ reads' = reads \cup {[kind |-> chosen, serial |-> uploads', mounted |-> TRUE, by |-> "upload"]}
  /\ UNCHANGED <<page, chosen, handed, saved, route, open, report, error>>

\* handleCancel invalidates the operation and goes back.
CancelUpload ==
  /\ page = "upload"
  /\ ToUpload
  /\ reads' = {[r EXCEPT !.mounted = FALSE] : r \in reads}
  /\ UNCHANGED <<handed, saved, route, open, report, error, uploads>>

\* The text arrived: only the current operation stores it and goes on.
HandOver(r) ==
  /\ r.by = "upload"
  /\ reads' = reads \ {r}
  /\ IF r.mounted /\ processing = r.serial
       THEN /\ processing' = 0
            /\ \/ /\ handed' = [kind |-> r.kind, serial |-> r.serial]
                  /\ page' = "going" /\ chosen' = "none"
               \/ UNCHANGED <<page, chosen, handed>> \* reading or storing failed
       ELSE UNCHANGED <<page, chosen, processing, handed>>
  /\ UNCHANGED <<saved, route, open, report, error, uploads>>

\* driver-view's Back.
BackToUpload ==
  /\ page = "view"
  /\ ToUpload
  /\ UNCHANGED <<reads, handed, saved, route, open, report, error, uploads>>

-----------------------------------------------------------------------------
(* driver_assist. *)

\* importRoute, offered while no route is shown.
PickRoute ==
  /\ page = "assist" /\ route = NoRoute /\ uploads < MaxUploads
  /\ ~\E r \in reads : r.by = "assist" /\ r.mounted
  /\ uploads' = uploads + 1
  /\ \E kind \in FileKinds :
       IF kind = "good" \/ kind = "bad"
         THEN /\ reads' = reads \cup
                   {[kind |-> kind, serial |-> uploads', mounted |-> TRUE, by |-> "assist"]}
              /\ error' = FALSE
         ELSE error' = TRUE /\ UNCHANGED reads
  /\ UNCHANGED <<page, chosen, processing, handed, saved, route, open, report>>

\* The text arrived, maybe after the driver left the page: the route is stored either way.
RouteRead(r) ==
  /\ r.by = "assist"
  /\ reads' = reads \ {r}
  /\ saved' = (IF Readable(r.kind) THEN RouteOf(r) ELSE saved)
  /\ IF ~r.mounted
       THEN UNCHANGED <<route, open, error>>
       ELSE IF Readable(r.kind)
         THEN route' = RouteOf(r) /\ open' = FirstStop /\ UNCHANGED error
         ELSE error' = TRUE /\ UNCHANGED <<route, open>>
  /\ UNCHANGED <<page, chosen, processing, handed, report, uploads>>

Driving == page = "assist" /\ route # NoRoute /\ report = NoReport

\* updateStop and the effect that persists the route.
Update(newRoute) == route' = newRoute /\ saved' = newRoute

ToggleStop ==
  /\ Driving
  /\ \E s \in Stops : open' = (IF open = s THEN "none" ELSE s)
  /\ UNCHANGED <<page, chosen, processing, reads, handed, saved, route, report, error, uploads>>

ChangeNote ==
  /\ Driving /\ open # "none"
  /\ Update([route EXCEPT !.note[open] = 1 - @])
  /\ UNCHANGED <<page, chosen, processing, reads, handed, open, report, error, uploads>>

Pending(s) == s # "none" /\ route.status[s] = "pending"

Deliver ==
  /\ Driving /\ Pending(open)
  /\ Update([route EXCEPT !.status[open] = "completed"])
  /\ open' = "none"
  /\ UNCHANGED <<page, chosen, processing, reads, handed, report, error, uploads>>

OpenReport ==
  /\ Driving /\ Pending(open)
  /\ report' = [stop |-> open, other |-> FALSE]
  /\ UNCHANGED <<page, chosen, processing, reads, handed, saved, route, open, error, uploads>>

\* The reasons of the dialog: a listed one, or "Other" with details; Cancel and the cross.
EditReport ==
  /\ page = "assist" /\ report # NoReport
  /\ report' \in {[report EXCEPT !.other = ~@], NoReport}
  /\ UNCHANGED <<page, chosen, processing, reads, handed, saved, route, open, error, uploads>>

SubmitReport ==
  /\ page = "assist" /\ report # NoReport
  /\ Update([route EXCEPT !.status[report.stop] = IF report.other THEN "other" ELSE "failed"])
  /\ open' = "none" /\ report' = NoReport
  /\ UNCHANGED <<page, chosen, processing, reads, handed, error, uploads>>

\* finishRoute saves once more; the summary reads what is saved.
Finish ==
  /\ Driving
  /\ saved' = route
  /\ page' = "summary"
  /\ Leave
  /\ reads' = {[r EXCEPT !.mounted = FALSE] : r \in reads}
  /\ UNCHANGED <<chosen, processing, handed, uploads>>

Next ==
  \/ Visit
  \/ ChooseUpload
  \/ RemoveUpload
  \/ Continue
  \/ CancelUpload
  \/ View
  \/ BackToUpload
  \/ PickRoute
  \/ ToggleStop
  \/ ChangeNote
  \/ Deliver
  \/ OpenReport
  \/ EditReport
  \/ SubmitReport
  \/ Finish
  \/ \E r \in reads : HandOver(r)
  \/ \E r \in reads : RouteRead(r)

Spec == Init /\ [][Next]_driverVars

-----------------------------------------------------------------------------
\* What a driver did stays done: as long as the saved route comes from the same upload, a
\* stop delivered or reported never turns into work to be done again, whatever pages are
\* visited, reloaded or left (driver_assist/page.tsx imports an uploaded file once).
DoneStaysDone ==
  [][saved'.serial = saved.serial =>
       \A s \in DOMAIN saved.status :
         saved.status[s] # "pending" => saved'.status[s] = saved.status[s]]_driverVars
=============================================================================
