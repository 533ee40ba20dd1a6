-------------------------- MODULE MobileDeliveries --------------------------
(***************************************************************************)
(* The driver's mobile application: one route, restored from AsyncStorage  *)
(* when the application starts, worked on stop by stop, saved after every  *)
(* change without waiting for the write, and cleared at the end of the     *)
(* shift.  Writes are carried out in the order they were asked for, may    *)
(* fail, and are lost when the application is killed.                      *)
(***************************************************************************)
EXTENDS Integers, FiniteSets, Sequences

CONSTANTS
  Stops,      \* a sequence: the stops of a route, in order
  MaxWrites,  \* writes that wait (bound)
  MaxImports  \* routes imported (bound); numbers them

\* What the constants must be; the instance for TLC assumes it.
MobileAssumption ==
  /\ Stops \in Seq(STRING) /\ MaxWrites \in Nat /\ MaxImports \in Nat

VARIABLES
  route,      \* route, or NoRoute
  restored,   \* isRestored
  available,  \* storageAvailable
  stored,     \* what AsyncStorage holds
  expired,    \* it was saved more than MAX_ROUTE_AGE_MS ago
  writes,     \* setItem and removeItem calls not carried out yet
  open,       \* openId
  reporting,  \* reportingStopId
  reason,     \* the card's failureReason is not blank
  ending,     \* the dialog of the end of the shift: "closed", "open", "exporting"
  imports     \* routes imported so far

mobileVars == <<route, restored, available, stored, expired, writes, open, reporting, reason,
                ending, imports>>

Ids == {Stops[i] : i \in DOMAIN Stops}
NoRoute == [number |-> 0, status |-> [s \in {} |-> ""], note |-> [s \in {} |-> 0]]
NewRoute(n) == [number |-> n, status |-> [s \in Ids |-> "pending"], note |-> [s \in Ids |-> 0]]

Init ==
  /\ route = NoRoute /\ restored = FALSE /\ available = TRUE
  /\ stored = NoRoute /\ expired = FALSE /\ writes = <<>>
  /\ open = "none" /\ reporting = "none" /\ reason = FALSE /\ ending = "closed"
  /\ imports = 0

-----------------------------------------------------------------------------
(* The two effects that follow a change of the route.                      *)

\* Some card is always open: the one asked for, else the first stop that is left to do,
\* else the first stop.
Opened(r, wanted) ==
  LET left == {i \in DOMAIN Stops : r.status[Stops[i]] = "pending"}
  IN IF r = NoRoute \/ Stops = <<>> THEN "none"
     ELSE IF wanted # "none" THEN wanted
     ELSE IF left = {} THEN Stops[1]
     ELSE Stops[CHOOSE i \in left : \A j \in left : i <= j]

\* Plausible mistake: a change is not saved while an earlier one is still being written.
PersistWhenIdle(r, isRestored) == IF isRestored /\ writes = <<>> THEN <<r>> ELSE <<>>

\* Nothing is saved before what was saved is restored.
Persist(r, isRestored) == IF isRestored THEN <<r>> ELSE <<>>

SetRoute(r, wanted) ==
  /\ route' = r
  /\ writes' = (IF r = route THEN writes ELSE writes \o Persist(r, restored))
  /\ open' = Opened(r, wanted)

Room == Len(writes) < MaxWrites

-----------------------------------------------------------------------------
(* Starting, storage and the end of the process.                           *)

\* loadPersistedRoute: nothing when the read fails, and an old route is removed.
Restore ==
  /\ ~restored
  /\ restored' = TRUE
  /\ \E readable \in BOOLEAN :
       LET kept == readable /\ ~expired
       IN /\ route' = (IF kept THEN stored ELSE NoRoute)
          /\ available' = readable
          /\ writes' = (IF readable /\ expired THEN <<NoRoute>> ELSE <<>>)
                         \o Persist(route', TRUE)
          /\ open' = Opened(route', "none")
  /\ UNCHANGED <<stored, expired, reporting, reason, ending, imports>>

\* The next write is carried out or fails.
WriteEnds ==
  /\ writes # <<>>
  /\ writes' = Tail(writes)
  /\ \E succeeds \in BOOLEAN :
       /\ available' = succeeds
       /\ stored' = (IF succeeds THEN Head(writes) ELSE stored)
       /\ expired' = (IF succeeds THEN FALSE ELSE expired)
  /\ UNCHANGED <<route, restored, open, reporting, reason, ending, imports>>

\* The process is killed; it may start again on another day.
Kill ==
  /\ restored
  /\ route' = NoRoute /\ restored' = FALSE /\ available' = TRUE /\ writes' = <<>>
  /\ open' = "none" /\ reporting' = "none" /\ reason' = FALSE /\ ending' = "closed"
  /\ expired' \in {expired, stored # NoRoute}
  /\ UNCHANGED <<stored, imports>>

-----------------------------------------------------------------------------
(* The screen. *)

\* handleImportJson, offered when there is no route; a file that is not valid changes nothing.
Import ==
  /\ restored /\ route = NoRoute /\ imports < MaxImports /\ Room
  /\ imports' = imports + 1
  /\ SetRoute(NewRoute(imports'), "none")
  /\ reporting' = "none"
  /\ UNCHANGED <<restored, available, stored, expired, reason, ending>>

Driving == restored /\ route # NoRoute /\ ending = "closed"
ToDo(s) == s # "none" /\ route.status[s] = "pending"

\* Plausible mistake: another card can be opened over the report.
ToggleKeepingReport ==
  /\ Driving
  /\ \E s \in Ids : open' = Opened(route, IF open = s THEN "none" ELSE s)
  /\ UNCHANGED <<route, restored, available, stored, expired, writes, reporting, reason, ending,
                 imports>>

\* handleToggle also ends a report.
Toggle ==
  /\ Driving
  /\ \E s \in Ids : open' = Opened(route, IF open = s THEN "none" ELSE s)
  /\ reporting' = "none"
  /\ UNCHANGED <<route, restored, available, stored, expired, writes, reason, ending, imports>>

ChangeNote ==
  /\ Driving /\ Room
  /\ open # "none"
  /\ SetRoute([route EXCEPT !.note[open] = 1 - @], open)
  /\ UNCHANGED <<restored, available, stored, expired, reporting, reason, ending, imports>>

\* The buttons of a card are there until it is done, and not while it is reported.
Complete ==
  /\ Driving /\ Room /\ ToDo(open) /\ reporting # open
  /\ SetRoute([route EXCEPT !.status[open] = "completed"], "none")
  /\ UNCHANGED <<restored, available, stored, expired, reporting, reason, ending, imports>>

Report ==
  /\ Driving /\ ToDo(open) /\ reporting # open
  /\ reporting' = open
  /\ reason' = FALSE
  /\ UNCHANGED <<route, restored, available, stored, expired, writes, open, ending, imports>>

\* Typing a reason, or Cancel.
EditReport ==
  /\ Driving /\ reporting # "none" /\ open = reporting
  /\ \/ reason' = ~reason /\ UNCHANGED reporting
     \/ reporting' = "none" /\ UNCHANGED reason
  /\ UNCHANGED <<route, restored, available, stored, expired, writes, open, ending, imports>>

SubmitFailure ==
  /\ Driving /\ Room /\ reporting # "none" /\ open = reporting /\ reason
  /\ SetRoute([route EXCEPT !.status[reporting] = "failed"], "none")
  /\ reporting' = "none"
  /\ UNCHANGED <<restored, available, stored, expired, reason, ending, imports>>

\* The dialog of the end of the shift; it cannot be closed while the export is under way.
FinishRoute ==
  /\ Driving
  /\ ending' = "open"
  /\ UNCHANGED <<route, restored, available, stored, expired, writes, open, reporting, reason,
                 imports>>

AnswerFinish ==
  /\ ending = "open"
  /\ ending' \in {"closed", "exporting"}
  /\ UNCHANGED <<route, restored, available, stored, expired, writes, open, reporting, reason,
                 imports>>

\* clearRoute removes what is saved, and the effect on the route does so once more; when the
\* export fails the dialog stays.
ExportEnds ==
  /\ ending = "exporting" /\ Len(writes) + 1 < MaxWrites
  /\ \/ /\ route' = NoRoute
        /\ writes' = writes \o <<NoRoute>> \o Persist(NoRoute, restored)
        /\ open' = "none" /\ reporting' = "none" /\ ending' = "closed"
     \/ ending' = "open" /\ UNCHANGED <<route, writes, open, reporting>>
  /\ UNCHANGED <<restored, available, stored, expired, reason, imports>>

Next ==
  \/ Restore
  \/ WriteEnds
  \/ Kill
  \/ Import
  \/ Toggle
  \/ ChangeNote
  \/ Complete
  \/ Report
  \/ EditReport
  \/ SubmitFailure
  \/ FinishRoute
  \/ AnswerFinish
  \/ ExportEnds

Spec == Init /\ [][Next]_mobileVars

-----------------------------------------------------------------------------
\* Once nothing waits to be written and the last write succeeded, the storage holds what the
\* driver sees: no write, restore, end of shift or restart leaves an older or another route
\* there (useRoutePersistence.ts).
StoredWhatIsShown ==
  restored /\ writes = <<>> /\ available => stored = route

\* A stop that is being reported is the open one and still to be done: the reason cannot be
\* submitted for another stop, or for one that was completed meanwhile (index.tsx).
ReportIsForOpenStop == reporting # "none" => reporting = open /\ ToDo(reporting)

\* What the driver reports and sees is about the right stop and is what the phone keeps.
DeliveryIsSound == StoredWhatIsShown /\ ReportIsForOpenStop
=============================================================================
