---------------------------- MODULE VehicleList ----------------------------
(***************************************************************************)
(* The vehicles of the edit page: the hook (useVehicles.ts), the section   *)
(* and rows that call it, the form of VehicleDetailsOverlay with its       *)
(* departure time, and the way of a vehicle through a save point           *)
(* (sessionMapper.ts, timeConversion.ts).  One action is one event of a    *)
(* control.  Name, type and unit of a vehicle are members of Details that  *)
(* are filled or missing.  The start location is set by a run only         *)
(* (OptimizeClient), and left out here.                                    *)
(***************************************************************************)
EXTENDS Integers, Sequences, FiniteSets, FiniteSetsExt, Lists

CONSTANTS
  Details,      \* the required texts: name, type and unit
  Clearable,    \* those that can be emptied again (the name)
  HourTexts,    \* what is typed as the hour
  MinuteTexts,  \* what is typed as the minutes
  MaxVehicles   \* bound on the vehicles

\* What the constants must be; the instance for TLC assumes it.
VehicleAssumption ==
  /\ Clearable \subseteq Details
  /\ HourTexts \subseteq Nat /\ MinuteTexts \subseteq 0..99
  /\ MaxVehicles \in Nat

VARIABLES
  fleet,      \* vehicles
  form,       \* the state of the overlay
  overlay     \* what is open: "none", "add", "edit" or "delete", and for which vehicle

vehicleVars == <<fleet, form, overlay>>

Blank == -1
NoTime == [hours |-> Blank, minutes |-> Blank, pm |-> FALSE]
Closed == [kind |-> "none", id |-> 0]

EmptyForm == [missing |-> Details, capacity |-> 0, available |-> TRUE, time |-> NoTime,
              auto |-> FALSE, typed |-> FALSE]

Ids == {fleet[i].id : i \in DOMAIN fleet}
Vehicle(id) == fleet[CHOOSE i \in DOMAIN fleet : fleet[i].id = id]

Init == fleet = <<>> /\ form = EmptyForm /\ overlay = Closed

-----------------------------------------------------------------------------
(* The form. *)

\* Every opening mounts a new overlay with the vehicle as it is then.
OpenForm(kind, vehicle) ==
  /\ overlay = Closed
  /\ overlay' = [kind |-> kind, id |-> vehicle.id]
  /\ form' = [missing |-> vehicle.missing, capacity |-> vehicle.capacity,
              available |-> vehicle.available, time |-> vehicle.departure,
              auto |-> FALSE, typed |-> vehicle.departure # NoTime]
  /\ UNCHANGED fleet

BlankVehicle == [id |-> 0, missing |-> Details, capacity |-> 0, available |-> TRUE,
                 departure |-> NoTime]

\* All rows are locked whenever the section is usable, so the button is enabled.
OpenAdd == Len(fleet) < MaxVehicles /\ OpenForm("add", BlankVehicle)
OpenEdit(id) == OpenForm("edit", Vehicle(id))

Editing == overlay.kind \in {"add", "edit"}

\* The button, Escape or the backdrop: what was typed is lost.
CloseForm ==
  /\ Editing
  /\ overlay' = Closed /\ form' = EmptyForm
  /\ UNCHANGED fleet

\* The fields that are only stored: texts, the clamped capacity, the toggle, am and pm.
EnterDetails ==
  /\ Editing
  /\ \/ \E d \in form.missing : form' = [form EXCEPT !.missing = @ \ {d}]
     \/ \E d \in Clearable \ form.missing : form' = [form EXCEPT !.missing = @ \cup {d}]
     \/ form' = [form EXCEPT !.capacity = 1 - @]
     \/ form' = [form EXCEPT !.available = ~@]
     \/ form' = [form EXCEPT !.time.pm = ~@]
  /\ UNCHANGED <<fleet, overlay>>

IsValidHour(h) == h \in 1..12

\* getMinutesAfterHourChange
MinutesAfterHourChange(hours, minutes, auto) ==
  IF ~IsValidHour(hours)
    THEN [minutes |-> IF auto THEN Blank ELSE minutes, auto |-> FALSE]
    ELSE IF minutes = Blank \/ auto
    THEN [minutes |-> 0, auto |-> TRUE]
    ELSE [minutes |-> minutes, auto |-> FALSE]

EnterHours ==
  /\ Editing
  /\ \E h \in HourTexts \cup {Blank} :
       LET next == MinutesAfterHourChange(h, form.time.minutes, form.auto)
       IN  form' = [form EXCEPT !.time.hours = h, !.time.minutes = next.minutes,
                                !.auto = next.auto]
  /\ UNCHANGED <<fleet, overlay>>

\* Plausible mistake: typed minutes still count as filled in automatically.
EnterMinutesUnnoticed ==
  /\ Editing
  /\ \E m \in MinuteTexts \cup {Blank} :
       form' = [form EXCEPT !.time.minutes = m, !.typed = m # Blank]
  /\ UNCHANGED <<fleet, overlay>>

\* typed: the minutes are the user's own; the code remembers only auto.
EnterMinutes ==
  /\ Editing
  /\ \E m \in MinuteTexts \cup {Blank} :
       form' = [form EXCEPT !.time.minutes = m, !.auto = FALSE, !.typed = m # Blank]
  /\ UNCHANGED <<fleet, overlay>>

IsValidTime(time) == IsValidHour(time.hours) /\ time.minutes \in 0..59
FormIsValid == form.missing = {} /\ form.capacity > 0 /\ IsValidTime(form.time)

WithForm(vehicle) ==
  [vehicle EXCEPT !.missing = form.missing, !.capacity = form.capacity,
                  !.available = form.available, !.departure = form.time]

\* Ids are one above the highest in the list.
NewId == 1 + Max({0} \cup Ids)

\* handleSave: the form stays open while it is incomplete.
SaveForm ==
  /\ Editing /\ FormIsValid
  /\ fleet' = IF overlay.kind = "add"
                THEN Append(fleet, WithForm([BlankVehicle EXCEPT !.id = NewId]))
                ELSE [i \in DOMAIN fleet |-> IF fleet[i].id = overlay.id THEN WithForm(fleet[i])
                                                                       ELSE fleet[i]]
  /\ overlay' = Closed /\ form' = EmptyForm

-----------------------------------------------------------------------------
(* The list. *)

RequestDelete(id) ==
  /\ overlay = Closed
  /\ overlay' = [kind |-> "delete", id |-> id]
  /\ UNCHANGED <<fleet, form>>

CancelDelete ==
  /\ overlay.kind = "delete"
  /\ overlay' = Closed
  /\ UNCHANGED <<fleet, form>>

DeleteVehicle ==
  /\ overlay.kind = "delete"
  /\ fleet' = EntriesAt(fleet, {i \in DOMAIN fleet : fleet[i].id # overlay.id})
  /\ overlay' = Closed
  /\ UNCHANGED form

\* The toggle of a row, and "Mark all available".
SetAvailable(ids, available) ==
  /\ overlay = Closed
  /\ fleet' = [i \in DOMAIN fleet |-> IF fleet[i].id \in ids
                                        THEN [fleet[i] EXCEPT !.available = available]
                                        ELSE fleet[i]]
  /\ UNCHANGED <<form, overlay>>

ToggleAvailable(id) == SetAvailable({id}, ~Vehicle(id).available)
MarkAllAvailable == SetAvailable(Ids, TRUE)

-----------------------------------------------------------------------------
(* Save points: what the file keeps of a vehicle and what a page makes of it. *)

\* timeToSeconds
Seconds(time) ==
  LET hours == IF time.hours = 12 THEN (IF time.pm THEN 12 ELSE 0)
                                  ELSE time.hours + (IF time.pm THEN 12 ELSE 0)
  IN  hours * 3600 + time.minutes * 60

SecondsOfDay == 24 * 3600

NoSeconds == -1
SavedDeparture(v) == IF v.departure = NoTime THEN NoSeconds ELSE Seconds(v.departure)

\* secondsToTimeAMPM: midnight is taken for a missing time.
TimeOf(seconds) ==
  LET hours == seconds \div 3600
  IN  IF seconds \in {NoSeconds, 0} THEN NoTime
      ELSE [hours |-> IF hours = 0 THEN 12 ELSE IF hours > 12 THEN hours - 12 ELSE hours,
            minutes |-> (seconds % 3600) \div 60, pm |-> hours >= 12]

\* Exporting needs every vehicle to have its type and unit; the file has no availability.
\* (An empty name is left out of it, and comes back empty.)
Exportable == fleet # <<>> /\ \A i \in DOMAIN fleet : fleet[i].missing \subseteq Clearable

\* mapVehicleInputToRow of vehicleRowToSessionVehicleInput
Restored(v) == [v EXCEPT !.available = TRUE, !.departure = TimeOf(SavedDeparture(v))]

\* A save point is exported and opened later on: the list is that of the export again.
ReopenSavePoint ==
  /\ overlay = Closed /\ Exportable
  /\ fleet' = [i \in DOMAIN fleet |-> Restored(fleet[i])]
  /\ UNCHANGED <<form, overlay>>

Next ==
  \/ OpenAdd
  \/ CloseForm
  \/ EnterDetails
  \/ EnterHours
  \/ EnterMinutes
  \/ SaveForm
  \/ CancelDelete
  \/ DeleteVehicle
  \/ MarkAllAvailable
  \/ ReopenSavePoint
  \/ \E id \in Ids : \/ OpenEdit(id)
                     \/ RequestDelete(id)
                     \/ ToggleAvailable(id)

Spec == Init /\ [][Next]_vehicleVars

-----------------------------------------------------------------------------
\* The minutes a user typed are never replaced, whatever happens to the hours: only
\* minutes that were filled in automatically follow them (deliveryHelpers.ts:40).
TypedMinutesSurvive ==
  [][Editing /\ Editing' /\ form.typed /\ form'.typed /\ form'.time.hours # form.time.hours
       => form'.time.minutes = form.time.minutes]_vehicleVars

\* A save point gives back every departure time but midnight (timeConversion.ts).
DeparturesRestored ==
  [][ReopenSavePoint => \A i \in DOMAIN fleet :
       \/ fleet'[i].departure = fleet[i].departure
       \/ Seconds(fleet[i].departure) = 0]_vehicleVars

\* Every vehicle in the list has an id of its own and can be sent: it is complete, and
\* leaves within the day; only midnight is lost when a save point is opened.
FleetIsSound ==
  /\ Cardinality(Ids) = Len(fleet)
  /\ \A i \in DOMAIN fleet :
       /\ fleet[i].missing = {} /\ fleet[i].capacity > 0
       /\ fleet[i].departure # NoTime =>
            /\ IsValidTime(fleet[i].departure)
            /\ Seconds(fleet[i].departure) \in 0..SecondsOfDay - 1

\* A departure time is the one the user entered, from the keystroke to the save point and
\* back: through the automatic minutes, the check of the form and both conversions.
DeparturesKept == TypedMinutesSurvive /\ DeparturesRestored /\ []FleetIsSound
=============================================================================
