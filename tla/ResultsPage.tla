---------------------------- MODULE ResultsPage ----------------------------
(***************************************************************************)
(* The results page: routes loaded from storage and the draft edited over  *)
(* them, edit mode with a pin moved but not saved yet, the cards and their *)
(* menus, and the dialogs that export routes or send them to the drivers.  *)
(* A send goes on when its dialog is closed, and an optimisation started   *)
(* on the edit page can replace the loaded routes at any time.             *)
(* One stop per route; its position and note are what editing changes.     *)
(***************************************************************************)
EXTENDS Integers, FiniteSets, Sequences, Lists

CONSTANTS
  BaseRoutes, \* number of routes of an optimisation
  Positions,  \* where a pin can be; 0 is where the optimisation put it
  Notes,      \* texts of a note; 0 is the empty one
  MaxLoads,   \* optimisations that finish (bound)
  MaxId,      \* ids of routes, copies included (bound)
  MaxFlights  \* sends under way (bound)

\* What the constants must be; the instance for TLC assumes it.
ResultsAssumption ==
  /\ BaseRoutes \in Nat /\ MaxLoads \in Nat /\ MaxId \in Nat /\ MaxFlights \in Nat
  /\ 0 \in Positions /\ 0 \in Notes

VARIABLES
  layout,     \* "desktop" or "mobile": the width of the window
  loaded,     \* which optimisation is in storage; 0 when there is none
  draft,      \* draftRoutes: the routes, and the result they are a draft of
  editMode, pending, \* isEditMode; pendingPinMove, or NoPin
  sheet,      \* isSheetExpanded
  cards,      \* the expanded cards, each with the note in its text area
  menu,       \* openMenuRouteId, 0 when none is open
  dialog,     \* the modal that is open
  selected, sendState, \* of the modal: selectedIds, sendState
  flights,    \* sends under way; mounted while their dialog is still open
  delivered,  \* what WhatsApp confirmed
  nextId,     \* the next id of a copy
  out         \* what the last step gave away: files or messages

editVars == <<editMode, pending, sheet, cards, menu>>
sendVars == <<selected, sendState, flights, delivered>>
resultsVars == <<layout, loaded, draft, editVars, dialog, sendVars, nextId, out>>

NoPin == [id |-> 0, pos |-> 0]
NoCards == [id \in {} |-> 0]

LoadedRoutes(source) ==
  [i \in 1..(IF source = 0 THEN 0 ELSE BaseRoutes) |->
     [id |-> i, pos |-> 0, note |-> 0, phone |-> FALSE, sent |-> FALSE]]

\* A draft shows only over the result it was made from.
Displayed == IF draft.source = loaded THEN draft.routes ELSE LoadedRoutes(loaded)

Ids == {Displayed[i].id : i \in DOMAIN Displayed}
RouteOf(id) == LET i == CHOOSE j \in DOMAIN Displayed : Displayed[j].id = id IN Displayed[i]
IndexOf(id) == CHOOSE j \in DOMAIN Displayed : Displayed[j].id = id

\* setRoutes of a callback made while "source" was loaded.
SetRoutes(source, Update(_)) ==
  LET base == IF draft.source = source THEN draft.routes ELSE Displayed
  IN draft' = [source |-> source, routes |-> Update(base)]

\* Changes the routes with these ids and keeps the others.
ForIds(ids, Change(_)) ==
  SetRoutes(loaded, LAMBDA routes :
    [i \in DOMAIN routes |-> IF routes[i].id \in ids THEN Change(routes[i]) ELSE routes[i]])

\* What the user sees on the map and in the cards, and what would leave in a file.
Shown(route) == [id |-> route.id, note |-> route.note,
                 pos |-> IF pending.id = route.id THEN pending.pos ELSE route.pos]
Exported(route) == [id |-> route.id, note |-> route.note, pos |-> route.pos]
View == {Shown(Displayed[i]) : i \in DOMAIN Displayed}

Init ==
  /\ layout \in {"desktop", "mobile"}
  /\ loaded \in {n \in {0, 1} : n <= MaxLoads}
  /\ draft = [source |-> -1, routes |-> <<>>]
  /\ editMode = FALSE /\ pending = NoPin /\ sheet = FALSE /\ cards = NoCards /\ menu = 0
  /\ dialog = "none" /\ selected = {} /\ sendState = "idle"
  /\ flights = {} /\ delivered = {}
  /\ nextId = BaseRoutes + 1
  /\ out = {}

-----------------------------------------------------------------------------
(* The page under the dialogs; without a result a message covers it.       *)

Page == dialog = "none" /\ loaded # 0

\* On a narrow window the cards are in the sheet, once it is expanded.
CardsShown == Page /\ (layout = "desktop" \/ sheet)

SavePin ==
  IF pending = NoPin
    THEN UNCHANGED <<draft, pending>>
    ELSE /\ ForIds({pending.id}, LAMBDA r : [r EXCEPT !.pos = pending.pos])
         /\ pending' = NoPin

\* handleEditModeChange
SetEditMode(value) ==
  /\ editMode' = value
  /\ sheet' = (sheet \/ value)
  /\ IF value THEN UNCHANGED <<draft, pending>> ELSE SavePin

\* The edit button of the sidebar and of the sheet, and "Save edits" of the navbar.
EditButton ==
  /\ Page
  /\ SetEditMode(~editMode)
  /\ out' = {}
  /\ UNCHANGED <<layout, loaded, cards, menu, dialog, sendVars, nextId>>

DragPin ==
  /\ Page /\ editMode
  /\ \E id \in Ids, pos \in Positions : pending' = [id |-> id, pos |-> pos]
  /\ out' = {}
  /\ UNCHANGED <<layout, loaded, draft, editMode, sheet, cards, menu, dialog, sendVars, nextId>>

SavePinButton ==
  /\ Page /\ layout = "desktop" /\ pending # NoPin
  /\ SavePin
  /\ out' = {}
  /\ UNCHANGED <<layout, loaded, editMode, sheet, cards, menu, dialog, sendVars, nextId>>

\* Cancel of the header, and of the navbar (shown in edit mode).
CancelPinButton ==
  /\ Page /\ pending # NoPin
  /\ layout = "mobile" => editMode
  /\ pending' = NoPin
  /\ out' = {}
  /\ UNCHANGED <<layout, loaded, draft, editMode, sheet, cards, menu, dialog, sendVars, nextId>>

\* The handle of the sheet; a collapsed sheet forgets its cards and its menu.
ToggleSheet ==
  /\ Page /\ layout = "mobile"
  /\ sheet' = ~sheet /\ cards' = NoCards /\ menu' = 0
  /\ out' = {}
  /\ UNCHANGED <<layout, loaded, draft, editMode, pending, dialog, sendVars, nextId>>

ToggleCard ==
  /\ CardsShown
  /\ \E id \in Ids :
       cards' = IF id \in DOMAIN cards
                  THEN [c \in DOMAIN cards \ {id} |-> cards[c]]
                  ELSE [c \in DOMAIN cards \cup {id} |->
                          IF c = id THEN RouteOf(id).note ELSE cards[c]]
  /\ out' = {}
  /\ UNCHANGED <<layout, loaded, draft, editMode, pending, sheet, menu, dialog, sendVars, nextId>>

TypeNote ==
  /\ CardsShown /\ editMode
  /\ \E id \in DOMAIN cards \cap Ids, note \in Notes : cards' = [cards EXCEPT ![id] = note]
  /\ out' = {}
  /\ UNCHANGED <<layout, loaded, draft, editMode, pending, sheet, menu, dialog, sendVars, nextId>>

SaveNote ==
  /\ CardsShown /\ editMode
  /\ \E id \in DOMAIN cards \cap Ids : ForIds({id}, LAMBDA r : [r EXCEPT !.note = cards[id]])
  /\ out' = {}
  /\ UNCHANGED <<layout, loaded, editVars, dialog, sendVars, nextId>>

\* The three dots; a press elsewhere and Escape close the menu.
ToggleMenu ==
  /\ CardsShown
  /\ \/ \E id \in Ids : menu' = (IF menu = id THEN 0 ELSE id)
     \/ menu # 0 /\ menu' = 0
  /\ out' = {}
  /\ UNCHANGED <<layout, loaded, draft, editMode, pending, sheet, cards, dialog, sendVars, nextId>>

Editing == editMode \/ pending # NoPin

\* Plausible mistake: the menu of a card exports at once, without the warning.
ExportRouteUnguarded ==
  /\ CardsShown /\ menu \in Ids
  /\ menu' = 0
  /\ out' = {Exported(RouteOf(menu))}
  /\ UNCHANGED <<layout, loaded, draft, editMode, pending, sheet, cards, dialog, sendVars, nextId>>

\* handleExportSingleRoute: one file, or the warning.
ExportRoute ==
  /\ CardsShown /\ menu \in Ids
  /\ menu' = 0
  /\ IF Editing
       THEN dialog' = "warning" /\ out' = {}
       ELSE out' = {Exported(RouteOf(menu))} /\ UNCHANGED dialog
  /\ UNCHANGED <<layout, loaded, draft, editMode, pending, sheet, cards, sendVars, nextId>>

\* Plausible mistake: only the id of a copy is new.
CopyKeepsBadge(route, id) == [route EXCEPT !.id = id]

\* duplicateRoute: a copy has no driver yet, so no phone number and no badge.
CopyOf(route, id) == [route EXCEPT !.id = id, !.phone = FALSE, !.sent = FALSE]

DuplicateRoute ==
  /\ CardsShown /\ menu \in Ids /\ nextId <= MaxId
  /\ LET i == IndexOf(menu)
         copy == CopyOf(Displayed[i], nextId)
     IN SetRoutes(loaded, LAMBDA routes :
          SubSeq(routes, 1, i) \o <<copy>> \o SubSeq(routes, i + 1, Len(routes)))
  /\ nextId' = nextId + 1 /\ menu' = 0
  /\ out' = {}
  /\ UNCHANGED <<layout, loaded, editMode, pending, sheet, cards, dialog, sendVars>>

\* handleDeleteRoute, and the sidebar's own state of the card.
DeleteRoute ==
  /\ CardsShown /\ menu \in Ids
  /\ SetRoutes(loaded, LAMBDA routes :
       EntriesAt(routes, {i \in DOMAIN routes : routes[i].id # menu}))
  /\ pending' = (IF pending.id = menu THEN NoPin ELSE pending)
  /\ cards' = [c \in DOMAIN cards \ {menu} |-> cards[c]] /\ menu' = 0
  /\ out' = {}
  /\ UNCHANGED <<layout, loaded, editMode, sheet, dialog, sendVars, nextId>>

\* handleRouteDistanceUpdate: the map's answer makes a draft, even when nothing else changes.
DistanceUpdate ==
  /\ loaded # 0
  /\ SetRoutes(loaded, LAMBDA routes : routes)
  /\ out' = {}
  /\ UNCHANGED <<layout, loaded, editVars, dialog, sendVars, nextId>>

-----------------------------------------------------------------------------
(* Export and send.                                                        *)

\* The panels mount with every route selected, and nothing under way.
Open(d) ==
  /\ dialog' = d
  /\ selected' = IF d \in {"export", "send"} THEN Ids ELSE {}
  /\ sendState' = "idle"

Detached == {[f EXCEPT !.mounted = FALSE] : f \in flights}

\* handleExportClick
ExportButton ==
  /\ Page /\ Ids # {}
  /\ layout = "mobile" => sheet
  /\ Open(IF Editing THEN "warning" ELSE "method")
  /\ out' = {}
  /\ UNCHANGED <<layout, loaded, draft, editVars, flights, delivered, nextId>>

\* "Done editing" saves and goes on to the choice of a method.
DoneEditing ==
  /\ dialog = "warning"
  /\ SetEditMode(FALSE)
  /\ Open("method")
  /\ out' = {}
  /\ UNCHANGED <<layout, loaded, cards, menu, flights, delivered, nextId>>

ChooseMethod ==
  /\ dialog = "method"
  /\ \E d \in {"send", "export"} : Open(d)
  /\ out' = {}
  /\ UNCHANGED <<layout, loaded, draft, editVars, flights, delivered, nextId>>

\* The cross, Cancel, Escape and the backdrop; a send under way does not prevent it.
CloseDialog ==
  /\ dialog # "none"
  /\ Open("none")
  /\ flights' = Detached
  /\ out' = {}
  /\ UNCHANGED <<layout, loaded, draft, editVars, delivered, nextId>>

ToggleSelected ==
  /\ dialog \in {"export", "send"}
  /\ \E id \in Ids :
       selected' = IF id \in selected THEN selected \ {id} ELSE selected \cup {id}
  /\ out' = {}
  /\ UNCHANGED <<layout, loaded, draft, editVars, dialog, sendState, flights, delivered, nextId>>

\* Export of the selected routes, or of all; one file each.
ExportFiles ==
  /\ dialog = "export"
  /\ \E ids \in {selected \cap Ids, Ids} \ {{}} : out' = {Exported(RouteOf(id)) : id \in ids}
  /\ Open("none")
  /\ UNCHANGED <<layout, loaded, draft, editVars, flights, delivered, nextId>>

\* The number of a driver, complete or not.
TypePhone ==
  /\ dialog = "send" /\ sendState # "sending"
  /\ \E id \in selected \cap Ids : ForIds({id}, LAMBDA r : [r EXCEPT !.phone = ~r.phone])
  /\ out' = {}
  /\ UNCHANGED <<layout, loaded, editVars, dialog, sendVars, nextId>>

CanSend ==
  /\ selected \cap Ids # {} /\ sendState # "sending"
  /\ \A id \in selected \cap Ids : RouteOf(id).phone

Send ==
  /\ dialog = "send" /\ CanSend /\ Cardinality(flights) < MaxFlights
  /\ sendState' = "sending"
  /\ flights' = flights \cup {[ids |-> selected \cap Ids, source |-> loaded, mounted |-> TRUE]}
  /\ out' = {Exported(RouteOf(id)) : id \in selected \cap Ids}
  /\ UNCHANGED <<layout, loaded, draft, editVars, dialog, selected, delivered, nextId>>

\* markRoutesSent, with the result that was loaded when the send began.
MarkSent(flight, sent) ==
  IF sent = {} THEN UNCHANGED draft
  ELSE SetRoutes(flight.source, LAMBDA routes :
         [i \in DOMAIN routes |->
            IF routes[i].id \in sent THEN [routes[i] EXCEPT !.sent = TRUE] ELSE routes[i]])

\* The answer: the messages that were sent, the others failed.  The close at the end of a
\* complete send also closes a send dialog opened since.
SendAnswered(flight) ==
  /\ \E sent \in SUBSET flight.ids :
       /\ delivered' = delivered \cup {[source |-> flight.source, id |-> id] : id \in sent}
       /\ MarkSent(flight, sent)
       /\ IF sent = flight.ids /\ dialog = "send"
            THEN /\ Open("none")
                 /\ flights' = {[f EXCEPT !.mounted = FALSE] : f \in flights \ {flight}}
            ELSE /\ flights' = flights \ {flight}
                 /\ IF flight.mounted
                      THEN selected' = selected \ sent /\ sendState' = "error"
                      ELSE UNCHANGED <<selected, sendState>>
                 /\ UNCHANGED dialog
  /\ out' = {}
  /\ UNCHANGED <<layout, loaded, editVars, nextId>>

-----------------------------------------------------------------------------
\* "optimize-results-updated": a run of the edit page finished.
NewResults ==
  /\ loaded < MaxLoads
  /\ loaded' = loaded + 1
  /\ out' = {}
  /\ UNCHANGED <<layout, draft, editVars, dialog, sendVars, nextId>>

Next ==
  \/ EditButton
  \/ DragPin
  \/ SavePinButton
  \/ CancelPinButton
  \/ ToggleSheet
  \/ ToggleCard
  \/ TypeNote
  \/ SaveNote
  \/ ToggleMenu
  \/ ExportRoute
  \/ DuplicateRoute
  \/ DeleteRoute
  \/ DistanceUpdate
  \/ ExportButton
  \/ DoneEditing
  \/ ChooseMethod
  \/ CloseDialog
  \/ ToggleSelected
  \/ ExportFiles
  \/ TypePhone
  \/ Send
  \/ \E flight \in flights : SendAnswered(flight)
  \/ NewResults

Spec == Init /\ [][Next]_resultsVars

-----------------------------------------------------------------------------
\* What leaves the page is what the user sees on it: no pin moved on the map and missing in
\* the file or message (the promise of ExportEditWarningModal; results/page.tsx,
\* handleExportClick and handleExportSingleRoute).
ExportMatchesView == [][out' \subseteq View]_resultsVars

\* A route wears the badge "Sent" only if a message with this route of this optimisation
\* was confirmed: not because a copy, an earlier optimisation or the rest of the batch was
\* (markRoutesSent, duplicateRoute and the source of a draft).
SentMeansDelivered ==
  \A i \in DOMAIN Displayed :
    Displayed[i].sent => [source |-> loaded, id |-> Displayed[i].id] \in delivered
=============================================================================
