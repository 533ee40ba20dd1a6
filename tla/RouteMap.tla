------------------------------ MODULE RouteMap ------------------------------
(***************************************************************************)
(* The map of the results page (results/components/Map.tsx): one line and  *)
(* one pin per route, redrawn by effects whenever the routes, the moved    *)
(* pin or edit mode change.  Road lines come from the Directions service,  *)
(* one request at a time; pins need a library that is loaded first.  Both  *)
(* answers may arrive after the routes they were asked for are gone.       *)
(* A route is the position of its one movable stop; Gone when deleted.     *)
(***************************************************************************)
EXTENDS Integers, FiniteSets, Sequences, SequencesExt

CONSTANTS
  Vehicles,   \* number of routes
  Positions,  \* where the stop of a route can be
  Gone,       \* a deleted route
  TooLong,    \* routes with more than 25 waypoints: never sent to the service
  CacheSize,  \* MAX_DIRECTIONS_CACHE_SIZE
  MaxDraws    \* runs of an effect under way (bound)

\* What the constants must be; the instance for TLC assumes it.
MapAssumption ==
  /\ Vehicles \in Nat /\ TooLong \subseteq 1..Vehicles
  /\ Gone \notin Positions /\ CacheSize \in Nat \ {0} /\ MaxDraws \in Nat \ {0}

VARIABLES
  ready,     \* the map instance exists
  routes,    \* routes, by vehicle
  editMode,
  pending,   \* pendingPinMove, or NoMove
  lines,     \* polylinesByVehicleRef: position and kind of each line
  pins,      \* markerByStopKeyRef: position of each pin
  cache,     \* directionsCacheRef, oldest first
  draws,     \* runs of the effect that draws lines
  marks      \* runs of the effect that sets pins

mapVars == <<ready, routes, editMode, pending, lines, pins, cache, draws, marks>>

Ids == 1..Vehicles
NoMove == [id |-> 0, pos |-> Gone]
NoLine == [pos |-> Gone, road |-> FALSE]
NoLines == [id \in Ids |-> NoLine]
NoPins == [id \in Ids |-> Gone]

Path(id, pos) == <<id, pos>>
Cached(path) == \E i \in DOMAIN cache : cache[i] = path

\* rememberDirections: the oldest entries leave.
Remember(path) ==
  LET all == IF Cached(path) THEN cache ELSE Append(cache, path)
  IN IF Len(all) > CacheSize THEN Tail(all) ELSE all

Init ==
  /\ ready = FALSE /\ routes \in [Ids -> Positions]
  /\ editMode = FALSE /\ pending = NoMove
  /\ lines = NoLines /\ pins = NoPins /\ cache = <<>>
  /\ draws = {} /\ marks = {}

-----------------------------------------------------------------------------
(* The effects. *)

\* A line at the position of the route: the road when it is known, else straight.
LineFor(id, pos) ==
  IF pos = Gone THEN NoLine ELSE [pos |-> pos, road |-> Cached(Path(id, pos))]

\* Effect of the lines, when a path changed: the cleanup of the last run, and a first line
\* for every route.  The requests follow (DrawNext).
Cancelled(runs) == {[r EXCEPT !.cancelled = TRUE] : r \in {q \in runs : q.waiting}}
Redraw(newRoutes) ==
  draws' = Cancelled(draws) \cup
             {[routes |-> newRoutes, next |-> 1, waiting |-> FALSE, cancelled |-> FALSE]}

\* Effect of the moved pin: the line of its route follows it; without a moved pin every
\* line is that of its route again.
MoveLines(drawn, newRoutes, move) ==
  IF move # NoMove
    THEN IF newRoutes[move.id] = Gone \/ drawn[move.id] = NoLine THEN drawn
         ELSE [drawn EXCEPT ![move.id] = [@ EXCEPT !.pos = move.pos]]
    ELSE [id \in Ids |-> IF drawn[id] = NoLine THEN NoLine ELSE LineFor(id, newRoutes[id])]

\* The pins of a run that has loaded the library: a moved pin stays where it is.
PlacePins(newRoutes, move) ==
  [id \in Ids |-> IF id = move.id /\ newRoutes[id] # Gone THEN move.pos ELSE newRoutes[id]]

\* Effect of the pins: a change of the routes or of edit mode sets them anew.
CancelledMarks == {[m EXCEPT !.cancelled = TRUE] : m \in marks}
Rebuild(newRoutes) ==
  marks' = CancelledMarks \cup
             (IF newRoutes = [id \in Ids |-> Gone] THEN {}
              ELSE {[routes |-> newRoutes, cancelled |-> FALSE]})

\* Effect that moves one pin, or all of them back.
MovePins(newRoutes, move) ==
  IF move # NoMove
    THEN IF pins[move.id] = Gone THEN pins ELSE [pins EXCEPT ![move.id] = move.pos]
    ELSE [id \in Ids |-> IF pins[id] = Gone THEN Gone ELSE newRoutes[id]]

\* All effects after new routes: lines are redrawn when a path changed, pins always.
AfterRoutes(newRoutes, move) ==
  /\ Cardinality(draws) < MaxDraws /\ Cardinality(marks) < MaxDraws
  /\ IF newRoutes # routes
       THEN /\ Redraw(newRoutes)
            /\ lines' = MoveLines([id \in Ids |-> LineFor(id, newRoutes[id])], newRoutes, move)
       ELSE /\ lines' = MoveLines(lines, newRoutes, move)
            /\ UNCHANGED draws
  /\ Rebuild(newRoutes)
  /\ pins' = NoPins
  /\ routes' = newRoutes /\ pending' = move

-----------------------------------------------------------------------------
(* What the page does. *)

\* onMapLoad: the first run of all effects.
LoadMap ==
  /\ ~ready /\ ready' = TRUE
  /\ Redraw(routes) /\ Rebuild(routes)
  /\ lines' = [id \in Ids |-> LineFor(id, routes[id])]
  /\ UNCHANGED <<routes, editMode, pending, pins, cache>>

\* Another optimisation, a deleted route, or a change that moves nothing (a note, a
\* distance, a badge): the array of routes is a new one every time.
ReplaceRoutes ==
  /\ ready
  /\ \/ \E new \in [Ids -> Positions] : AfterRoutes(new, pending)
     \/ \E id \in Ids :
          AfterRoutes([routes EXCEPT ![id] = Gone], IF pending.id = id THEN NoMove ELSE pending)
     \/ AfterRoutes(routes, pending)
  /\ UNCHANGED <<ready, editMode, cache>>

\* dragend of a pin that is on the map.
DragPin ==
  /\ ready /\ editMode
  /\ \E id \in Ids, pos \in Positions :
       /\ pins[id] # Gone
       /\ pending' = [id |-> id, pos |-> pos]
       /\ lines' = MoveLines(lines, routes, pending')
       /\ pins' = MovePins(routes, pending')
  /\ UNCHANGED <<ready, routes, editMode, cache, draws, marks>>

CancelPin ==
  /\ ready /\ pending # NoMove
  /\ pending' = NoMove
  /\ lines' = MoveLines(lines, routes, NoMove)
  /\ pins' = MovePins(routes, NoMove)
  /\ UNCHANGED <<ready, routes, editMode, cache, draws, marks>>

\* savePendingPinMove: the map of the routes leaves a deleted route alone.
WithMove ==
  IF pending = NoMove \/ routes[pending.id] = Gone THEN routes
  ELSE [routes EXCEPT ![pending.id] = pending.pos]

SavePin ==
  /\ ready /\ pending # NoMove
  /\ AfterRoutes(WithMove, NoMove)
  /\ UNCHANGED <<ready, editMode, cache>>

\* Leaving edit mode saves the moved pin; entering it makes the pins draggable.
ToggleEditMode ==
  /\ ready
  /\ editMode' = ~editMode
  /\ AfterRoutes(IF editMode THEN WithMove ELSE routes, IF editMode THEN NoMove ELSE pending)
  /\ UNCHANGED <<ready, cache>>

-----------------------------------------------------------------------------
(* What arrives later. *)

SetLine(id, line) == lines' = [lines EXCEPT ![id] = line]
Replace(d, new) == draws' = (draws \ {d}) \cup new
Advance(d) == Replace(d, {[d EXCEPT !.next = @ + 1, !.waiting = FALSE]})

\* The next turn of the loop: routes that need no request are drawn at once.
DrawNext(d) ==
  /\ ~d.waiting
  /\ IF d.next > Vehicles \/ d.cancelled
       THEN Replace(d, {}) /\ UNCHANGED lines
     ELSE LET id == d.next
              pos == d.routes[id]
          IN IF pos = Gone THEN Advance(d) /\ UNCHANGED lines
             ELSE IF id \in TooLong \/ Cached(Path(id, pos))
             THEN SetLine(id, [pos |-> pos, road |-> id \notin TooLong]) /\ Advance(d)
             ELSE Replace(d, {[d EXCEPT !.waiting = TRUE]}) /\ UNCHANGED lines
  /\ UNCHANGED <<ready, routes, editMode, pending, pins, cache, marks>>

\* Plausible mistake: an answer is drawn although its routes are gone.
MayDrawAnyAnswer(d) == TRUE

MayDraw(d) == ~d.cancelled

\* The service answers with a road, or the answer is an error, empty or late (10 s).
Directions(d) ==
  /\ d.waiting
  /\ LET path == Path(d.next, d.routes[d.next])
     IN IF ~MayDraw(d)
          THEN Replace(d, {}) /\ UNCHANGED <<lines, cache>>
          ELSE /\ Advance(d)
               /\ \E road \in BOOLEAN :
                    /\ cache' = (IF road THEN Remember(path) ELSE cache)
                    /\ SetLine(d.next, [pos |-> d.routes[d.next], road |-> road])
  /\ UNCHANGED <<ready, routes, editMode, pending, pins, marks>>

\* The marker library is there, or cannot be loaded.
MarkersReady(m) ==
  /\ marks' = marks \ {m}
  /\ IF m.cancelled THEN UNCHANGED pins ELSE pins' \in {PlacePins(m.routes, pending), pins}
  /\ UNCHANGED <<ready, routes, editMode, pending, lines, cache, draws>>

Next ==
  \/ LoadMap
  \/ ReplaceRoutes
  \/ DragPin
  \/ CancelPin
  \/ SavePin
  \/ ToggleEditMode
  \/ \E d \in draws : DrawNext(d)
  \/ \E d \in draws : Directions(d)
  \/ \E m \in marks : MarkersReady(m)

Spec == Init /\ [][Next]_mapVars

-----------------------------------------------------------------------------
\* The map shows the routes of the page, whatever answers arrive late: every route has its
\* line, and without a moved pin lines and pins are where the stops are; a moved pin stays
\* where it was dropped while the pins are set anew (Map.tsx, cancelled, pendingPinMoveRef).
MapShowsRoutes ==
  /\ ready => \A id \in Ids : (lines[id] = NoLine) = (routes[id] = Gone)
  /\ ready /\ pending = NoMove =>
       \A id \in Ids : lines[id].pos = routes[id] /\ pins[id] \in {Gone, routes[id]}
  /\ pending # NoMove => pins[pending.id] \in {Gone, pending.pos}
=============================================================================
