---------------------------- MODULE AddressEntry ----------------------------
(***************************************************************************)
(* An address as it is typed: the overlay with its autocompletion          *)
(* (AddressOverlay.tsx, useAddressAutocomplete.ts) and the one clock that  *)
(* spaces the requests of a page to Nominatim (nominatim.ts), which a run  *)
(* or an export that locates addresses uses at the same time.  Nothing     *)
(* cancels a request: it goes on when the text changes or the overlay is   *)
(* closed.                                                                 *)
(***************************************************************************)
EXTENDS Integers, FiniteSets

CONSTANTS
  Texts,      \* texts of three characters or more
  Interval,   \* MIN_INTERVAL_MS, in ticks
  Slots,      \* calls under way (bound); the first free one is taken
  MaxOptions, \* suggestions shown (4 in the code)
  MaxMounts,  \* openings of the overlay (bound)
  MaxTime     \* bound on the clock

\* What the constants must be; the instance for TLC assumes it.
EntryAssumption ==
  /\ Slots \subseteq Nat
  /\ Interval \in Nat \ {0} /\ MaxOptions \in Nat /\ MaxMounts \in Nat /\ MaxTime \in Nat

VARIABLES
  now,
  lastRequestAt, \* the clock of nominatim.ts
  sentAt,        \* when the last request was really sent
  calls,         \* slot -> call
  mount,         \* the opening of the overlay
  form,          \* [open, text, complete, started]: fields of the overlay
  options,       \* the suggestions: how many, shown or not, the selected one (0 for none)
  debounce,      \* debounceTimerRef: the text it will ask for, or NoText
  blur           \* blurTimeoutRef runs

clock == <<now, lastRequestAt, sentAt>>
overlay == <<mount, form, options, debounce, blur>>
entryVars == <<clock, calls, overlay>>

Short == "short"    \* a text of less than three characters
NoText == "none"
NoOptions == [count |-> 0, shown |-> FALSE, selected |-> 0]
Closed == [open |-> FALSE, text |-> Short, complete |-> FALSE, started |-> FALSE]

\* alone: no other call waited for the clock while this one did (for the property only).
Free == [kind |-> "free", step |-> "free", wake |-> 0, mount |-> 0, alone |-> FALSE]

Init ==
  /\ now = Interval /\ lastRequestAt = 0 /\ sentAt = 0
  /\ calls = [s \in Slots |-> Free]
  /\ mount = 0 /\ form = Closed /\ options = NoOptions /\ debounce = NoText /\ blur = FALSE

-----------------------------------------------------------------------------
(* nominatim.ts *)

Waiting == {s \in Slots : calls[s].step = "wait"}

\* throttle(): a call that comes late enough sends its request at once.
Begin(kind) ==
  LET late == now - lastRequestAt >= Interval
  IN /\ lastRequestAt' = IF late THEN now ELSE lastRequestAt
     /\ sentAt' = IF late THEN now ELSE sentAt
     /\ \E s \in Slots :
          /\ calls[s] = Free /\ \A t \in Slots : calls[t] = Free => s <= t
          /\ calls' = [t \in Slots |->
               IF t = s
                 THEN [kind |-> kind, step |-> IF late THEN "fetch" ELSE "wait", mount |-> mount,
                       wake |-> IF late THEN 0 ELSE lastRequestAt + Interval,
                       alone |-> Waiting = {}]
               ELSE IF t \in Waiting THEN [calls[t] EXCEPT !.alone = FALSE]
               ELSE calls[t]]

\* Plausible mistake: only requests that are sent at once set the clock.
RequestUnstamped(s) ==
  /\ calls[s].step = "wait" /\ now >= calls[s].wake
  /\ calls' = [calls EXCEPT ![s].step = "fetch", ![s].wake = 0]
  /\ sentAt' = now
  /\ UNCHANGED <<now, lastRequestAt, overlay>>

\* The pause is over; a timer may be late, never early.
Request(s) ==
  /\ calls[s].step = "wait" /\ now >= calls[s].wake
  /\ calls' = [calls EXCEPT ![s].step = "fetch", ![s].wake = 0]
  /\ lastRequestAt' = now /\ sentAt' = now
  /\ UNCHANGED <<now, overlay>>

\* geocodeAddress, called by a run or an export for one address after another.
Geocode ==
  /\ ~\E s \in Slots : calls[s].kind = "geocode"
  /\ Begin("geocode")
  /\ UNCHANGED <<now, overlay>>

GeocodeAnswered(s) ==
  /\ calls[s].kind = "geocode" /\ calls[s].step = "fetch"
  /\ calls' = [calls EXCEPT ![s] = Free]
  /\ UNCHANGED <<clock, overlay>>

-----------------------------------------------------------------------------
(* The overlay and its hook. *)

\* The fields may be those of an address that is complete already.
Open ==
  /\ ~form.open /\ mount < MaxMounts
  /\ mount' = mount + 1
  /\ \E text \in Texts \cup {Short} :
       form' = [open |-> TRUE, text |-> text, complete |-> text # Short, started |-> FALSE]
  /\ options' = NoOptions /\ debounce' = NoText /\ blur' = FALSE
  /\ UNCHANGED <<clock, calls>>

Close ==
  /\ form' = Closed /\ options' = NoOptions /\ debounce' = NoText /\ blur' = FALSE
  /\ UNCHANGED mount

\* The cross, Cancel and the backdrop; Escape does the same when there are no suggestions.
CloseOverlay ==
  /\ form.open
  /\ Close
  /\ UNCHANGED <<clock, calls>>

\* The first line: every keystroke starts the pause of 300 ms anew.
Type ==
  /\ form.open
  /\ \E text \in (Texts \cup {Short}) \ {form.text} :
       form' = [form EXCEPT !.text = text] /\ debounce' = text
  /\ UNCHANGED <<clock, calls, mount, options, blur>>

\* The other fields.
Fill ==
  /\ form.open
  /\ form' = [form EXCEPT !.complete = ~@]
  /\ UNCHANGED <<clock, calls, mount, options, debounce, blur>>

\* The pause is over: fetchSuggestions.
Ask ==
  /\ debounce # NoText
  /\ debounce' = NoText
  /\ IF debounce = Short
       THEN /\ options' = [options EXCEPT !.count = 0, !.shown = FALSE]
            /\ UNCHANGED <<lastRequestAt, sentAt, calls>>
       ELSE Begin("autocomplete") /\ UNCHANGED options
  /\ UNCHANGED <<now, mount, form, blur>>

\* The answer replaces the suggestions of the overlay that asked, whatever its text is by
\* now; the selection stays.
Suggest(s) ==
  /\ calls[s].kind = "autocomplete" /\ calls[s].step = "fetch"
  /\ calls' = [calls EXCEPT ![s] = Free]
  /\ \E n \in 0..MaxOptions :
       options' = IF form.open /\ calls[s].mount = mount
                    THEN [options EXCEPT !.count = n, !.shown = n > 0]
                    ELSE options
  /\ UNCHANGED <<clock, mount, form, debounce, blur>>

Selectable == form.open /\ options.shown

\* ArrowDown and ArrowUp.
Move ==
  /\ Selectable
  /\ \/ options.selected < options.count /\ options' = [options EXCEPT !.selected = @ + 1]
     \/ options' = [options EXCEPT !.selected = IF @ > 1 THEN @ - 1 ELSE 0]
  /\ UNCHANGED <<clock, calls, mount, form, debounce, blur>>

\* A click, or Enter on a selection: it fills the fields, complete or not, and a pause that
\* runs goes on.  (Enter beyond the end of shorter suggestions throws and changes nothing.)
Select ==
  /\ Selectable
  /\ \E text \in Texts, complete \in BOOLEAN :
       form' = [form EXCEPT !.text = text, !.complete = complete]
  /\ options' = NoOptions /\ blur' = FALSE
  /\ UNCHANGED <<clock, calls, mount, debounce>>

\* Escape in the first line, or the end of the pause after the focus left it.
Blur ==
  /\ form.open /\ ~blur
  /\ blur' = TRUE
  /\ UNCHANGED <<clock, calls, mount, form, options, debounce>>

ClearSuggestions ==
  /\ Selectable \/ blur
  /\ options' = NoOptions /\ blur' = FALSE
  /\ UNCHANGED <<clock, calls, mount, form, debounce>>

\* handleSave: once, and only a complete address; the caller closes the overlay.
Save ==
  /\ form.open /\ ~form.started
  /\ form.complete /\ form.text # NoText
  /\ \/ Close
     \/ form' = [form EXCEPT !.started = TRUE] /\ UNCHANGED <<mount, options, debounce, blur>>
  /\ UNCHANGED <<clock, calls>>

Tick ==
  /\ now < MaxTime
  /\ now' = now + 1
  /\ UNCHANGED <<lastRequestAt, sentAt, calls, overlay>>

Next ==
  \/ Geocode
  \/ Open
  \/ CloseOverlay
  \/ Type
  \/ Fill
  \/ Ask
  \/ Move
  \/ Select
  \/ Blur
  \/ ClearSuggestions
  \/ Save
  \/ Tick
  \/ \E s \in Slots : Request(s) \/ GeocodeAnswered(s) \/ Suggest(s)

Spec == Init /\ [][Next]_entryVars

-----------------------------------------------------------------------------
Sends(s) == calls[s].step # "fetch" /\ calls'[s].step = "fetch"

\* The interval is kept by every request that waited alone: a caller that comes while
\* nobody waits counts from the request that was really sent last (nominatim.ts, throttle).
SpacedWhenAlone ==
  [][\A s \in Slots : Sends(s) /\ calls'[s].alone => now - sentAt >= Interval]_entryVars

\* nominatim.ts:3: all callers of a page share a budget of one request per second and can
\* never race each other.
BudgetShared == [][\A s \in Slots : Sends(s) => now - sentAt >= Interval]_entryVars
=============================================================================
