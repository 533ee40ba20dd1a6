---------------------------- MODULE AddressList ----------------------------
(***************************************************************************)
(* The delivery addresses of the edit page: the hook that keeps them       *)
(* (useAddresses.ts) behind the controls that call it (AddressSection,     *)
(* AddressCard, AddressPagination, AddressSearchBar).  One action is one   *)
(* event of a control; React applies its setters together.  Of a row the   *)
(* model keeps what the handlers look at; texts are members of Places, and *)
(* the times of day are 1..LastTime.  The list closed over by a run of     *)
(* useOptimize is what Locate and LocationFound work on.                   *)
(***************************************************************************)
EXTENDS Integers, Sequences, FiniteSets, FiniteSetsExt, Lists

CONSTANTS
  Places,        \* addresses that can be typed or selected
  PageSizes,     \* ADDRESS_PAGE_SIZE_OPTIONS
  DefaultSize,   \* the initial addressesPerPage
  LastTime,      \* number of TIME_OPTIONS
  MaxQuantity,   \* the largest quantity (1 000 000 in the code)
  MaxRows,       \* bound on the rows
  MaxId          \* bound on the ids

\* What the constants must be; the instance for TLC assumes it.
AddressAssumption ==
  /\ PageSizes \subseteq Nat \ {0} /\ DefaultSize \in PageSizes
  /\ LastTime \in Nat /\ MaxQuantity \in Nat \ {0}
  /\ MaxRows \in Nat /\ MaxId \in Nat

VARIABLES
  rows,       \* addresses
  touched,    \* touchedIds
  search,     \* the search box is not blank
  page,       \* addressPage
  perPage,    \* addressesPerPage
  highest,    \* highestIdRef
  dialog,     \* the dialog over the section: deletion, address or optimising
  lookup      \* the address useOptimize is locating, and for which row

addressVars == <<rows, touched, search, page, perPage, highest, dialog, lookup>>

NoPlace == "none"
NoTime == 0
NoDialog == [kind |-> "none", id |-> 0]
NoLookup == [id |-> 0, place |-> NoPlace]

\* hit: the fuzzy search finds the row under the text now in the search box.
NewRow(id) ==
  [id |-> id, locked |-> FALSE, place |-> NoPlace, located |-> NoPlace, quantity |-> 0,
   start |-> NoTime, end |-> NoTime, hit |-> FALSE]

Ids == {rows[i].id : i \in DOMAIN rows}
Row(id) == rows[CHOOSE i \in DOMAIN rows : rows[i].id = id]
Open == {rows[i].id : i \in {j \in DOMAIN rows : ~rows[j].locked}}

\* addresses.find((a) => !a.locked)
Active == rows[Min({i \in DOMAIN rows : ~rows[i].locked})].id

Complete(row) == row.place # NoPlace /\ row.quantity > 0
ActiveIsValid == Open # {} /\ Complete(Row(Active))
AllLocked == rows # <<>> /\ Open = {}

Pages(n) == Max({1, (n + perPage - 1) \div perPage})

Filtered == IF search THEN EntriesAt(rows, {i \in DOMAIN rows : rows[i].hit}) ELSE rows
TotalPages == Pages(Len(Filtered))
OnPage == {Filtered[i].id : i \in {j \in DOMAIN Filtered :
             (page - 1) * perPage < j /\ j <= page * perPage}}

Init ==
  /\ rows = <<>> /\ touched = {} /\ search = FALSE
  /\ page = 1 /\ perPage = DefaultSize /\ highest = 0
  /\ dialog = NoDialog /\ lookup = NoLookup

-----------------------------------------------------------------------------
(* Every change of the list is followed by the effect that raises the     *)
(* high-water mark of the ids.                                             *)

Commit(newRows, mark) ==
  /\ rows' = newRows
  /\ highest' = Max({mark} \cup {newRows[i].id : i \in DOMAIN newRows})

MapRow(id, f(_)) == [i \in DOMAIN rows |-> IF rows[i].id = id THEN f(rows[i]) ELSE rows[i]]

Usable == dialog = NoDialog
Editable(id) == Usable /\ id \in OnPage /\ ~Row(id).locked

\* One field of a row changes; a changed text may join or leave the matches.
Update(id, f(_)) ==
  /\ \E hit \in IF search THEN BOOLEAN ELSE {FALSE} :
       Commit(MapRow(id, LAMBDA row : [f(row) EXCEPT !.hit = hit]), highest)
  /\ UNCHANGED <<touched, search, page, perPage, lookup>>

\* Plausible mistake: the location survives a change of the address.
WithPlaceOnly(row, place) == [row EXCEPT !.place = place]

\* updateAddress(id, "recipientAddress", ...) forgets the cached location.
WithPlace(row, place) == [row EXCEPT !.place = place, !.located = NoPlace]

\* The overlay may be opened from a locked row: it saves even where unlocking was refused.
SaveOverlay ==
  /\ dialog.kind = "address"
  /\ \E place \in Places : Update(dialog.id, LAMBDA row : WithPlace(row, place))
  /\ dialog' = NoDialog

Decremented(q) == Max({1, (IF q = 0 THEN 1 ELSE q) - 1})
Incremented(q) == Min({MaxQuantity, q + 1})

\* The stepper: both buttons, or a typed number clamped to its range.
SetQuantity(id) ==
  /\ Editable(id)
  /\ \E q \in {Decremented(Row(id).quantity), Incremented(Row(id).quantity)} \cup 1..MaxQuantity :
       /\ q # Row(id).quantity
       /\ Update(id, LAMBDA row : [row EXCEPT !.quantity = q])
  /\ UNCHANGED dialog

\* Only earlier starts are offered; an end that is not later is cleared.
StartOptions(row) == {NoTime} \cup {t \in 1..LastTime : row.end # NoTime => t < row.end}
WithStart(row, t) ==
  [row EXCEPT !.start = t, !.end = IF row.end # NoTime /\ t >= row.end THEN NoTime ELSE @]

SetStart(id) ==
  /\ Editable(id)
  /\ \E t \in StartOptions(Row(id)) :
       /\ t # Row(id).start
       /\ Update(id, LAMBDA row : WithStart(row, t))
  /\ UNCHANGED dialog

\* The blank option counts as a time before every start, so it clears the start too.
EndOptions(row) == {NoTime} \cup {t \in 1..LastTime : row.start # NoTime => t > row.start}
WithEnd(row, t) ==
  [row EXCEPT !.end = t, !.start = IF row.start # NoTime /\ t <= row.start THEN NoTime ELSE @]

SetEnd(id) ==
  /\ Editable(id)
  /\ \E t \in EndOptions(Row(id)) :
       /\ t # Row(id).end
       /\ Update(id, LAMBDA row : WithEnd(row, t))
  /\ UNCHANGED dialog

-----------------------------------------------------------------------------
(* Adding, opening, confirming and deleting rows. *)

\* Plausible mistake: a row is added below one that stays open.
LockNothing(list) == list

LockOpen(list) == [i \in DOMAIN list |-> [list[i] EXCEPT !.locked = TRUE]]

\* The button is disabled while an incomplete row is open.
AddEnabled == rows = <<>> \/ AllLocked \/ ActiveIsValid

ReserveId == highest + 1

AddAddress ==
  /\ Usable /\ AddEnabled
  /\ Len(rows) < MaxRows /\ highest < MaxId
  /\ Commit(Append(LockOpen(rows), NewRow(ReserveId)), ReserveId)
  /\ touched' = {}
  /\ search' = (search /\ rows = <<>>)
  /\ page' = Pages(Len(rows) + 1)
  /\ UNCHANGED <<perPage, dialog, lookup>>

UnlockRows(id) ==
  [i \in DOMAIN rows |->
     IF rows[i].id = id THEN [rows[i] EXCEPT !.locked = FALSE]
     ELSE IF Open # {} /\ rows[i].id = Active THEN [rows[i] EXCEPT !.locked = TRUE]
     ELSE rows[i]]

\* unlockAddress: another open row is confirmed on the way, or shows its errors.
Unlock(id) ==
  IF Open = {} \/ ActiveIsValid
    THEN /\ rows' = UnlockRows(id)
         /\ touched' = touched \ (Open \cup {id})
    ELSE /\ touched' = touched \cup {Active}
         /\ UNCHANGED rows

UnlockAddress(id) ==
  /\ Usable /\ id \in OnPage /\ Row(id).locked
  /\ Unlock(id)
  /\ UNCHANGED <<search, page, perPage, highest, dialog, lookup>>

\* The address of a locked row is a button that unlocks the row and opens the overlay.
OpenOverlay(id) ==
  /\ Usable /\ id \in OnPage
  /\ IF Row(id).locked THEN Unlock(id)
                       ELSE UNCHANGED <<rows, touched>>
  /\ dialog' = [kind |-> "address", id |-> id]
  /\ UNCHANGED <<search, page, perPage, highest, lookup>>

CloseOverlay ==
  /\ dialog.kind = "address"
  /\ dialog' = NoDialog
  /\ UNCHANGED <<rows, touched, search, page, perPage, highest, lookup>>

ConfirmAddress(id) ==
  /\ Editable(id)
  /\ IF Complete(Row(id))
       THEN /\ rows' = MapRow(id, LAMBDA row : [row EXCEPT !.locked = TRUE])
            /\ touched' = touched \ {id}
       ELSE /\ touched' = touched \cup {id}
            /\ UNCHANGED rows
  /\ UNCHANGED <<search, page, perPage, highest, dialog, lookup>>

\* handleDeleteRequest, and the two answers of ConfirmDeletionOverlay.
RequestDelete(id) ==
  /\ Usable /\ id \in OnPage
  /\ dialog' = [kind |-> "delete", id |-> id]
  /\ UNCHANGED <<rows, touched, search, page, perPage, highest, lookup>>

CancelDelete ==
  /\ dialog.kind = "delete"
  /\ dialog' = NoDialog
  /\ UNCHANGED <<rows, touched, search, page, perPage, highest, lookup>>

\* Plausible mistake: the page is kept after a deletion.
KeepPage(n) == page

ClampPage(n) == Min({page, Pages(n)})

DeleteAddress ==
  /\ dialog.kind = "delete"
  /\ LET next == EntriesAt(rows, {i \in DOMAIN rows : rows[i].id # dialog.id})
     IN  Commit(next, highest) /\ page' = ClampPage(Len(next))
  /\ touched' = touched \ {dialog.id}
  /\ dialog' = NoDialog
  /\ UNCHANGED <<search, perPage, lookup>>

-----------------------------------------------------------------------------
(* What is shown: pages and search. *)

ShowPage(p) ==
  /\ page' = p
  /\ UNCHANGED <<rows, touched, search, perPage, highest, dialog, lookup>>

\* The four arrows, disabled at the ends.
Turn ==
  /\ Usable /\ rows # <<>>
  /\ \/ page > 1 /\ \E p \in {1, page - 1} : ShowPage(p)
     \/ page < TotalPages /\ \E p \in {TotalPages, page + 1} : ShowPage(p)

\* getVisiblePages: at most five numbers around the current page.
VisiblePages ==
  LET count == Min({TotalPages, 5})
      first == Max({1, Min({page - 2, TotalPages - count + 1})})
  IN  first .. first + count - 1

PickPage ==
  /\ Usable /\ rows # <<>>
  /\ \E p \in VisiblePages \ {page} : ShowPage(p)

SetPerPage ==
  /\ Usable /\ rows # <<>>
  /\ perPage' \in PageSizes \ {perPage} /\ page' = 1
  /\ UNCHANGED <<rows, touched, search, highest, dialog, lookup>>

\* A keystroke in the search box: any rows may match the new text.
SetSearchQuery ==
  /\ Usable
  /\ search' \in BOOLEAN /\ (search \/ search')
  /\ \E hits \in IF search' THEN SUBSET Ids ELSE {{}} :
       rows' = [i \in DOMAIN rows |-> [rows[i] EXCEPT !.hit = rows[i].id \in hits]]
  /\ page' = 1
  /\ UNCHANGED <<touched, perPage, highest, dialog, lookup>>

-----------------------------------------------------------------------------
(* The list as others change it. *)

\* importAddresses
Import(newRows, mark) ==
  /\ newRows # <<>>
  /\ Commit(newRows, mark)
  /\ page' = 1 /\ touched' = {} /\ search' = FALSE
  /\ UNCHANGED <<perPage, dialog, lookup>>

\* A row of a file: locked whatever its cells hold.
FileRow(id, place, quantity) ==
  [NewRow(id) EXCEPT !.locked = TRUE, !.place = place, !.quantity = quantity]

\* A row of the uploaded table gets the next id and goes to the end of the list.
ImportTable ==
  /\ Usable
  /\ Len(rows) < MaxRows /\ highest < MaxId
  /\ \E place \in Places \cup {NoPlace}, quantity \in {0, 1} :
       Import(Append([i \in DOMAIN rows |-> [rows[i] EXCEPT !.hit = FALSE]],
                     FileRow(ReserveId, place, quantity)), ReserveId)

\* A save point replaces the list when the page is opened; its ids are its own.
ImportSavePoint ==
  /\ Usable /\ rows = <<>> /\ highest = 0
  /\ \E id \in 1..MaxId, place \in Places :
       Import(<<[FileRow(id, place, 1) EXCEPT !.located = place]>>, 0)

\* The page is left and opened again: the hook starts over with the rows of the draft.
Remount ==
  /\ Usable
  /\ Commit([i \in DOMAIN rows |-> [rows[i] EXCEPT !.hit = FALSE]], 0)
  /\ touched' = {} /\ search' = FALSE /\ page' = 1 /\ perPage' = DefaultSize
  /\ UNCHANGED <<dialog, lookup>>

\* useOptimize reads an address that is not located yet, awaits its location behind the
\* optimising dialog, and caches it under the id of the row.
Locate(id) ==
  /\ Usable /\ AllLocked
  /\ id \in Ids /\ Row(id).located = NoPlace /\ Row(id).place # NoPlace
  /\ lookup' = [id |-> id, place |-> Row(id).place]
  /\ dialog' = [kind |-> "optimizing", id |-> 0]
  /\ UNCHANGED <<rows, touched, search, page, perPage, highest>>

LocationFound ==
  /\ dialog.kind = "optimizing"
  /\ \/ rows' = MapRow(lookup.id, LAMBDA row : [row EXCEPT !.located = lookup.place])
     \/ UNCHANGED rows   \* the lookup failed
  /\ lookup' = NoLookup /\ dialog' = NoDialog
  /\ UNCHANGED <<touched, search, page, perPage, highest>>

Next ==
  \/ AddAddress
  \/ SaveOverlay
  \/ CloseOverlay
  \/ CancelDelete
  \/ DeleteAddress
  \/ Turn
  \/ PickPage
  \/ SetPerPage
  \/ SetSearchQuery
  \/ ImportTable
  \/ ImportSavePoint
  \/ Remount
  \/ LocationFound
  \/ \E id \in Ids : \/ SetQuantity(id)
                     \/ SetStart(id)
                     \/ SetEnd(id)
                     \/ UnlockAddress(id)
                     \/ OpenOverlay(id)
                     \/ ConfirmAddress(id)
                     \/ RequestDelete(id)
                     \/ Locate(id)

Spec == Init /\ [][Next]_addressVars

-----------------------------------------------------------------------------
\* At most one row is open, and no two rows share an id: the handlers find the open row
\* and the row they change by scanning for the first match (useAddresses.ts).
OneOpenRow ==
  /\ Cardinality(Open) <= 1
  /\ Cardinality(Ids) = Len(rows)

\* A cached location is that of the address in the row: routes are computed from the
\* location and read out with the address (updateAddress, cacheAddressLocation).
LocationOfAddress == \A i \in DOMAIN rows : rows[i].located \in {NoPlace, rows[i].place}

\* Without a search the page shown exists, after deletions, imports and other page sizes.
PageInRange == ~search => page <= TotalPages

\* The list the handlers work on is sound after every sequence of events of its controls.
AddressesAreSound == OneOpenRow /\ LocationOfAddress /\ PageInRange
=============================================================================
