----------------------------- MODULE CSVImport -----------------------------
(***************************************************************************)
(* The import of a table of addresses: CSVUploadOverlay with its steps     *)
(* (file, columns, rows), the hook that reads files (useCSVImport.ts), and *)
(* the edit page that opens it and takes the rows.  A file is read in the  *)
(* background; several reads may be under way, and each replaces what is   *)
(* shown when it ends.  Files are records: what they are called and hold.  *)
(***************************************************************************)
EXTENDS Integers, FiniteSets, Sequences

CONSTANTS
  Files,      \* records [csv, big, ok, headers, rows]
  Fields,     \* a sequence of the fields a column can be mapped to, "" first
  Reads,      \* slots for reads under way (bounds them); the first free one is taken
  None,       \* no file, no column
  NoOverride  \* null of mappingOverride and selectedOverride

\* What the constants must be; the instance for TLC assumes it.  A file that can be read
\* has columns: rows without text are dropped, and JSON without keys is refused.
CSVAssumption ==
  /\ \A f \in Files : f.csv \in BOOLEAN /\ f.big \in BOOLEAN /\ f.ok \in BOOLEAN /\ f.rows \in Nat
  /\ \A f \in Files : f.ok => f.headers # {}
  /\ Reads \subseteq Nat
  /\ Fields[1] = "" /\ \E i \in DOMAIN Fields : Fields[i] = "recipientAddress"

VARIABLES
  isOpen,     \* isUploadOverlayOpen of the page
  pending,    \* pendingDropFile ?? pendingCSVFile: initialFile of the overlay
  selected,   \* selectedFile
  autoOpened, \* hasAutoOpenedRef
  reads,      \* files being read
  table,      \* csvData: the file it came from
  modal,      \* isImportModalOpen
  parseError,
  step,       \* 1: columns, 2: rows
  mapping,    \* mappingOverride, or NoOverride
  rows,       \* selectedOverride, or NoOverride
  prevKey,    \* prevHeadersKeyRef
  defaults,   \* number of rows selected by default: computed once per header row
  menu,       \* the open menu of MappingFieldSelect and its active option
  imported    \* what the page last got: the file, the mapping and the rows

overlayVars == <<selected, autoOpened, reads, table, modal, parseError, step, mapping, rows,
                 prevKey, defaults, menu>>
csvVars == <<isOpen, pending, overlayVars, imported>>

NoMenu == [header |-> None, index |-> 1]
NothingImported == [file |-> None, mapping |-> NoOverride, rows |-> {}]

\* A header row is told from another by its joined text.
Headers == IF table = None THEN {} ELSE table.headers
Key(file) == IF file = None THEN {} ELSE file.headers

Blank == [h \in Headers |-> ""]
ActiveMapping == IF mapping = NoOverride THEN Blank ELSE mapping
ActiveRows == IF rows = NoOverride THEN 1..defaults ELSE rows

Fresh ==
  /\ selected = None /\ autoOpened = FALSE /\ reads = [i \in Reads |-> None]
  /\ table = None /\ modal = FALSE /\ parseError = FALSE /\ step = 1
  /\ mapping = NoOverride /\ rows = NoOverride /\ prevKey = {} /\ defaults = 0
  /\ menu = NoMenu

Init == isOpen = FALSE /\ pending = None /\ Fresh /\ imported = NothingImported

-----------------------------------------------------------------------------
(* Opening and closing.  The overlay is unmounted when it closes: reads    *)
(* that end later find nobody.                                             *)

Mount(file) ==
  /\ isOpen' = TRUE /\ pending' = file
  /\ selected' = (IF file = None \/ file.big THEN None ELSE file)

Accepted(file) == file.csv /\ ~file.big

\* "Import" opens the overlay without a file.
OpenOverlay ==
  /\ ~isOpen
  /\ Mount(None)
  /\ UNCHANGED <<autoOpened, reads, table, modal, parseError, step, mapping, rows, prevKey,
                 defaults, menu, imported>>

\* A file dropped on the page, or forwarded by the upload page; it may meet an open overlay.
Offer(file) ==
  /\ pending # file
  /\ Mount(file)
  /\ UNCHANGED <<autoOpened, reads, table, modal, parseError, step, mapping, rows, prevKey,
                 defaults, menu, imported>>

DropOnPage == \E file \in {f \in Files : f.csv} : Offer(file)
Forward == ~isOpen /\ \E file \in Files : Offer(file)

Close ==
  /\ isOpen' = FALSE /\ pending' = None
  /\ selected' = None /\ autoOpened' = FALSE /\ reads' = [i \in Reads |-> None]
  /\ table' = None /\ modal' = FALSE /\ parseError' = FALSE /\ step' = 1
  /\ mapping' = NoOverride /\ rows' = NoOverride /\ prevKey' = {} /\ defaults' = 0
  /\ menu' = NoMenu

\* handleClose of all three steps.
Cancel ==
  /\ isOpen /\ ~parseError
  /\ Close /\ UNCHANGED imported

-----------------------------------------------------------------------------
(* Step 0: the file, and its reading. *)

Picking == isOpen /\ ~modal /\ ~parseError

\* handleFileChange and handleDrop: another kind of file closes the overlay.
PickFile ==
  /\ Picking
  /\ \E file \in Files :
       IF file.csv
         THEN /\ selected' = (IF Accepted(file) THEN file ELSE None)
              /\ UNCHANGED <<isOpen, pending, autoOpened, reads, table, modal, parseError, step,
                             mapping, rows, prevKey, defaults, menu>>
         ELSE Close
  /\ UNCHANGED imported

RemoveFile ==
  /\ Picking /\ selected # None
  /\ selected' = None
  /\ UNCHANGED <<isOpen, pending, autoOpened, reads, table, modal, parseError, step, mapping,
                 rows, prevKey, defaults, menu, imported>>

\* openImportModal
StartReading(file) ==
  IF file.big
    THEN parseError' = TRUE /\ UNCHANGED reads
    ELSE /\ parseError' = FALSE
         /\ \E i \in Reads :
              /\ reads[i] = None /\ \A j \in Reads : reads[j] = None => i <= j
              /\ reads' = [reads EXCEPT ![i] = file]

NextStep ==
  /\ Picking /\ selected # None
  /\ StartReading(selected)
  /\ UNCHANGED <<isOpen, pending, selected, autoOpened, table, modal, step, mapping, rows,
                 prevKey, defaults, menu, imported>>

\* The effect that reads the file the overlay was opened with, once.
AutoOpen ==
  /\ isOpen /\ pending # None /\ ~autoOpened /\ ~modal
  /\ autoOpened' = TRUE
  /\ StartReading(pending)
  /\ UNCHANGED <<isOpen, pending, selected, table, modal, step, mapping, rows, prevKey,
                 defaults, menu, imported>>

\* Plausible mistake: the choices are dropped, but the dialog stays at its second step.
ShowTableKeepingStep(file) ==
  /\ table' = file
  /\ defaults' = IF Key(file) = Key(table) THEN defaults ELSE IF file = None THEN 0 ELSE file.rows
  /\ IF Key(file) \notin {{}, prevKey}
       THEN /\ prevKey' = Key(file) /\ mapping' = NoOverride /\ rows' = NoOverride
            /\ UNCHANGED step
       ELSE UNCHANGED <<prevKey, mapping, rows, step>>

\* The memo and the effect on the header row: overrides are dropped only when the header
\* row is another one than the last that was shown.
ShowTable(file) ==
  /\ table' = file
  /\ defaults' = IF Key(file) = Key(table) THEN defaults ELSE IF file = None THEN 0 ELSE file.rows
  /\ IF Key(file) \notin {{}, prevKey}
       THEN /\ prevKey' = Key(file) /\ mapping' = NoOverride /\ rows' = NoOverride /\ step' = 1
       ELSE UNCHANGED <<prevKey, mapping, rows, step>>

\* reader.onload: a table of at least two rows, or an error over whatever is shown.
ReadEnds(i) ==
  /\ reads[i] # None
  /\ reads' = [reads EXCEPT ![i] = None]
  /\ IF reads[i].ok
       THEN ShowTable(reads[i]) /\ modal' = TRUE /\ UNCHANGED parseError
       ELSE /\ parseError' = TRUE
            /\ UNCHANGED <<table, defaults, prevKey, mapping, rows, step, modal>>
  /\ menu' = NoMenu
  /\ UNCHANGED <<isOpen, pending, selected, autoOpened, imported>>

\* The alert is closed with closeImportModal: back to the choice of a file.
DismissError ==
  /\ parseError
  /\ parseError' = FALSE /\ modal' = FALSE
  /\ ShowTable(None)
  /\ UNCHANGED <<isOpen, pending, selected, autoOpened, reads, menu, imported>>

-----------------------------------------------------------------------------
(* Steps 1 and 2. *)

AtStep(n) == isOpen /\ modal /\ ~parseError /\ step = n

IndexOf(field) == CHOOSE i \in DOMAIN Fields : Fields[i] = field

\* The button of a menu; a click elsewhere, a scroll or Escape closes it.
ToggleMenu ==
  /\ AtStep(1)
  /\ \E h \in Headers :
       menu' = IF menu.header = h THEN NoMenu
                                  ELSE [header |-> h, index |-> IndexOf(ActiveMapping[h])]
  /\ UNCHANGED <<isOpen, pending, selected, autoOpened, reads, table, modal, parseError, step,
                 mapping, rows, prevKey, defaults, imported>>

\* Arrows and the mouse move the active option; Enter or a click takes it.
MoveInMenu ==
  /\ AtStep(1) /\ menu.header # None
  /\ menu' \in {[menu EXCEPT !.index = i] : i \in DOMAIN Fields \ {menu.index}}
  /\ UNCHANGED <<isOpen, pending, selected, autoOpened, reads, table, modal, parseError, step,
                 mapping, rows, prevKey, defaults, imported>>

ChooseField ==
  /\ AtStep(1) /\ menu.header # None
  /\ mapping' = [ActiveMapping EXCEPT ![menu.header] = Fields[menu.index]]
  /\ menu' = NoMenu
  /\ UNCHANGED <<isOpen, pending, selected, autoOpened, reads, table, modal, parseError, step,
                 rows, prevKey, defaults, imported>>

HasAddress(m) == \E h \in DOMAIN m : m[h] = "recipientAddress"

ToRows ==
  /\ AtStep(1) /\ HasAddress(ActiveMapping)
  /\ step' = 2 /\ menu' = NoMenu
  /\ UNCHANGED <<isOpen, pending, selected, autoOpened, reads, table, modal, parseError,
                 mapping, rows, prevKey, defaults, imported>>

BackToColumns ==
  /\ AtStep(2)
  /\ step' = 1
  /\ UNCHANGED <<isOpen, pending, selected, autoOpened, reads, table, modal, parseError,
                 mapping, rows, prevKey, defaults, menu, imported>>

ToggleRows ==
  /\ AtStep(2)
  /\ \/ \E i \in 1..table.rows :
          rows' = IF i \in ActiveRows THEN ActiveRows \ {i} ELSE ActiveRows \cup {i}
     \/ rows' \in {{}, 1..table.rows}
  /\ UNCHANGED <<isOpen, pending, selected, autoOpened, reads, table, modal, parseError, step,
                 mapping, prevKey, defaults, menu, imported>>

\* buildAddressCards keeps the selected rows the table has; the page appends them.
Confirm ==
  /\ AtStep(2) /\ ActiveRows # {}
  /\ imported' = [file |-> table, mapping |-> ActiveMapping,
                  rows |-> ActiveRows \cap 1..table.rows]
  /\ Close

Next ==
  \/ OpenOverlay
  \/ DropOnPage
  \/ Forward
  \/ Cancel
  \/ PickFile
  \/ RemoveFile
  \/ NextStep
  \/ AutoOpen
  \/ DismissError
  \/ ToggleMenu
  \/ MoveInMenu
  \/ ChooseField
  \/ ToRows
  \/ BackToColumns
  \/ ToggleRows
  \/ Confirm
  \/ \E i \in Reads : ReadEnds(i)

Spec == Init /\ [][Next]_csvVars

-----------------------------------------------------------------------------
\* Rows are imported under columns of the file they come from, and with an address, also
\* when another read replaced the table between the steps (CSVUploadOverlay, headersKey).
ImportedUnderItsColumns ==
  imported.file # None =>
    /\ DOMAIN imported.mapping = imported.file.headers
    /\ HasAddress(imported.mapping)
=============================================================================
