------------------------------ MODULE EditPages -------------------------------
(***************************************************************************)
(* The edit page: its parts and the ways work gets into it.  In a          *)
(* behaviour one of them moves, chosen by "view"; what they share, the     *)
(* lists and the storage of the tab, each keeps to the detail it needs.    *)
(***************************************************************************)
EXTENDS Integers, Sequences, FiniteSets

CONSTANTS
  MaxVersion, MaxVisits,                                          \* OptimizeClient, EditSession
  Runs, NoRun, MaxPolls,                                          \* OptimizeClient
  Places, PageSizes, DefaultSize, LastTime, MaxQuantity, MaxRows, MaxId,   \* AddressList
  Details, Clearable, HourTexts, MinuteTexts, MaxVehicles,        \* VehicleList
  Files, Fields, Reads, None, NoOverride,                         \* CSVImport
  FileKinds, MaxUploads,                                          \* EditSession
  Texts, Interval, Slots, MaxOptions, MaxMounts, MaxTime          \* AddressEntry

VARIABLES
  view,   \* the component that moves
  oPage, oVisit, oLists, oDraft, oSavePending, oPrompt, oAlert, oApproved, oActive, oRun, oJob,
  oResults,
  aRows, aTouched, aSearch, aPage, aPerPage, aHighest, aDialog, aLookup,
  vFleet, vForm, vOverlay,
  cIsOpen, cPending, cSelected, cAutoOpened, cReads, cTable, cModal, cParseError, cStep,
  cMapping, cRows, cPrevKey, cDefaults, cMenu, cImported,
  sPage, sChosen, sOperation, sReads, sSavePoint, sForwarded, sDraft, sVisit, sLists, sHydrated,
  sSource, sLoads, sSaving, sOverlay, sError, sExports, sUploads,
  eNow, eLastRequestAt, eSentAt, eCalls, eMount, eForm, eOptions, eDebounce, eBlur

Client == INSTANCE OptimizeClient WITH
  page <- oPage, visit <- oVisit, lists <- oLists, draft <- oDraft,
  savePending <- oSavePending, prompt <- oPrompt, alert <- oAlert, approved <- oApproved,
  active <- oActive, run <- oRun, job <- oJob, results <- oResults

Addresses == INSTANCE AddressList WITH
  rows <- aRows, touched <- aTouched,
  search <- aSearch, page <- aPage, perPage <- aPerPage, highest <- aHighest,
  dialog <- aDialog, lookup <- aLookup

Vehicles == INSTANCE VehicleList WITH
  fleet <- vFleet, form <- vForm,
  overlay <- vOverlay

Table == INSTANCE CSVImport WITH
  isOpen <- cIsOpen, pending <- cPending, selected <- cSelected,
  autoOpened <- cAutoOpened, reads <- cReads, table <- cTable, modal <- cModal,
  parseError <- cParseError, step <- cStep, mapping <- cMapping, rows <- cRows,
  prevKey <- cPrevKey, defaults <- cDefaults, menu <- cMenu, imported <- cImported

Session == INSTANCE EditSession WITH
  page <- sPage, chosen <- sChosen,
  operation <- sOperation, reads <- sReads, savePoint <- sSavePoint,
  forwarded <- sForwarded, draft <- sDraft, visit <- sVisit, lists <- sLists,
  hydrated <- sHydrated, source <- sSource, loads <- sLoads, saving <- sSaving,
  overlay <- sOverlay, error <- sError, exports <- sExports, uploads <- sUploads

Entry == INSTANCE AddressEntry WITH
  now <- eNow, lastRequestAt <- eLastRequestAt, sentAt <- eSentAt,
  calls <- eCalls, mount <- eMount, form <- eForm, options <- eOptions,
  debounce <- eDebounce, blur <- eBlur

ASSUME ClientAssumed == Client!ClientAssumption
ASSUME AddressesAssumed == Addresses!AddressAssumption
ASSUME VehiclesAssumed == Vehicles!VehicleAssumption
ASSUME TableAssumed == Table!CSVAssumption
ASSUME SessionAssumed == Session!SessionAssumption
ASSUME EntryAssumed == Entry!EntryAssumption

optimizeVars == <<oPage, oVisit, oLists, oDraft, oSavePending, oPrompt, oAlert, oApproved,
  oActive, oRun, oJob, oResults>>
addressesVars == <<aRows, aTouched, aSearch, aPage, aPerPage, aHighest, aDialog, aLookup>>
vehiclesVars == <<vFleet, vForm, vOverlay>>
importVars == <<cIsOpen, cPending, cSelected, cAutoOpened, cReads, cTable, cModal,
  cParseError, cStep, cMapping, cRows, cPrevKey, cDefaults, cMenu, cImported>>
sessionVars == <<sPage, sChosen, sOperation, sReads, sSavePoint, sForwarded, sDraft,
  sVisit, sLists, sHydrated, sSource, sLoads, sSaving, sOverlay, sError, sExports,
  sUploads>>
entryVars == <<eNow, eLastRequestAt, eSentAt, eCalls, eMount, eForm, eOptions, eDebounce,
  eBlur>>
vars == <<view, optimizeVars, addressesVars, vehiclesVars, importVars, sessionVars,
  entryVars>>

Init ==
  /\ view \in {"optimize", "addresses", "vehicles", "import", "session", "entry"}
  /\ Client!Init
  /\ Addresses!Init
  /\ Vehicles!Init
  /\ Table!Init
  /\ Session!Init
  /\ Entry!Init

Next ==
  \/ /\ view = "optimize" /\ Client!Next
     /\ UNCHANGED <<view, addressesVars, vehiclesVars, importVars, sessionVars, entryVars>>
  \/ /\ view = "addresses" /\ Addresses!Next
     /\ UNCHANGED <<view, optimizeVars, vehiclesVars, importVars, sessionVars, entryVars>>
  \/ /\ view = "vehicles" /\ Vehicles!Next
     /\ UNCHANGED <<view, optimizeVars, addressesVars, importVars, sessionVars, entryVars>>
  \/ /\ view = "import" /\ Table!Next
     /\ UNCHANGED <<view, optimizeVars, addressesVars, vehiclesVars, sessionVars, entryVars>>
  \/ /\ view = "session" /\ Session!Next
     /\ UNCHANGED <<view, optimizeVars, addressesVars, vehiclesVars, importVars, entryVars>>
  \/ /\ view = "entry" /\ Entry!Next
     /\ UNCHANGED <<view, optimizeVars, addressesVars, vehiclesVars, importVars,
                    sessionVars>>

\* The browser settles every fetch, and runs its timers.
Fairness == \A r \in Runs : WF_optimizeVars(view = "optimize" /\ Client!RunStep(r))

Spec == Init /\ [][Next]_vars /\ Fairness

-----------------------------------------------------------------------------
\* The consent to a partial route is that of one prompt and one run
\* (partialOptimizationApproval.ts).
ConsentPerRun == Client!ConsentPerRun

\* Routes that arrive while their page is open are those of its lists (useOptimize.ts).
RoutesMatchLists == Client!RoutesMatchLists

\* Every optimisation ends (useOptimize.ts).
OptimizingEnds == Client!OptimizingEnds

\* One open row, unique ids, locations of their addresses and a page that exists
\* (useAddresses.ts).
AddressesAreSound == Addresses!AddressesAreSound

\* Departure times survive the form and the save point (VehicleDetailsOverlay.tsx,
\* timeConversion.ts).
DeparturesKept == Vehicles!DeparturesKept

\* Rows are imported under the columns of their own file (CSVUploadOverlay.tsx).
ImportedUnderItsColumns == Table!ImportedUnderItsColumns

\* The saved draft never goes back (edit/page.tsx).
DraftKept == Session!DraftKept

\* Requests that wait alone keep their distance (nominatim.ts).
SpacedWhenAlone == Entry!SpacedWhenAlone
=============================================================================
