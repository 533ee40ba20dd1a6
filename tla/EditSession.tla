---------------------------- MODULE EditSession ----------------------------
(***************************************************************************)
(* How work gets into the edit page and stays there: the upload page for   *)
(* save points and tables (upload-save-point/page.tsx), "New session" of   *)
(* the welcome page, the hydration of the edit page and the timer that     *)
(* saves its draft (edit/page.tsx), and the export of a save point.        *)
(* Everything passes through the session storage of the tab.  The lists    *)
(* are told apart by the save point they come from and the edits since.    *)
(* A file is read in the background, also after its page was left.         *)
(***************************************************************************)
EXTENDS Naturals, FiniteSets

CONSTANTS
  FileKinds,   \* see below
  MaxUploads,  \* bound on the files handed over; numbers the save points
  MaxVersion,  \* bound on the edits of one save point
  MaxVisits    \* bound on the mounts of the edit page

\* "session": a save point; "large": one of more than the 1 MB loadSessionFromFile takes;
\* "table": a .csv; "rows": JSON that is not a save point; "text": no JSON at all.
SessionAssumption ==
  /\ FileKinds \subseteq {"session", "large", "table", "rows", "text"}
  /\ MaxUploads \in Nat /\ MaxVersion \in Nat /\ MaxVisits \in Nat

VARIABLES
  page,       \* "welcome", "upload", "edit" or "results"
  chosen,     \* upload page: the file, "none"
  operation,  \* upload page: the current operation, 0 when idle
  reads,      \* files the upload page is reading
  savePoint,  \* savePointFile of the storage
  forwarded,  \* pendingCSVFile of the storage
  draft,      \* editPageDraft of the storage
  visit,      \* the mount of the edit page
  lists,      \* vehicles and addresses of the edit page
  hydrated,   \* isHydrated
  source,     \* where this mount got its lists from
  loads,      \* save points the edit page is reading, by mount
  saving,     \* draftSaveTimer runs
  overlay,    \* the table of a forwarded file is open
  error,      \* sessionError or continueError is shown
  exports,    \* exports under way: the lists they closed over
  uploads     \* files handed over so far

storage == <<savePoint, forwarded, draft>>
uploadPage == <<chosen, operation>>
editPage == <<lists, hydrated, source, saving, overlay>>
sessionVars == <<page, uploadPage, reads, storage, visit, editPage, loads, error, exports,
                 uploads>>

Empty == [serial |-> 0, version |-> 0]
NoFile == [kind |-> "none", serial |-> 0]

Init ==
  /\ page = "welcome" /\ chosen = "none" /\ operation = 0 /\ reads = {}
  /\ savePoint = NoFile /\ forwarded = NoFile /\ draft = Empty
  /\ visit = 0 /\ lists = Empty /\ hydrated = FALSE /\ source = "none"
  /\ loads = {} /\ saving = FALSE /\ overlay = FALSE /\ error = FALSE
  /\ exports = {} /\ uploads = 0

-----------------------------------------------------------------------------
(* Pages.  A page that is left takes its state and its timer with it.      *)

BlankUpload == chosen' = "none" /\ operation' = 0
BlankEdit ==
  /\ lists' = Empty /\ hydrated' = FALSE /\ source' = "none" /\ saving' = FALSE
  /\ overlay' = FALSE

GoTo(p) == page' = p /\ BlankUpload /\ BlankEdit /\ error' = FALSE

\* The mount of the edit page: the save point first, then a table, then the draft; only
\* the first of them that is there is looked at.
Mount ==
  /\ visit < MaxVisits
  /\ page' = "edit" /\ visit' = visit + 1
  /\ BlankUpload /\ error' = FALSE
  /\ IF savePoint # NoFile
       THEN /\ loads' = loads \cup {[visit |-> visit', file |-> savePoint]}
            /\ lists' = Empty /\ hydrated' = FALSE /\ source' = "none"
            /\ saving' = FALSE /\ overlay' = FALSE
            /\ UNCHANGED forwarded
       ELSE /\ UNCHANGED loads
            /\ hydrated' = TRUE /\ saving' = TRUE
            /\ forwarded' = NoFile
            /\ overlay' = (forwarded # NoFile)
            /\ lists' = IF forwarded # NoFile THEN Empty ELSE draft'
            /\ source' = IF forwarded # NoFile THEN "table" ELSE "draft"

\* Links, the address bar and reloads.
Visit ==
  /\ \/ \E p \in {"welcome", "upload", "results"} \ {page} :
          GoTo(p) /\ UNCHANGED <<storage, visit, loads>>
     \/ UNCHANGED <<savePoint, draft>> /\ Mount
  /\ UNCHANGED <<reads, exports, uploads>>

\* handleNewSession: the draft goes, a file that was not imported stays.
NewSession ==
  /\ page = "welcome"
  /\ draft' = Empty
  /\ UNCHANGED savePoint
  /\ Mount
  /\ UNCHANGED <<reads, exports, uploads>>

-----------------------------------------------------------------------------
(* The upload page. *)

\* handleFile, or the removal of the file.
ChooseFile ==
  /\ page = "upload" /\ operation = 0
  /\ \/ chosen' \in FileKinds /\ error' = FALSE
     \/ chosen' = "none" /\ error' \in BOOLEAN   \* removed; or not .json or .csv, or too big
  /\ UNCHANGED <<page, operation, reads, storage, visit, editPage, loads, exports, uploads>>

\* handleContinue, up to its first await.
Continue ==
  /\ page = "upload" /\ chosen # "none" /\ operation = 0 /\ uploads < MaxUploads
  /\ uploads' = uploads + 1
  /\ operation' = uploads' /\ error' = FALSE
  /\ reads' = reads \cup {[kind |-> chosen, serial |-> uploads', again |-> FALSE]}
  /\ UNCHANGED <<page, chosen, storage, visit, editPage, loads, exports>>

CancelUpload ==
  /\ page = "upload"
  /\ GoTo("welcome")
  /\ UNCHANGED <<reads, storage, visit, loads, exports, uploads>>

IsCurrent(r) == operation = r.serial
Fails(r) == operation' = 0 /\ error' = TRUE

\* The text of the file arrives.  A save point is stored and the edit page opened; other
\* JSON is read a second time, as a table; storing may exceed the quota, which sends a save
\* point the way of a table.
FileRead(r) ==
  LET file == [kind |-> r.kind, serial |-> r.serial]
      rest == reads \ {r}
  IN /\ IF ~IsCurrent(r)
          THEN reads' = rest /\ UNCHANGED <<page, uploadPage, storage, visit, editPage, loads, error>>
        ELSE IF r.kind = "text"
          THEN /\ reads' = rest /\ Fails(r)
               /\ UNCHANGED <<page, chosen, storage, visit, editPage, loads>>
        ELSE \/ /\ r.kind \in {"session", "large"} /\ ~r.again
                /\ reads' = rest
                /\ savePoint' = file /\ UNCHANGED <<forwarded, draft, visit, loads>>
                /\ GoTo("opening")
             \/ /\ r.kind # "table" /\ ~r.again
                /\ reads' = rest \cup {[r EXCEPT !.again = TRUE]}
                /\ UNCHANGED <<page, uploadPage, storage, visit, editPage, loads, error>>
             \/ /\ r.kind = "table" \/ r.again
                /\ reads' = rest
                /\ \/ /\ forwarded' = file /\ UNCHANGED <<savePoint, draft, visit, loads>>
                      /\ GoTo("opening")
                   \/ Fails(r) /\ UNCHANGED <<page, chosen, storage, visit, editPage, loads>>
     /\ UNCHANGED <<exports, uploads>>

\* router.push("/edit") has loaded the page.
Open ==
  /\ page = "opening"
  /\ UNCHANGED <<savePoint, draft>>
  /\ Mount
  /\ UNCHANGED <<reads, exports, uploads>>

-----------------------------------------------------------------------------
(* The edit page. *)

\* Plausible mistake: a save point stays in storage after its import.
SavePointKept == savePoint
SavePointDone == NoFile

\* loadSessionFromFile answers: only the mount that asked takes it; a save point that
\* cannot be imported stays for a retry, and the page is as good as hydrated.
SavePointLoaded(l) ==
  /\ loads' = loads \ {l}
  /\ IF page # "edit" \/ l.visit # visit
       THEN UNCHANGED <<savePoint, editPage, error>>
       ELSE /\ hydrated' = TRUE /\ saving' = TRUE
            /\ UNCHANGED overlay
            /\ IF l.file.kind = "session"
                 THEN /\ lists' = [serial |-> l.file.serial, version |-> 0]
                      /\ source' = "session" /\ savePoint' = SavePointDone
                      /\ UNCHANGED error
                 ELSE /\ error' = TRUE /\ source' = "failed"
                      /\ UNCHANGED <<lists, savePoint>>
  /\ UNCHANGED <<page, uploadPage, reads, forwarded, draft, visit, exports, uploads>>

\* Any change of the lists, also before the page is hydrated.
Edit ==
  /\ page = "edit" /\ ~error /\ ~overlay /\ lists.version < MaxVersion
  /\ lists' = [lists EXCEPT !.version = @ + 1]
  /\ saving' = hydrated
  /\ UNCHANGED <<page, uploadPage, reads, storage, visit, hydrated, source, loads, overlay,
                 error, exports, uploads>>

\* Plausible mistake: the timer does not wait for the lists to be restored.
SavesAtOnce == page = "edit"
Saves == saving

SaveDraft ==
  /\ Saves
  /\ saving' = FALSE
  /\ draft' \in {lists, draft}   \* an error of the storage is ignored
  /\ UNCHANGED <<page, uploadPage, reads, savePoint, forwarded, visit, lists, hydrated, source,
                 loads, overlay, error, exports, uploads>>

CloseOverlay ==
  /\ page = "edit" /\ (overlay \/ error)
  /\ overlay' = FALSE /\ error' = FALSE
  /\ UNCHANGED <<page, uploadPage, reads, storage, visit, lists, hydrated, source, loads, saving,
                 exports, uploads>>

\* handleExportSession locates what has no location yet, and downloads the lists of the
\* click, also when they were changed or the page was left meanwhile.
ExportSession ==
  /\ page = "edit" /\ ~error /\ ~overlay /\ exports = {}
  /\ exports' = {[visit |-> visit, lists |-> lists]}
  /\ UNCHANGED <<page, uploadPage, reads, storage, visit, editPage, loads, error, uploads>>

ExportEnds ==
  /\ \E e \in exports :
       error' \in {error, error \/ (page = "edit" /\ e.visit = visit)}
  /\ exports' = {}
  /\ UNCHANGED <<page, uploadPage, reads, storage, visit, editPage, loads, uploads>>

Next ==
  \/ Visit
  \/ NewSession
  \/ ChooseFile
  \/ Continue
  \/ CancelUpload
  \/ Open
  \/ Edit
  \/ SaveDraft
  \/ CloseOverlay
  \/ ExportSession
  \/ ExportEnds
  \/ \E r \in reads : FileRead(r)
  \/ \E l \in loads : SavePointLoaded(l)

Spec == Init /\ [][Next]_sessionVars

-----------------------------------------------------------------------------
\* The saved draft never goes back: it is replaced by later edits of the same lists, by a
\* save point uploaded later, by "New session", or on a page that came up without lists
\* because a file could not be imported or brought its own (edit/page.tsx, hydration).
DraftKept ==
  [][draft' # draft =>
       \/ page = "welcome"
       \/ source \in {"failed", "table"}
       \/ draft'.serial > draft.serial
       \/ draft'.serial = draft.serial /\ draft'.version > draft.version]_sessionVars
=============================================================================
