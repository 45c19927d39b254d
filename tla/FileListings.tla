---------------------------- MODULE FileListings ----------------------------
(***************************************************************************)
(* The file browser of the workbench: the two sections of the `files`      *)
(* slice (the page and the browser inside a modal), the sagas that fill    *)
(* them, and the tables, breadcrumbs and selectors that drive them.        *)
(*                                                                         *)
(* A saga runs up to its request in one step and from its answer in        *)
(* another; in between, the calls of all sections are open at once.        *)
(* FETCH_FILES and FETCH_FILES_MODAL each keep the latest call only,       *)
(* SCROLL_FILES keeps the first one, and an error thrown by a handler that *)
(* catches nothing ends the root saga and every open call with it.         *)
(***************************************************************************)
EXTENDS Naturals, Sequences

CONSTANTS
    Folders,      \* the folders that can be listed
    Size,         \* the number of rows of each (a page holds one row)
    Drive,        \* the folders of Google Drive, paged by a token
    Home,         \* the root folder of the first system
    Projects,     \* the route that lists projects instead of files
    Codes,        \* the statuses a failed listing may have
    MaxRows       \* bound on the rows a section shows

VARIABLES
    store,        \* the `files` slice
    calls,        \* the open calls of each watcher
    ui,           \* the route, the open modal, and three notes of the history
    alive         \* the root saga runs

vars == <<store, calls, ui, alive>>

Sections == {"FilesListing", "modal"}
Watchers == {"FETCH_FILES", "FETCH_FILES_MODAL", "SCROLL_FILES"}
NoFolder == [unset |-> TRUE]

\* What the constants are (the composing module assumes it).
ListingAssumption ==
    /\ Home \in Folders
    /\ Drive \subseteq Folders
    /\ Projects \notin Folders /\ NoFolder \notin Folders
    /\ Size \in [Folders -> Nat]
    /\ MaxRows \in Nat

Call == [section : Sections, folder : Folders, offset : 0..MaxRows]
Row == [folder : Folders, nth : 1..MaxRows + 1]

\* The rows from `offset` on, one page of them. Tapis counts rows; the token
\* that Google Drive wants is read from an array, and never sent.
Page(f, offset) ==
    LET from == IF f \in Drive THEN 0 ELSE offset
    IN  IF from < Size[f] THEN <<[folder |-> f, nth |-> from + 1]>> ELSE <<>>
ReachedEnd(f, offset) ==
    IF f \in Drive THEN Size[f] <= 1 ELSE Page(f, offset) = <<>>

----------------------------------------------------------------------------
(* The reducer.                                                            *)

initialFilesState ==
    [loading |-> [s \in Sections |-> FALSE],
     loadingScroll |-> [s \in Sections |-> FALSE],
     error |-> [s \in Sections |-> "none"],
     listing |-> [s \in Sections |-> <<>>],
     params |-> [s \in Sections |-> NoFolder],
     reachedEnd |-> [s \in Sections |-> TRUE],
     selected |-> {}, selectAll |-> FALSE]

(* Faulty: the rows of the folder left behind stay. *)
FETCH_FILES_STARTKeeping(st, s, f) ==
    [st EXCEPT !.loading[s] = TRUE, !.error[s] = "none", !.params[s] = f]
FETCH_FILES_START(st, s, f) ==
    LET main == s = "FilesListing" IN
    [st EXCEPT !.loading[s] = TRUE, !.error[s] = "none", !.listing[s] = <<>>,
               !.params[s] = f, !.selected = IF main THEN {} ELSE @,
               !.selectAll = @ /\ ~main]
FETCH_FILES_SUCCESS(st, s, rows, end) ==
    [st EXCEPT !.loading[s] = FALSE, !.error[s] = "none",
               !.listing[s] = rows, !.reachedEnd[s] = end]
(* Faulty: a failed listing goes on loading. *)
FETCH_FILES_ERRORLoading(st, s, code) ==
    [st EXCEPT !.error[s] = code, !.listing[s] = <<>>]
FETCH_FILES_ERROR(st, s, code) ==
    [st EXCEPT !.loading[s] = FALSE, !.error[s] = code, !.listing[s] = <<>>]
SCROLL_FILES_START(st, s) ==
    [st EXCEPT !.loadingScroll[s] = TRUE, !.error[s] = "none"]
SCROLL_FILES_SUCCESS(st, s, rows, end) ==
    [st EXCEPT !.loadingScroll[s] = FALSE, !.error[s] = "none",
               !.listing[s] = @ \o rows, !.reachedEnd[s] = end]
SCROLL_FILES_ERR(st, s) ==
    [st EXCEPT !.loading[s] = FALSE, !.error[s] = "true", !.listing[s] = <<>>]
TOGGLE_SELECT(st, i) ==
    [st EXCEPT !.selected = IF i \in @ THEN @ \ {i} ELSE @ \cup {i}]
TOGGLE_SELECT_ALL(st) ==
    [st EXCEPT !.selectAll = ~@,
               !.selected = IF st.selectAll THEN {}
                            ELSE DOMAIN st.listing["FilesListing"]]
CLEAR_PROJECT_SELECTION(st) ==
    [st EXCEPT !.error["FilesListing"] = "none",
               !.params["FilesListing"] = NoFolder]

----------------------------------------------------------------------------
(* The sagas. `overtaken` notes that a section was listed again while a    *)
(* scroll of it was open, `dropped` that a pending listing of a section    *)
(* was cancelled by a listing of the other one, `unscrolled` that the last *)
(* scroll of a section failed, which leaves its loadingScroll as it was.   *)

\* FETCH_FILES or FETCH_FILES_MODAL, after the changes u to the rest of ui.
fetchFiles(w, s, f, u) ==
    IF ~alive THEN ui' = u /\ UNCHANGED <<store, calls>> ELSE
    /\ store' = FETCH_FILES_START(store, s, f)
    /\ calls' = [calls EXCEPT ![w] =
                    {[section |-> s, folder |-> f, offset |-> 0]}]
    /\ ui' = [u EXCEPT
          !.overtaken = (@ \ {s}) \cup
              {x \in {s} : \E c \in calls["SCROLL_FILES"] : c.section = x},
          !.dropped = (@ \cup {c.section : c \in calls[w]}) \ {s}]

fetchFilesAnswer(w) == \E c \in calls[w] :
    /\ calls' = [calls EXCEPT ![w] = {}]
    /\ \/ store' = FETCH_FILES_SUCCESS(store, c.section, Page(c.folder, 0),
                                       ReachedEnd(c.folder, 0))
       \/ \E code \in Codes :
             store' = FETCH_FILES_ERROR(store, c.section, code)
    /\ UNCHANGED <<ui, alive>>

\* No answer at all: the handler reads the status of an error without one.
fetchFilesLost(w) ==
    /\ calls[w] # {}
    /\ calls' = [v \in Watchers |-> {}]
    /\ alive' = FALSE
    /\ UNCHANGED <<store, ui>>

\* takeLeading: a scroll while another is open is forgotten.
scrollFiles(s, f) ==
    /\ alive /\ calls["SCROLL_FILES"] = {}
    /\ store' = SCROLL_FILES_START(store, s)
    /\ calls' = [calls EXCEPT !["SCROLL_FILES"] =
          {[section |-> s, folder |-> f, offset |-> Len(store.listing[s])]}]
    /\ ui' = [ui EXCEPT !.unscrolled = @ \ {s}]
    /\ UNCHANGED alive

scrollFilesAnswer == \E c \in calls["SCROLL_FILES"] :
    /\ calls' = [calls EXCEPT !["SCROLL_FILES"] = {}]
    /\ \/ /\ store' = SCROLL_FILES_SUCCESS(store, c.section,
                      Page(c.folder, c.offset), ReachedEnd(c.folder, c.offset))
          /\ UNCHANGED ui
       \/ /\ store' = SCROLL_FILES_ERR(store, c.section)
          /\ ui' = [ui EXCEPT !.unscrolled = @ \cup {c.section}]
    /\ UNCHANGED alive

----------------------------------------------------------------------------
(* What the user sees and does.                                            *)

\* What fills a table that has no rows.
DataFilesTablePlaceholder(s) ==
    LET err == store.error[s]
        main == store.params["FilesListing"]
    IN  CASE store.loading[s] -> "spinner"
          [] ~store.loading[s] /\ err = "502" -> "push your keys"
          [] ~store.loading[s] /\ err = "404" -> "does not exist"
          [] ~store.loading[s] /\ err = "403" -> "request an allocation"
          [] ~store.loading[s] /\ err = "400" ->
                IF main \in Drive THEN "connect Google Drive" ELSE "ticket"
          [] ~store.loading[s] /\ err = "none" ->
                IF store.listing[s] = <<>> THEN "no files" ELSE "rows"
          [] OTHER -> "problem"

\* Below its last row a table that has rows may show a spinner of its own.
DataFilesTableRow(s) == store.listing[s] # <<>> /\ store.loadingScroll[s]

\* Reaching the last row asks for more, unless the end was reached.
DataFilesTable(s, f) ==
    /\ store.listing[s] # <<>>
    /\ Len(store.listing[s]) < MaxRows
    /\ ~store.reachedEnd[s]
    /\ scrollFiles(s, f)

\* The page's table: a row or the header is clicked, the bottom is reached,
\* or the search bar, unless disabled, pushes the route again.
DataFilesListing ==
    /\ ~ui.browsing /\ ui.route \in Folders
    /\ \/ /\ \/ \E i \in DOMAIN store.listing["FilesListing"] :
                   store' = TOGGLE_SELECT(store, i)
             \/ /\ store.listing["FilesListing"] # <<>>
                /\ store' = TOGGLE_SELECT_ALL(store)
          /\ UNCHANGED <<calls, ui, alive>>
       \/ DataFilesTable("FilesListing", ui.route)
       \/ /\ ~store.loading["FilesListing"]
          /\ store.error["FilesListing"] = "none"
          /\ fetchFiles("FETCH_FILES", "FilesListing", ui.route, ui)
          /\ UNCHANGED alive

\* A route of files is rendered: sidebar, breadcrumb, folder or address bar.
DataFilesSwitch == \E f \in Folders :
    /\ ~ui.browsing
    /\ fetchFiles("FETCH_FILES", "FilesListing", f, [ui EXCEPT !.route = f])
    /\ UNCHANGED alive

\* The route of the projects: the saga clears the selected project.
DataFilesProjectsList ==
    /\ ~ui.browsing /\ ui.route # Projects
    /\ ui' = [ui EXCEPT !.route = Projects]
    /\ store' = IF alive THEN CLEAR_PROJECT_SELECTION(store) ELSE store
    /\ UNCHANGED <<calls, alive>>

\* A modal with a browser in it opens: on the page's folder or at home.
onOpened ==
    /\ ~ui.browsing
    /\ \E f \in {Home} \cup ({store.params["FilesListing"]} \ {NoFolder}) :
          fetchFiles("FETCH_FILES_MODAL", "modal", f,
                     [ui EXCEPT !.browsing = TRUE])
    /\ UNCHANGED alive

\* Its rows, its back link, its scrolling.
DataFilesModalListingTable ==
    /\ ui.browsing
    /\ \/ \E f \in Folders :
             /\ \E i \in DOMAIN store.listing["modal"] :
                   store.listing["modal"][i].folder # f
             /\ fetchFiles("FETCH_FILES", "modal", f, ui)
             /\ UNCHANGED alive
       \/ /\ store.params["modal"] \in Folders
          /\ DataFilesTable("modal", store.params["modal"])

\* Its breadcrumbs and its system selector, usable while it loads.
DataFilesBreadcrumbs == \E f \in Folders :
    /\ ui.browsing
    /\ fetchFiles("FETCH_FILES", "modal", f, ui)
    /\ UNCHANGED alive

\* An operation of the modal ends: the page is listed again, then the modal.
reloadPage ==
    /\ ui.browsing /\ alive /\ ui.route \in Folders
    /\ store.params["modal"] \in Folders
    /\ LET m == store.params["modal"]
           call(s, f) == {[section |-> s, folder |-> f, offset |-> 0]}
       IN  /\ store' = FETCH_FILES_START(
                          FETCH_FILES_START(store, "FilesListing", ui.route),
                          "modal", m)
           /\ calls' = [calls EXCEPT
                  !["FETCH_FILES"] = call("FilesListing", ui.route),
                  !["FETCH_FILES_MODAL"] = call("modal", m)]
           /\ ui' = [ui EXCEPT !.dropped = {},
                  !.overtaken = {c.section : c \in calls["SCROLL_FILES"]}]
    /\ UNCHANGED alive

toggle ==
    /\ ui.browsing
    /\ ui' = [ui EXCEPT !.browsing = FALSE]
    /\ UNCHANGED <<store, calls, alive>>

----------------------------------------------------------------------------
Init ==
    /\ store = initialFilesState
    /\ calls = [w \in Watchers |-> {}]
    /\ ui = [route |-> Projects, browsing |-> FALSE,
             overtaken |-> {}, dropped |-> {}, unscrolled |-> {}]
    /\ alive = TRUE

watchFetchFiles == \E w \in {"FETCH_FILES", "FETCH_FILES_MODAL"} :
    fetchFilesAnswer(w) \/ fetchFilesLost(w)

Next ==
    \/ DataFilesSwitch \/ DataFilesListing \/ DataFilesProjectsList
    \/ onOpened \/ DataFilesModalListingTable \/ DataFilesBreadcrumbs
    \/ reloadPage \/ toggle
    \/ watchFetchFiles \/ scrollFilesAnswer

Spec == Init /\ [][Next]_vars

----------------------------------------------------------------------------
(* Properties.                                                             *)

TypeOK ==
    /\ store.loading \in [Sections -> BOOLEAN]
    /\ store.loadingScroll \in [Sections -> BOOLEAN]
    /\ store.error \in [Sections -> Codes \cup {"none", "true"}]
    /\ \A s \in Sections : \A i \in DOMAIN store.listing[s] :
          store.listing[s][i] \in Row
    /\ store.params \in [Sections -> Folders \cup {NoFolder}]
    /\ store.selected \subseteq 1..MaxRows + 1
    /\ \A w \in Watchers : calls[w] \subseteq Call
    /\ ui \in [route : Folders \cup {Projects}, browsing : BOOLEAN,
               overtaken : SUBSET Sections, dropped : SUBSET Sections,
               unscrolled : SUBSET Sections]
    /\ alive \in BOOLEAN

\* The first page of a folder the user has left never comes up under the
\* folder shown, however the answers are ordered (the pages of Google Drive
\* are all the first one, see Page).
FirstPageIsCurrent ==
    LET s == "FilesListing" IN
    store.params[s] \in Folders => \A i \in DOMAIN store.listing[s] :
        LET row == store.listing[s][i] IN
        (row.nth = 1 /\ row.folder \notin Drive) => row.folder = store.params[s]

\* Unless a scroll outlived its listing, the page shows the first rows of
\* its folder, each once and in order, and the selection names rows of it.
PageIsPrefix ==
    LET s == "FilesListing"
        f == store.params[s]
    IN  (f \in Folders \ Drive /\ s \notin ui.overtaken /\ store.error[s] # "true")
        => /\ \A i \in DOMAIN store.listing[s] :
                 store.listing[s][i] = [folder |-> f, nth |-> i]
           /\ store.selected \subseteq DOMAIN store.listing[s]

\* The spinner in place of the rows waits for an open call, unless the other
\* section's listing cancelled that call; the spinner below the rows waits
\* for an open scroll, unless the last scroll of the section failed: that
\* one stays, under the rows of every folder listed next, until a scroll
\* succeeds. Once the root saga has ended both may stay.
SpinnerIsServed ==
    alive => \A s \in Sections :
        /\ DataFilesTablePlaceholder(s) = "spinner" =>
              \/ \E w \in {"FETCH_FILES", "FETCH_FILES_MODAL"} :
                    \E c \in calls[w] : c.section = s
              \/ s \in ui.dropped
        /\ DataFilesTableRow(s) =>
              \/ \E c \in calls["SCROLL_FILES"] : c.section = s
              \/ s \in ui.unscrolled
=============================================================================
