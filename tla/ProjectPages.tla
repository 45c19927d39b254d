----------------------------- MODULE ProjectPages -----------------------------
(***************************************************************************)
(* The shared workspaces in the browser: their listing with its search,    *)
(* the page of one, and the windows to add one, to edit its title and to   *)
(* manage its team.                                                        *)
(*                                                                         *)
(* One part of the store holds the metadata of the project on show, one    *)
(* the operation under way, whichever it is.  Each saga keeps its latest   *)
(* call; what it tells goes to the page that is open by then.              *)
(***************************************************************************)
EXTENDS Naturals, FiniteSets

CONSTANTS
    Projects,     \* the projects of the user
    Queries,      \* what may be searched for, "all" when nothing is
    Nothing       \* the absence of a project or a query

\* What the constants are (the composing module assumes it).
PagesAssumption == "all" \in Queries /\ Projects \cap {"list", "away"} = {}

VARIABLES store, calls, ui, alive

vars == <<store, calls, ui, alive>>

Watchers == {"listing", "metadata", "create", "member", "titleDescription"}
Modals == {"addproject", "manageproject", "editproject"}

----------------------------------------------------------------------------
(* The reducers.                                                           *)

initialState ==
    [listing |-> [of |-> Nothing, loading |-> FALSE, error |-> FALSE],
     operation |-> [name |-> "none", loading |-> FALSE, error |-> FALSE],
     metadata |-> [project |-> Nothing, loading |-> FALSE, error |-> FALSE],
     modals |-> {}]

Metadata(p, l, e) == [project |-> p, loading |-> l, error |-> e]

GET_LISTING_STARTED(st) ==
    [st EXCEPT !.listing.error = FALSE, !.listing.loading = TRUE]
GET_LISTING_SUCCESS(st, q) ==
    [st EXCEPT !.listing = [of |-> q, loading |-> FALSE, error |-> FALSE]]
GET_LISTING_ERROR(st) ==
    [st EXCEPT !.listing.error = TRUE, !.listing.loading = FALSE]
GET_METADATA_STARTED(st) == [st EXCEPT !.metadata = Metadata(Nothing, TRUE, FALSE)]
GET_METADATA_SUCCESS(st, p) == [st EXCEPT !.metadata = Metadata(p, FALSE, FALSE)]
GET_METADATA_FAILED(st) == [st EXCEPT !.metadata = Metadata(Nothing, FALSE, TRUE)]

\* PROJECTS_CREATE_*, PROJECTS_SET_MEMBER_* and PROJECTS_SET_TITLE_*.
STARTED(st, w) ==
    [st EXCEPT !.operation = [name |-> w, loading |-> TRUE, error |-> FALSE]]
SUCCESS(st, w) ==
    [st EXCEPT !.operation = [name |-> w, loading |-> FALSE, error |-> FALSE]]
FAILED(st, w) ==
    [st EXCEPT !.operation = [name |-> w, loading |-> FALSE, error |-> TRUE]]
CLEAR_OPERATION(st) == [st EXCEPT !.operation = initialState.operation]

TOGGLE_MODAL(st, m) ==
    [st EXCEPT !.modals = IF m \in @ THEN @ \ {m} ELSE @ \cup {m}]

----------------------------------------------------------------------------
(* The sagas.  `crossed`: what a change told is on the page of another     *)
(* project; `relisted`: a change listed everything over a search.          *)

GET_LISTING(c, q) == [c EXCEPT !["listing"] = {q}]
GET_METADATA(c, p) == [c EXCEPT !["metadata"] = {p}]

getProjectsListing == \E q \in calls["listing"] :
    /\ \/ store' = GET_LISTING_SUCCESS(store, q)
       \/ store' = GET_LISTING_ERROR(store)
    /\ calls' = [calls EXCEPT !["listing"] = {}]
    /\ UNCHANGED <<ui, alive>>

getMetadata == \E p \in calls["metadata"] :
    /\ \/ store' = GET_METADATA_SUCCESS(store, p)
       \/ store' = GET_METADATA_FAILED(store)
    /\ calls' = [calls EXCEPT !["metadata"] = @ \ {p}]
    /\ ui' = [ui EXCEPT !.crossed = FALSE]
    /\ UNCHANGED alive

\* A change of the team or the title answers with the metadata, lists all
\* projects again, and the title's window is toggled.
changeTold(w, toggled) == \E p \in calls[w] :
    LET closed == [calls EXCEPT ![w] = {}] IN
    /\ \/ /\ p # Nothing
          /\ store' = GET_LISTING_STARTED(
                          SUCCESS(GET_METADATA_SUCCESS(toggled, p), w))
          /\ calls' = GET_LISTING(closed, "all")
          /\ ui' = [ui EXCEPT !.crossed = p # ui.page, !.relisted = TRUE]
       \/ /\ store' = FAILED(store, w)
          /\ calls' = closed
          /\ UNCHANGED ui
    /\ UNCHANGED alive

setMember == changeTold("member", store)
setTitleDescription ==
    changeTold("titleDescription", TOGGLE_MODAL(store, "editproject"))

\* A project created toggles the window and takes the user to its page, from
\* wherever they are.
createProject ==
    /\ calls["create"] # {}
    /\ LET closed == [calls EXCEPT !["create"] = {}] IN
       \/ \E p \in Projects :
             LET st == TOGGLE_MODAL(SUCCESS(store, "create"), "addproject") IN
             /\ store' = IF p = ui.page THEN st ELSE GET_METADATA_STARTED(st)
             /\ calls' = IF p = ui.page THEN closed ELSE GET_METADATA(closed, p)
             /\ ui' = [ui EXCEPT !.page = p]
       \/ store' = FAILED(store, "create") /\ calls' = closed /\ UNCHANGED ui
    /\ UNCHANGED alive

----------------------------------------------------------------------------
(* The pages.  A window in front keeps the pages out of reach.             *)

InFront == store.modals # {} /\ ui.page # "away"

\* The listing is opened, or searched, which clears the files on show too.
showSharedWorkspaces == \E q \in Queries :
    /\ ~InFront
    /\ IF ui.page = "list" THEN q # ui.query ELSE q = "all"
    /\ store' = GET_LISTING_STARTED(store)
    /\ calls' = GET_LISTING(calls, q)
    /\ ui' = [ui EXCEPT !.page = "list", !.query = q, !.relisted = FALSE]
    /\ UNCHANGED alive

DataFilesProjectFileListing == \E p \in Projects :
    /\ ~InFront /\ p # ui.page
    /\ store' = GET_METADATA_STARTED(store)
    /\ calls' = GET_METADATA(calls, p)
    /\ ui' = [ui EXCEPT !.page = p]
    /\ UNCHANGED alive

leave ==
    /\ ~InFront /\ ui.page # "away"
    /\ ui' = [ui EXCEPT !.page = "away"]
    /\ UNCHANGED <<store, calls, alive>>

Ready == ~store.metadata.loading /\ ~store.metadata.error

\* "Edit Descriptions" and "Manage Team".
onEdit == \E m \in {"editproject", "manageproject"} :
    /\ ui.page \in Projects /\ Ready /\ ~InFront
    /\ store' = TOGGLE_MODAL(store, m)
    /\ UNCHANGED <<calls, ui, alive>>

\* "Add" of the sidebar forgets the last operation, or the one under way.
addProjectOpen ==
    /\ ui.page # "away" /\ ~InFront
    /\ store' = TOGGLE_MODAL(CLEAR_OPERATION(store), "addproject")
    /\ UNCHANGED <<calls, ui, alive>>

toggle == \E m \in store.modals :
    /\ InFront
    /\ store' = TOGGLE_MODAL(store, m)
    /\ UNCHANGED <<calls, ui, alive>>

\* A submit button is disabled by an open operation of its own name only.
Loading(w) == store.operation.loading /\ store.operation.name = w

DataFilesAddProjectModal ==
    /\ "addproject" \in store.modals /\ InFront /\ ~Loading("create")
    /\ store' = STARTED(store, "create")
    /\ calls' = [calls EXCEPT !["create"] = {Nothing}]
    /\ UNCHANGED <<ui, alive>>

DataFilesProjectEditDescriptionModal ==
    /\ "editproject" \in store.modals /\ InFront /\ ~Loading("titleDescription")
    /\ store.metadata.project # Nothing
    /\ store' = STARTED(store, "titleDescription")
    /\ calls' = [calls EXCEPT !["titleDescription"] = {store.metadata.project}]
    /\ UNCHANGED <<ui, alive>>

\* Add, remove and transfer.  To remove oneself closes the window and lists;
\* the confirmation of a transfer does not wait for an open change.
setMemberStarted(st, c) ==
    /\ store' = STARTED(st, "member")
    /\ calls' = [c EXCEPT !["member"] = {store.metadata.project}]

onAdd == ~Loading("member") /\ setMemberStarted(store, calls) /\ UNCHANGED ui

onRemove ==
    /\ ~Loading("member") /\ store.metadata.project # Nothing
    /\ \/ setMemberStarted(store, calls) /\ UNCHANGED ui
       \/ /\ setMemberStarted(GET_LISTING_STARTED(TOGGLE_MODAL(store, "manageproject")),
                               GET_LISTING(calls, "all"))
          /\ ui' = [ui EXCEPT !.page = "list", !.query = "all", !.relisted = FALSE]

onTransfer ==
    store.metadata.project # Nothing /\ setMemberStarted(store, calls) /\ UNCHANGED ui

DataFilesManageProjectModal ==
    /\ "manageproject" \in store.modals /\ InFront
    /\ onAdd \/ onRemove \/ onTransfer
    /\ UNCHANGED alive

----------------------------------------------------------------------------
\* The workbench asks for the listing without a payload, which is an error.
Init ==
    /\ store = GET_LISTING_ERROR(initialState)
    /\ calls = [w \in Watchers |-> {}]
    /\ ui = [page |-> "away", query |-> "all", crossed |-> FALSE, relisted |-> FALSE]
    /\ alive = TRUE

Next ==
    \/ getProjectsListing \/ getMetadata \/ setMember \/ setTitleDescription
    \/ createProject \/ showSharedWorkspaces \/ DataFilesProjectFileListing
    \/ leave \/ onEdit \/ addProjectOpen \/ toggle \/ DataFilesAddProjectModal
    \/ DataFilesProjectEditDescriptionModal \/ DataFilesManageProjectModal

Spec == Init /\ [][Next]_vars

----------------------------------------------------------------------------
(* Properties.                                                             *)

TypeOK ==
    /\ store.listing.of \in Queries \cup {Nothing}
    /\ store.metadata.project \in Projects \cup {Nothing}
    /\ store.operation.name \in Watchers \cup {"none"}
    /\ store.modals \subseteq Modals
    /\ ui.page \in Projects \cup {"list", "away"}
    /\ \A w \in Watchers : Cardinality(calls[w]) <= 1

\* The spinners of the listing, the page and the operation under way wait for
\* an open call of that kind.
SpinnerIsServed ==
    /\ store.listing.loading => calls["listing"] # {}
    /\ store.metadata.loading => calls["metadata"] # {}
    /\ store.operation.loading => calls[store.operation.name] # {}

\* The page of a project shows, edits and manages that project, unless the
\* change of another one was told over it; the listing is the answer to the
\* search in its bar, unless a change listed everything over it.
ProjectIsOfPage ==
    /\ (ui.page \in Projects /\ Ready /\ ~ui.crossed)
           => store.metadata.project = ui.page
    /\ (ui.page = "list" /\ ~ui.relisted
           /\ ~store.listing.loading /\ ~store.listing.error)
           => store.listing.of = ui.query
=============================================================================
