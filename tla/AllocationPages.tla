--------------------------- MODULE AllocationPages ---------------------------
(***************************************************************************)
(* The allocations pages: the listing, the tables of approved and expired  *)
(* allocations, the window with the team of a project.                     *)
(*                                                                         *)
(* Every GET_ALLOCATIONS is answered, the one of the workbench and the one *)
(* of the page may be open at once, and each answer empties all teams.     *)
(* GET_TEAMS keeps the latest call only.                                   *)
(***************************************************************************)
EXTENDS Naturals, FiniteSets

CONSTANTS
    Teams,        \* the projects with an allocation
    NoTeam,       \* the absence of one
    Listings      \* bound: the names of the listings open at once

VARIABLES store, calls, ui, alive

vars == <<store, calls, ui, alive>>

Watchers == {"GET_ALLOCATIONS", "GET_TEAMS"}

----------------------------------------------------------------------------
(* The reducer. `listed` tells whether the tables have rows.               *)

initialState ==
    [listed |-> FALSE, loading |-> TRUE, error |-> FALSE,
     teams |-> [p \in Teams |-> "none"],
     loadingUsernames |-> [p \in Teams |-> FALSE], errors |-> {}]

START_ADD_ALLOCATIONS(st) == [st EXCEPT !.error = FALSE, !.loading = TRUE]
ADD_ALLOCATIONS(st) == [st EXCEPT !.listed = TRUE, !.loading = FALSE]
ADD_ALLOCATIONS_ERROR(st) == [st EXCEPT !.error = TRUE, !.loading = FALSE]
POPULATE_TEAMS(st) ==
    [st EXCEPT !.teams = [p \in Teams |-> "empty"],
               !.loadingUsernames = [p \in Teams |-> TRUE]]

\* What a team's answer adds: its users with their usage, or an error, which
\* nothing takes back.
teamPayloadUtil(st, p, ok) ==
    [st EXCEPT !.teams[p] = IF ok THEN "users" ELSE @,
               !.loadingUsernames[p] = FALSE,
               !.errors = IF ok THEN @ ELSE @ \cup {p}]

----------------------------------------------------------------------------
(* The sagas. `emptied`: the teams were emptied while a team was on show.  *)

getAllocations(u) == \E n \in Listings \ calls["GET_ALLOCATIONS"] :
    /\ store' = START_ADD_ALLOCATIONS(store)
    /\ calls' = [calls EXCEPT !["GET_ALLOCATIONS"] = @ \cup {n}]
    /\ ui' = [u EXCEPT !.open = NoTeam]
    /\ UNCHANGED alive

getAllocationsUtil == \E n \in calls["GET_ALLOCATIONS"] :
    /\ \/ /\ store' = POPULATE_TEAMS(ADD_ALLOCATIONS(store))
          /\ ui' = [ui EXCEPT !.emptied = ui.open # NoTeam]
       \/ store' = ADD_ALLOCATIONS_ERROR(store) /\ UNCHANGED ui
    /\ calls' = [calls EXCEPT !["GET_ALLOCATIONS"] = @ \ {n}]
    /\ UNCHANGED alive

getUsernames == \E p \in calls["GET_TEAMS"] :
    /\ \E ok \in BOOLEAN : store' = teamPayloadUtil(store, p, ok)
    /\ calls' = [calls EXCEPT !["GET_TEAMS"] = {}]
    /\ UNCHANGED <<ui, alive>>

----------------------------------------------------------------------------
(* The page.                                                               *)

TableShown == ui.page # "elsewhere" /\ ~store.loading

\* The page is opened, which lists; or left, which closes its windows.
AllocationsRoutes ==
    \/ ui.page = "elsewhere" /\ getAllocations([ui EXCEPT !.page = "approved"])
    \/ /\ ui.page # "elsewhere"
       /\ ui' = [ui EXCEPT !.page = "elsewhere", !.open = NoTeam]
       /\ UNCHANGED <<store, calls, alive>>

\* The sidebar renders the other table, and its rows anew.
Layout ==
    /\ ui.page # "elsewhere" /\ ui.open = NoTeam
    /\ ui' = [ui EXCEPT !.page = IF @ = "approved" THEN "expired" ELSE "approved"]
    /\ UNCHANGED <<store, calls, alive>>

\* "Try reloading the page", in a table without rows.
AllocationsTable ==
    /\ TableShown /\ ui.open = NoTeam /\ store.error /\ ~store.listed
    /\ getAllocations(ui)

\* "View Team" of a row.
Team == \E p \in Teams :
    /\ TableShown /\ store.listed /\ ui.open = NoTeam
    /\ calls' = [calls EXCEPT !["GET_TEAMS"] = {p}]
    /\ ui' = [ui EXCEPT !.open = p, !.emptied = FALSE]
    /\ UNCHANGED <<store, alive>>

\* What the window shows, and its closing.
AllocationsTeamViewModal(p) ==
    IF p \in store.errors THEN "error"
    ELSE IF store.loadingUsernames[p] THEN "spinner" ELSE store.teams[p]

toggle ==
    /\ ui.open # NoTeam
    /\ ui' = [ui EXCEPT !.open = NoTeam]
    /\ UNCHANGED <<store, calls, alive>>

----------------------------------------------------------------------------
\* The workbench has just been opened, and lists.
Init ==
    /\ store = START_ADD_ALLOCATIONS(initialState)
    /\ \E n \in Listings :
          calls = [w \in Watchers |-> IF w = "GET_ALLOCATIONS" THEN {n} ELSE {}]
    /\ ui = [page |-> "elsewhere", open |-> NoTeam, emptied |-> FALSE]
    /\ alive = TRUE

Next ==
    \/ AllocationsRoutes \/ Layout \/ AllocationsTable \/ Team \/ toggle
    \/ getAllocationsUtil \/ getUsernames

Spec == Init /\ [][Next]_vars

----------------------------------------------------------------------------
(* Properties.                                                             *)

TypeOK ==
    /\ store.teams \in [Teams -> {"none", "empty", "users"}]
    /\ store.loadingUsernames \in [Teams -> BOOLEAN]
    /\ store.errors \subseteq Teams /\ ui.open \in Teams \cup {NoTeam}
    /\ Cardinality(calls["GET_TEAMS"]) <= 1
    /\ ui.open # NoTeam => TableShown

\* A spinner is waiting for an open call, unless a second listing emptied
\* the team on show.
SpinnerIsServed ==
    /\ store.loading => calls["GET_ALLOCATIONS"] # {}
    /\ (ui.open # NoTeam /\ ~ui.emptied) =>
          (AllocationsTeamViewModal(ui.open) = "spinner"
              => calls["GET_TEAMS"] = {ui.open})
=============================================================================
