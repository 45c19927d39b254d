------------------------------ MODULE Workbench ------------------------------
(***************************************************************************)
(* The browser side of the portal: one page of it is open, and every page  *)
(* is a module over the same four variables, its part of the store, the    *)
(* open calls of its sagas, what its components keep, and whether the root *)
(* saga runs.  The slices of two pages are disjoint, so a page is followed *)
(* on its own from the moment it is opened.  Three parts of the server     *)
(* that all pages stand on are followed in the same way: the cache of the  *)
(* dashboards, the key pairs of a user's systems and the token.            *)
(***************************************************************************)
EXTENDS Integers, Sequences, FiniteSets, TLC

CONSTANTS Folders, Size, Drive, Home, Projects, Codes, MaxRows
CONSTANTS Files, Plain, Archives, Protected, Places, NoFile, Sessions, MaxOpen
CONSTANTS Apps, Html, Unallocated, Unlicensed, Serial, Visible, Required, Queue,
          Normal, Entries, NoApp
CONSTANTS Teams, NoTeam, Listings
CONSTANTS Tickets, NoTicket, MaxEntries
CONSTANTS Workspaces, Queries, Nothing
CONSTANTS Users, NoUser, Steps, MaxEvents
CONSTANTS One, Counties, NoCounty, Types, InitialType, Features, InitialFeature,
          Top, Years, Latest, Offered, Maltreated, Observed
CONSTANTS Functions, Databases, FileOf, Requests, MaxChanges
CONSTANTS Systems, StorageHost, LoginHost, Callers, MaxKeys
CONSTANTS Renewers, MaxTokens

VARIABLES page, store, calls, ui, alive

vars == <<page, store, calls, ui, alive>>

FileList == INSTANCE FileListings
FileOps == INSTANCE FileOperations
Form == INSTANCE JobForm
Allocations == INSTANCE AllocationPages
Desk == INSTANCE TicketPages
Account == INSTANCE AccountPage
Shared == INSTANCE ProjectPages WITH Projects <- Workspaces
Setup == INSTANCE OnboardingPages
Board == INSTANCE Dashboards
Data == INSTANCE DatabaseCache
Keys == INSTANCE SystemKeys
Token == INSTANCE TokenRefresh

ASSUME WorkbenchAssumption ==
    /\ FileList!ListingAssumption
    /\ Form!FormAssumption
    /\ Desk!DeskAssumption
    /\ Shared!PagesAssumption
    /\ Setup!OnboardingAssumption
    /\ Board!BoardAssumption
    /\ Data!CacheAssumption
    /\ Keys!KeysAssumption
    /\ Token!TokenAssumption

Init ==
    \/ page = "listings" /\ FileList!Init
    \/ page = "operations" /\ FileOps!Init
    \/ page = "form" /\ Form!Init
    \/ page = "allocations" /\ Allocations!Init
    \/ page = "tickets" /\ Desk!Init
    \/ page = "account" /\ Account!Init
    \/ page = "projects" /\ Shared!Init
    \/ page = "setup" /\ Setup!Init
    \/ page = "dashboard" /\ Board!Init
    \/ page = "data" /\ Data!Init
    \/ page = "keys" /\ Keys!Init
    \/ page = "token" /\ Token!Init

Next ==
    \/ page = "listings" /\ FileList!Next /\ UNCHANGED page
    \/ page = "operations" /\ FileOps!Next /\ UNCHANGED page
    \/ page = "form" /\ Form!Next /\ UNCHANGED page
    \/ page = "allocations" /\ Allocations!Next /\ UNCHANGED page
    \/ page = "tickets" /\ Desk!Next /\ UNCHANGED page
    \/ page = "account" /\ Account!Next /\ UNCHANGED page
    \/ page = "projects" /\ Shared!Next /\ UNCHANGED page
    \/ page = "setup" /\ Setup!Next /\ UNCHANGED page
    \/ page = "dashboard" /\ Board!Next /\ UNCHANGED page
    \/ page = "data" /\ Data!Next /\ UNCHANGED page
    \/ page = "keys" /\ Keys!Next /\ UNCHANGED page
    \/ page = "token" /\ Token!Next /\ UNCHANGED page

Spec == Init /\ [][Next]_vars

\* Every page keeps its part of the store, its calls and its components to
\* their types.
TypeOK ==
    /\ page = "listings" => FileList!TypeOK
    /\ page = "operations" => FileOps!TypeOK
    /\ page = "form" => Form!TypeOK
    /\ page = "allocations" => Allocations!TypeOK
    /\ page = "tickets" => Desk!TypeOK
    /\ page = "account" => Account!TypeOK
    /\ page = "projects" => Shared!TypeOK
    /\ page = "setup" => Setup!TypeOK
    /\ page = "dashboard" => Board!TypeOK
    /\ page = "data" => Data!TypeOK
    /\ page = "keys" => Keys!TypeOK
    /\ page = "token" => Token!TypeOK

\* A page that shows a spinner waits for a call that is open, but for the
\* exceptions each page names: a spinner that may never be taken away is one
\* of these.
SpinnerIsServed ==
    /\ page = "listings" => FileList!SpinnerIsServed
    /\ page = "operations" => FileOps!SpinnerIsServed
    /\ page = "form" => Form!SpinnerIsServed
    /\ page = "allocations" => Allocations!SpinnerIsServed
    /\ page = "tickets" => Desk!SpinnerIsServed
    /\ page = "account" => Account!SpinnerIsServed
    /\ page = "projects" => Shared!SpinnerIsServed
    /\ page = "setup" => Setup!SpinnerIsServed
    /\ page = "dashboard" => Board!SpinnerIsServed

\* The listing of a folder is of that folder: no first page of another one
\* comes up under its name, and its rows are the first ones of the folder, each
\* once and in order, unless a scroll outlived its listing.
ListingIsOfFolder ==
    page = "listings" => FileList!FirstPageIsCurrent /\ FileList!PageIsPrefix

\* A window of the files page is about the file it was opened for, but for
\* the preview while its window is opening, and a link that was forgotten.
WindowIsOfFile == page = "operations" => FileOps!WindowIsOfFile

\* What the address names is what its page shows, edits and submits: the
\* application of the form, the project of the listing.
PageIsOfRoute ==
    /\ page = "form" => Form!FormIsOfRoute
    /\ page = "projects" => Shared!ProjectIsOfPage

\* The run time of a job that was sent is within the queue's, read in the last
\* six digits of what was entered, if the queue allows any time.
RunTimeFits == page = "form" => Form!RunTimeFits

\* The window of a ticket has its thread, and a created ticket is listed.
DeskIsCurrent == page = "tickets" => Desk!ThreadIsOfTicket /\ Desk!CreatedIsListed

\* A form of the account says one thing of what became of it.
OneVerdict == page = "account" => Account!OneVerdict

\* The pages of a setup show the last event of each step once no message of
\* the step is to come, unless one of them was overtaken.
StateIsCurrent == page = "setup" => Setup!StateIsCurrent

\* The chart and the map of a dashboard are of what is selected.
PlotIsOfSelection == page = "dashboard" => Board!PlotIsOfSelection
ColourIsInClass == page = "dashboard" => Board!ColourIsInClass

\* A cached answer is not older than the file was when it was asked for.
AnswerIsCurrent == page = "data" => Data!AnswerIsCurrent

\* What the portal, Tapis and the hosts keep of a user's credentials agrees:
\* the key pairs of the systems, and the token.
CredentialsAgree ==
    /\ page = "keys" => Keys!KeysAgree
    /\ page = "token" => Token!TokenIsLast
=============================================================================
