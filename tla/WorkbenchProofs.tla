--------------------------- MODULE WorkbenchProofs ---------------------------
(***************************************************************************)
(* The other pages of the browser, allocations, tickets, account, shared   *)
(* workspaces, setup and dashboards, in the manner of FilePagesProofs; and *)
(* at the end all pages together, with the properties of the workbench as  *)
(* theorems of its specification.                                          *)
(***************************************************************************)
EXTENDS FilePagesProofs

-----------------------------------------------------------------------------
(* The allocations pages.                                                  *)

AllocationStore ==
  [listed : BOOLEAN, loading : BOOLEAN, error : BOOLEAN,
   teams : [Teams -> {"none", "empty", "users"}],
   loadingUsernames : [Teams -> BOOLEAN], errors : SUBSET Teams]

AllocationTypes ==
  /\ store \in AllocationStore
  /\ calls = [w \in Allocations!Watchers |-> calls[w]]
  /\ AtMostOne(calls["GET_TEAMS"]) /\ calls["GET_TEAMS"] \subseteq Teams
  /\ ui \in [page : {"elsewhere", "approved", "expired"}, open : Teams \cup {NoTeam},
             emptied : BOOLEAN]
  /\ ui.open # NoTeam => Allocations!TableShown

(* The window of a team that is still loading has its call.                *)
TeamAsked ==
  (ui.open # NoTeam /\ ~ui.emptied /\ ui.open \notin store.errors
     /\ store.loadingUsernames[ui.open]) => ui.open \in calls["GET_TEAMS"]

ListingAsked == store.loading => calls["GET_ALLOCATIONS"] # {}

AllocationInv == AllocationTypes /\ TeamAsked /\ ListingAsked

\* Every reducer of the listing keeps the types of the slice, and what it
\* leaves of spinners and errors.
LEMMA AllocationReducers ==
  ASSUME NEW st \in AllocationStore
  PROVE  /\ LET r == Allocations!START_ADD_ALLOCATIONS(st) IN
              /\ r \in AllocationStore /\ r.loading
              /\ r.errors = st.errors /\ r.loadingUsernames = st.loadingUsernames
         /\ LET r == Allocations!ADD_ALLOCATIONS(st) IN
              /\ r \in AllocationStore /\ ~r.loading
              /\ r.errors = st.errors /\ r.loadingUsernames = st.loadingUsernames
         /\ LET r == Allocations!ADD_ALLOCATIONS_ERROR(st) IN
              /\ r \in AllocationStore /\ ~r.loading
              /\ r.errors = st.errors /\ r.loadingUsernames = st.loadingUsernames
         /\ LET r == Allocations!POPULATE_TEAMS(st) IN
              /\ r \in AllocationStore /\ r.loading = st.loading
         /\ \A p \in Teams, ok \in BOOLEAN : LET r == Allocations!teamPayloadUtil(st, p,
            ok) IN
              /\ r \in AllocationStore /\ r.loading = st.loading
              /\ st.errors \subseteq r.errors
              /\ ~r.loadingUsernames[p]
              /\ \A q \in Teams \ {p} : r.loadingUsernames[q] = st.loadingUsernames[q]
<1>1. ASSUME NEW p \in Teams, NEW ok \in BOOLEAN
      PROVE  LET r == Allocations!teamPayloadUtil(st, p, ok) IN
              /\ r \in AllocationStore /\ r.loading = st.loading
              /\ st.errors \subseteq r.errors
              /\ ~r.loadingUsernames[p]
              /\ \A q \in Teams \ {p} : r.loadingUsernames[q] = st.loadingUsernames[q]
  <2> DEFINE r == Allocations!teamPayloadUtil(st, p, ok)
             teams == [st.teams EXCEPT ![p] = IF ok THEN "users" ELSE @]
             loading == [st.loadingUsernames EXCEPT ![p] = FALSE]
             errors == IF ok THEN st.errors ELSE st.errors \cup {p}
  <2>1. r = [st EXCEPT !.teams = teams, !.loadingUsernames = loading, !.errors = errors]
    BY DEF AllocationStore, Allocations!teamPayloadUtil
  <2>2. /\ st.teams \in [Teams -> {"none", "empty", "users"}]
        /\ st.loadingUsernames \in [Teams -> BOOLEAN] /\ st.errors \in SUBSET Teams
    BY DEF AllocationStore
  <2>3. teams \in [Teams -> {"none", "empty", "users"}]
    BY <2>2
  <2>4. /\ loading \in [Teams -> BOOLEAN] /\ ~loading[p]
        /\ \A q \in Teams \ {p} : loading[q] = st.loadingUsernames[q]
    BY <2>2
  <2>5. errors \in SUBSET Teams /\ st.errors \subseteq errors
    BY <2>2
  <2> HIDE DEF r, teams, loading, errors
  <2>6. /\ r \in AllocationStore /\ r.loading = st.loading /\ r.errors = errors
        /\ r.loadingUsernames = loading
    BY <2>1, <2>3, <2>4, <2>5 DEF AllocationStore
  <2> QED
    BY <2>4, <2>5, <2>6 DEF r
<1> QED
  BY <1>1
  DEF AllocationStore, Allocations!START_ADD_ALLOCATIONS, Allocations!ADD_ALLOCATIONS,
      Allocations!ADD_ALLOCATIONS_ERROR, Allocations!POPULATE_TEAMS

\* The allocations pages are opened in their invariant.
LEMMA AllocationStart == ASSUME Allocations!Init PROVE AllocationInv
<1>1. Allocations!initialState \in AllocationStore
  BY DEF AllocationStore, Allocations!initialState
<1>2. store \in AllocationStore
  BY <1>1, AllocationReducers DEF Allocations!Init
<1> QED
  BY <1>2 DEF Allocations!Init, AllocationInv, AllocationTypes, TeamAsked, ListingAsked,
              AtMostOne, Allocations!Watchers

(* The allocations are asked for, from a page that shows no team after it. *)
LEMMA AllocationsAsked ==
  ASSUME AllocationInv,
         NEW u \in [page : {"elsewhere", "approved", "expired"}, open : Teams \cup {NoTeam},
                    emptied : BOOLEAN],
         Allocations!getAllocations(u)
  PROVE  AllocationInv'
<1>1. PICK n \in Listings :
        /\ store' = Allocations!START_ADD_ALLOCATIONS(store)
        /\ calls' = [calls EXCEPT !["GET_ALLOCATIONS"] = @ \cup {n}]
        /\ ui' = [u EXCEPT !.open = NoTeam]
  BY DEF Allocations!getAllocations
<1>2. store' \in AllocationStore
  BY <1>1, AllocationReducers DEF AllocationInv, AllocationTypes
<1>3. /\ calls' = [w \in Allocations!Watchers |-> calls'[w]]
      /\ calls'["GET_ALLOCATIONS"] # {}
      /\ calls'["GET_TEAMS"] = calls["GET_TEAMS"]
  BY <1>1 DEF AllocationInv, AllocationTypes, Allocations!Watchers
<1>4. ui'.open = NoTeam
      /\ ui' \in [page : {"elsewhere", "approved", "expired"}, open : Teams \cup {NoTeam},
                  emptied : BOOLEAN]
  BY <1>1
<1> QED
  BY <1>2, <1>3, <1>4 DEF AllocationInv, AllocationTypes, TeamAsked, ListingAsked

\* Every saga and every page keeps it.
LEMMA AllocationStep ==
  ASSUME AllocationInv, [Allocations!Next]_<<store, calls, ui, alive>>
  PROVE  AllocationInv'
<1>0. /\ store \in AllocationStore
      /\ calls = [w \in Allocations!Watchers |-> calls[w]]
      /\ ui \in [page : {"elsewhere", "approved", "expired"}, open : Teams \cup {NoTeam},
                 emptied : BOOLEAN]
  BY DEF AllocationInv, AllocationTypes
<1>1. CASE Allocations!AllocationsRoutes
  <2>1. CASE Allocations!getAllocations([ui EXCEPT !.page = "approved"])
    BY <1>0, <2>1, AllocationsAsked
  <2>2. CASE /\ ui' = [ui EXCEPT !.page = "elsewhere", !.open = NoTeam]
             /\ UNCHANGED <<store, calls, alive>>
    BY <1>0, <2>2 DEF AllocationInv, AllocationTypes, TeamAsked, ListingAsked
  <2> QED
    BY <1>1, <2>1, <2>2 DEF Allocations!AllocationsRoutes
<1>2. CASE Allocations!Layout
  BY <1>0, <1>2 DEF AllocationInv, AllocationTypes, TeamAsked, ListingAsked,
     Allocations!Layout
<1>3. CASE Allocations!AllocationsTable
  BY <1>0, <1>3, AllocationsAsked DEF Allocations!AllocationsTable
<1>4. CASE Allocations!Team
  <2>1. PICK p \in Teams :
          /\ Allocations!TableShown
          /\ calls' = [calls EXCEPT !["GET_TEAMS"] = {p}]
          /\ ui' = [ui EXCEPT !.open = p, !.emptied = FALSE]
          /\ store' = store
    BY <1>4 DEF Allocations!Team
  <2>2. /\ calls' = [w \in Allocations!Watchers |-> calls'[w]]
        /\ calls'["GET_TEAMS"] = {p}
        /\ calls'["GET_ALLOCATIONS"] = calls["GET_ALLOCATIONS"]
    BY <1>0, <2>1 DEF Allocations!Watchers
  <2>3. /\ ui'.open = p /\ ui'.page = ui.page
        /\ ui' \in [page : {"elsewhere", "approved", "expired"}, open : Teams \cup {NoTeam},
                    emptied : BOOLEAN]
    BY <1>0, <2>1
  <2> QED
    BY <2>1, <2>2, <2>3
    DEF AllocationInv, AllocationTypes, TeamAsked, ListingAsked, AtMostOne,
        Allocations!TableShown
<1>5. CASE Allocations!toggle
  BY <1>0, <1>5 DEF AllocationInv, AllocationTypes, TeamAsked, ListingAsked,
     Allocations!toggle
<1>6. CASE Allocations!getAllocationsUtil
  <2>1. PICK n \in calls["GET_ALLOCATIONS"] :
          /\ \/ /\ store' = Allocations!POPULATE_TEAMS(Allocations!ADD_ALLOCATIONS(store))
                /\ ui' = [ui EXCEPT !.emptied = ui.open # NoTeam]
             \/ store' = Allocations!ADD_ALLOCATIONS_ERROR(store) /\ UNCHANGED ui
          /\ calls' = [calls EXCEPT !["GET_ALLOCATIONS"] = @ \ {n}]
    BY <1>6 DEF Allocations!getAllocationsUtil
  <2>2. /\ calls' = [w \in Allocations!Watchers |-> calls'[w]]
        /\ calls'["GET_TEAMS"] = calls["GET_TEAMS"]
    BY <1>0, <2>1 DEF Allocations!Watchers
  <2>3. CASE /\ store' = Allocations!POPULATE_TEAMS(Allocations!ADD_ALLOCATIONS(store))
             /\ ui' = [ui EXCEPT !.emptied = ui.open # NoTeam]
    <3>1. LET r == Allocations!ADD_ALLOCATIONS(store) IN r \in AllocationStore /\ ~r.loading
      BY <1>0, AllocationReducers
    <3>2. store' \in AllocationStore /\ ~store'.loading
      BY <2>3, <3>1, AllocationReducers
    <3>3. /\ ui'.open = ui.open /\ ui'.page = ui.page /\ (ui'.open # NoTeam => ui'.emptied)
          /\ ui' \in [page : {"elsewhere", "approved", "expired"},
             open : Teams \cup {NoTeam},
                      emptied : BOOLEAN]
      BY <1>0, <2>3
    <3> QED
      BY <2>2, <3>2, <3>3
      DEF AllocationInv, AllocationTypes, TeamAsked, ListingAsked, Allocations!TableShown
  <2>4. CASE store' = Allocations!ADD_ALLOCATIONS_ERROR(store) /\ UNCHANGED ui
    <3>1. /\ store' \in AllocationStore /\ ~store'.loading
          /\ store'.errors = store.errors
             /\ store'.loadingUsernames = store.loadingUsernames
      BY <1>0, <2>4, AllocationReducers
    <3> QED
      BY <2>2, <2>4, <3>1
      DEF AllocationInv, AllocationTypes, TeamAsked, ListingAsked, Allocations!TableShown
  <2> QED
    BY <2>1, <2>3, <2>4
<1>7. CASE Allocations!getUsernames
  <2>1. PICK p \in calls["GET_TEAMS"], ok \in BOOLEAN :
          /\ store' = Allocations!teamPayloadUtil(store, p, ok)
          /\ calls' = [calls EXCEPT !["GET_TEAMS"] = {}]
          /\ ui' = ui
    BY <1>7 DEF Allocations!getUsernames
  <2>2. /\ calls' = [w \in Allocations!Watchers |-> calls'[w]]
        /\ calls'["GET_TEAMS"] = {}
        /\ calls'["GET_ALLOCATIONS"] = calls["GET_ALLOCATIONS"]
    BY <1>0, <2>1 DEF Allocations!Watchers
  <2>3. /\ store' \in AllocationStore /\ store'.loading = store.loading
        /\ store.errors \subseteq store'.errors /\ ~store'.loadingUsernames[p]
        /\ \A q \in Teams \ {p} : store'.loadingUsernames[q] = store.loadingUsernames[q]
    <3>1. p \in Teams
      BY DEF AllocationInv, AllocationTypes
    <3> QED
      BY <1>0, <2>1, <3>1, AllocationReducers
  <2>4. TeamAsked'
    <3>1. SUFFICES ASSUME ui.open # NoTeam, ~ui.emptied, ui.open \notin store'.errors,
                          store'.loadingUsernames[ui.open]
                   PROVE  FALSE
      BY <2>1 DEF TeamAsked
    <3>2. ui.open \in Teams /\ ui.open # p
      BY <1>0, <2>3, <3>1
    <3>3. ui.open \in calls["GET_TEAMS"]
      BY <2>3, <3>1, <3>2 DEF AllocationInv, TeamAsked
    <3> QED
      BY <3>2, <3>3 DEF AllocationInv, AllocationTypes, AtMostOne
  <2> QED
    BY <2>1, <2>2, <2>3, <2>4
    DEF AllocationInv, AllocationTypes, ListingAsked, AtMostOne, Allocations!TableShown
<1>8. CASE UNCHANGED <<store, calls, ui, alive>>
  BY <1>8
  DEF AllocationInv, AllocationTypes, TeamAsked, ListingAsked, Allocations!TableShown
<1> QED
  BY <1>1, <1>2, <1>3, <1>4, <1>5, <1>6, <1>7, <1>8 DEF Allocations!Next

\* What it says of types and spinners.
LEMMA AllocationHolds ==
  ASSUME AllocationInv
  PROVE  Allocations!TypeOK /\ Allocations!SpinnerIsServed
<1>1. Allocations!TypeOK
  <2>1. /\ store.teams \in [Teams -> {"none", "empty", "users"}]
        /\ store.loadingUsernames \in [Teams -> BOOLEAN] /\ store.errors \subseteq Teams
    BY DEF AllocationInv, AllocationTypes, AllocationStore
  <2>2. Allocations!Cardinality(calls["GET_TEAMS"]) <= 1
    BY OneAtMost DEF AllocationInv, AllocationTypes, Allocations!Cardinality, Cardinality
  <2>3. ui.open \in Teams \cup {NoTeam} /\ (ui.open # NoTeam => Allocations!TableShown)
    BY DEF AllocationInv, AllocationTypes
  <2> QED
    BY ONLY <2>1, <2>2, <2>3 DEF Allocations!TypeOK
<1>2. ASSUME ui.open # NoTeam, ~ui.emptied,
             Allocations!AllocationsTeamViewModal(ui.open) = "spinner"
      PROVE  calls["GET_TEAMS"] = {ui.open}
  <2>1. ui.open \in Teams /\ store.teams[ui.open] # "spinner"
    BY <1>2 DEF AllocationInv, AllocationTypes, AllocationStore
  <2>2. ui.open \in calls["GET_TEAMS"]
    BY <1>2, <2>1
    DEF AllocationInv, TeamAsked, Allocations!AllocationsTeamViewModal
  <2> QED
    BY <2>2 DEF AllocationInv, AllocationTypes, AtMostOne
<1> QED
  BY <1>1, <1>2 DEF AllocationInv, ListingAsked, Allocations!SpinnerIsServed
-----------------------------------------------------------------------------
(* The tickets of the dashboard.                                           *)

TicketOrNone == Tickets \cup {NoTicket}

DeskThreads == Seq(Tickets \X Nat)

TicketListing == [content : SUBSET Tickets, loading : BOOLEAN, loadingError : BOOLEAN]

TicketWindow ==
  [ticketId : TicketOrNone, subject : TicketOrNone, subjectLoading : BOOLEAN,
   content : DeskThreads, loading : BOOLEAN, loadingError : BOOLEAN,
   replying : BOOLEAN]

TicketForm ==
  [creating : BOOLEAN, creatingError : BOOLEAN, creatingSuccess : BOOLEAN,
   createdTicketId : TicketOrNone]

ThreadLengths ==
  {f \in [Tickets -> Nat] : \A t \in Tickets : f[t] <= MaxEntries[t]}

DeskStore ==
  [list : TicketListing, view : TicketWindow, create : TicketForm,
   threads : ThreadLengths]

DeskUi ==
  [ticket : TicketOrNone, window : {"none", "create", "feedback"},
   reply : {"clean", "submitting"}, form : {"clean", "submitting"}, stray : BOOLEAN]

(* What the call of each saga brings back; <<>> until the portal answered. *)
DeskGot ==
  [LIST |-> (SUBSET Tickets) \cup {<<>>}, SUBJECT |-> {<<>>},
   HISTORY |-> DeskThreads, REPLY |-> (Tickets \X Nat) \cup {<<>>},
   CREATE |-> (Tickets \X Nat) \cup {<<>>}]

DeskCall(w) == [ticket : TicketOrNone, mine : BOOLEAN, got : DeskGot[w], done : BOOLEAN]

DeskCalls ==
  /\ calls = [w \in Desk!Watchers |-> calls[w]]
  /\ \A w \in Desk!Watchers : AtMostOne(calls[w]) /\ calls[w] \subseteq DeskCall(w)

DeskTypes ==
  /\ store \in DeskStore
  /\ DeskCalls
  /\ ui \in DeskUi
  /\ ui.ticket # NoTicket => store.view.ticketId = ui.ticket

(* What was listed exists, what was created exists, and a listing that is  *)
(* on its way knows what was created.                                      *)
Listed ==
  /\ store.list.content \subseteq Desk!Exists
  /\ store.create.creatingSuccess => store.create.createdTicketId \in Desk!Exists
  /\ \A c \in calls["LIST"] : c.done =>
        /\ c.got \subseteq Desk!Exists
        /\ store.create.creatingSuccess => store.create.createdTicketId \in c.got
  /\ \A c \in calls["CREATE"] : c.done => c.ticket \in Desk!Exists
  /\ Desk!CreatedIsListed

(* A thread that is on its way is of the ticket in the title and has       *)
(* nothing the ticket system has not.                                      *)
ThreadsRead ==
  \A c \in calls["HISTORY"] :
     /\ c.ticket \in Tickets
     /\ ui.ticket # NoTicket => c.ticket = ui.ticket
     /\ c.done => /\ Len(c.got) <= store.threads[c.ticket]
                  /\ \A i \in DOMAIN c.got : c.got[i] = <<c.ticket, i>>

(* The entries on show are in the ticket system; a reply of this window is *)
(* the only call about its thread, and comes after all of them.            *)
Replied ==
  /\ \A i \in DOMAIN store.view.content :
        store.view.content[i][2] <= store.threads[store.view.content[i][1]]
  /\ \A c \in calls["REPLY"] :
        /\ c.ticket \in Tickets
        /\ c.done => /\ c.got \in Tickets \X Nat /\ c.got[1] = c.ticket
                     /\ c.got[2] <= store.threads[c.ticket]
        /\ c.mine => /\ ui.ticket = c.ticket /\ ui.ticket # NoTicket
                     /\ calls["HISTORY"] = {} /\ ui.reply = "submitting"
        /\ (c.mine /\ c.done /\ ~ui.stray) =>
              \A i \in DOMAIN store.view.content : store.view.content[i][2] < c.got[2]

DeskSpinners ==
  Desk!SpinnerIsServed /\ (calls["HISTORY"] # {} => store.view.loading)

DeskInv ==
  DeskTypes /\ Listed /\ ThreadsRead /\ Replied /\ Desk!ThreadIsOfTicket /\ DeskSpinners

(* What the reducers of the listing and of the form make of a state.       *)
LEMMA ListingReducers ==
  ASSUME NEW st \in DeskStore
  PROVE  /\ LET r == Desk!LIST_FETCH_STARTED(st) IN
              /\ r \in DeskStore /\ r.view = st.view /\ r.create = st.create
              /\ r.threads = st.threads
              /\ r.list.content = {} /\ r.list.loading
         /\ \A c \in SUBSET Tickets : LET r == Desk!LIST_FETCH_SUCCESS(st, c) IN
              /\ r \in DeskStore /\ r.view = st.view /\ r.create = st.create
              /\ r.threads = st.threads
              /\ r.list.content = c /\ ~r.list.loading
         /\ LET r == Desk!LIST_FETCH_ERROR(st) IN
              /\ r \in DeskStore /\ r.view = st.view /\ r.create = st.create
              /\ r.threads = st.threads
              /\ r.list.content = {} /\ ~r.list.loading /\ r.list.loadingError
<1>1. ASSUME NEW L \in TicketListing
      PROVE  LET r == [st EXCEPT !.list = L] IN
              /\ r \in DeskStore /\ r.view = st.view /\ r.create = st.create
              /\ r.threads = st.threads /\ r.list = L
  BY DEF DeskStore
<1>2. [Desk!initialTicketList EXCEPT !.loading = TRUE] \in TicketListing
      /\ [Desk!initialTicketList EXCEPT !.loading = TRUE].content = {}
      /\ [Desk!initialTicketList EXCEPT !.loading = TRUE].loading
  BY DEF Desk!initialTicketList, TicketListing
<1>3. ASSUME NEW c \in SUBSET Tickets
      PROVE  /\ [Desk!initialTicketList EXCEPT !.content = c] \in TicketListing
             /\ [Desk!initialTicketList EXCEPT !.content = c].content = c
             /\ ~[Desk!initialTicketList EXCEPT !.content = c].loading
  BY DEF Desk!initialTicketList, TicketListing
<1>4. [Desk!initialTicketList EXCEPT !.loadingError = TRUE] \in TicketListing
      /\ [Desk!initialTicketList EXCEPT !.loadingError = TRUE].content = {}
      /\ ~[Desk!initialTicketList EXCEPT !.loadingError = TRUE].loading
      /\ [Desk!initialTicketList EXCEPT !.loadingError = TRUE].loadingError
  BY DEF Desk!initialTicketList, TicketListing
<1> QED
  BY <1>1, <1>2, <1>3, <1>4
  DEF Desk!LIST_FETCH_STARTED, Desk!LIST_FETCH_SUCCESS, Desk!LIST_FETCH_ERROR

\* What the reducers of the form for new tickets keep and change.
LEMMA CreateReducers ==
  ASSUME NEW st \in DeskStore
  PROVE  /\ LET r == Desk!CREATE_INIT(st) IN
              /\ r \in DeskStore /\ r.view = st.view /\ r.list = st.list
              /\ r.threads = st.threads
              /\ ~r.create.creating /\ ~r.create.creatingSuccess
         /\ LET r == Desk!CREATE_STARTED(st) IN
              /\ r \in DeskStore /\ r.view = st.view /\ r.list = st.list
              /\ r.threads = st.threads
              /\ r.create.creatingSuccess = st.create.creatingSuccess
              /\ r.create.createdTicketId = st.create.createdTicketId
         /\ LET r == Desk!CREATE_FAILED(st) IN
              /\ r \in DeskStore /\ r.view = st.view /\ r.list = st.list
              /\ r.threads = st.threads
              /\ ~r.create.creating
              /\ r.create.creatingSuccess = st.create.creatingSuccess
              /\ r.create.createdTicketId = st.create.createdTicketId
         /\ \A t \in Tickets : LET r == Desk!CREATE_SUCCESS(st, t) IN
              /\ r \in DeskStore /\ r.view = st.view /\ r.list = st.list
              /\ r.threads = st.threads
              /\ ~r.create.creating /\ r.create.createdTicketId = t
BY DEF DeskStore, TicketForm, TicketOrNone, Desk!initialTicketCreateState, Desk!CREATE_INIT,
       Desk!CREATE_STARTED, Desk!CREATE_FAILED, Desk!CREATE_SUCCESS

\* What those of the window of a ticket keep and change.
LEMMA TicketReducers ==
  ASSUME NEW st \in DeskStore
  PROVE  /\ \A t \in Tickets : LET r == Desk!INIT_MODAL(st, t) IN
              /\ r \in DeskStore /\ r.list = st.list /\ r.create = st.create
              /\ r.threads = st.threads
              /\ r.view.ticketId = t /\ r.view.content = <<>>
              /\ ~r.view.replying
         /\ LET r == Desk!FETCH_STARTED(st) IN
              /\ r \in DeskStore /\ r.list = st.list /\ r.create = st.create
              /\ r.threads = st.threads
              /\ r.view.ticketId = st.view.ticketId /\ r.view.content = st.view.content
              /\ r.view.replying = st.view.replying /\ r.view.loading
         /\ \A t \in TicketOrNone : LET r == Desk!FETCH_SUBJECT_DONE(st, t) IN
              /\ r \in DeskStore /\ r.list = st.list /\ r.create = st.create
              /\ r.threads = st.threads
              /\ r.view.ticketId = st.view.ticketId /\ r.view.content = st.view.content
              /\ r.view.replying = st.view.replying /\ r.view.loading = st.view.loading
              /\ ~r.view.subjectLoading
         /\ \A thread \in DeskThreads :
              LET r == Desk!FETCH_HISTORY_SUCCESS(st, thread) IN
              /\ r \in DeskStore /\ r.list = st.list /\ r.create = st.create
              /\ r.threads = st.threads
              /\ r.view.ticketId = st.view.ticketId /\ r.view.content = thread
              /\ r.view.replying = st.view.replying /\ ~r.view.loading
              /\ r.view.subjectLoading = st.view.subjectLoading
         /\ LET r == Desk!FETCH_HISTORY_ERROR(st) IN
              /\ r \in DeskStore /\ r.list = st.list /\ r.create = st.create
              /\ r.threads = st.threads
              /\ r.view.ticketId = st.view.ticketId /\ r.view.content = st.view.content
              /\ r.view.replying = st.view.replying /\ ~r.view.loading
              /\ r.view.subjectLoading = st.view.subjectLoading
<1>1. <<>> \in DeskThreads
  BY DEF DeskThreads
<1>2. TicketWindow =
        [ticketId : TicketOrNone, subject : TicketOrNone, subjectLoading : BOOLEAN,
         content : DeskThreads, loading : BOOLEAN, loadingError : BOOLEAN,
         replying : BOOLEAN]
  BY DEF TicketWindow
<1>3. Tickets \subseteq TicketOrNone /\ NoTicket \in TicketOrNone
  BY DEF TicketOrNone
<1> QED
  BY <1>1, <1>2, <1>3
  DEF DeskStore, Desk!initialDetailedTicketView,
      Desk!INIT_MODAL, Desk!FETCH_STARTED, Desk!FETCH_SUBJECT_DONE,
      Desk!FETCH_HISTORY_SUCCESS, Desk!FETCH_HISTORY_ERROR

\* What those of a reply keep and change.
LEMMA ReplyReducers ==
  ASSUME NEW st \in DeskStore
  PROVE  /\ LET r == Desk!REPLY_STARTED(st) IN
              /\ r \in DeskStore /\ r.list = st.list /\ r.create = st.create
              /\ r.threads = st.threads
              /\ r.view.ticketId = st.view.ticketId /\ r.view.content = st.view.content
              /\ r.view.loading = st.view.loading
              /\ r.view.subjectLoading = st.view.subjectLoading
         /\ \A e \in Tickets \X Nat : LET r == Desk!REPLY_SUCCESS(st, e) IN
              /\ r \in DeskStore /\ r.list = st.list /\ r.create = st.create
              /\ r.threads = st.threads
              /\ r.view.ticketId = st.view.ticketId
              /\ r.view.content = Append(st.view.content, e)
              /\ ~r.view.replying /\ r.view.loading = st.view.loading
              /\ r.view.subjectLoading = st.view.subjectLoading
         /\ LET r == Desk!REPLY_FAILED(st) IN
              /\ r \in DeskStore /\ r.list = st.list /\ r.create = st.create
              /\ r.threads = st.threads
              /\ r.view.ticketId = st.view.ticketId /\ r.view.content = st.view.content
              /\ ~r.view.replying /\ r.view.loading = st.view.loading
              /\ r.view.subjectLoading = st.view.subjectLoading
<1>1. ASSUME NEW e \in Tickets \X Nat PROVE Append(st.view.content, e) \in DeskThreads
  <2>1. st.view.content \in DeskThreads
    BY DEF DeskStore, TicketWindow
  <2> QED
    BY <2>1, AppendProperties DEF DeskThreads
<1>2. TicketWindow =
        [ticketId : TicketOrNone, subject : TicketOrNone, subjectLoading : BOOLEAN,
         content : DeskThreads, loading : BOOLEAN, loadingError : BOOLEAN,
         replying : BOOLEAN]
  BY DEF TicketWindow
<1>3. ASSUME NEW s \in DeskThreads
      PROVE  LET r == [st EXCEPT !.view.replying = FALSE, !.view.content = s] IN
              /\ r \in DeskStore /\ r.list = st.list /\ r.create = st.create
              /\ r.threads = st.threads
              /\ r.view.ticketId = st.view.ticketId
              /\ r.view.content = s
              /\ ~r.view.replying /\ r.view.loading = st.view.loading
              /\ r.view.subjectLoading = st.view.subjectLoading
  BY <1>2 DEF DeskStore
<1>4. ASSUME NEW e \in Tickets \X Nat
      PROVE  Desk!REPLY_SUCCESS(st, e) =
               [st EXCEPT !.view.replying = FALSE,
                 !.view.content = Append(st.view.content, e)]
  BY DEF Desk!REPLY_SUCCESS
<1>5. LET r == Desk!REPLY_STARTED(st) IN
        /\ r \in DeskStore /\ r.list = st.list /\ r.create = st.create
        /\ r.threads = st.threads
        /\ r.view.ticketId = st.view.ticketId /\ r.view.content = st.view.content
        /\ r.view.loading = st.view.loading
        /\ r.view.subjectLoading = st.view.subjectLoading
  BY <1>2 DEF DeskStore, Desk!REPLY_STARTED
<1>6. LET r == Desk!REPLY_FAILED(st) IN
        /\ r \in DeskStore /\ r.list = st.list /\ r.create = st.create
        /\ r.threads = st.threads
        /\ r.view.ticketId = st.view.ticketId /\ r.view.content = st.view.content
        /\ ~r.view.replying /\ r.view.loading = st.view.loading
        /\ r.view.subjectLoading = st.view.subjectLoading
  BY <1>2 DEF DeskStore, Desk!REPLY_FAILED
<1>7. ASSUME NEW e \in Tickets \X Nat
      PROVE  LET r == Desk!REPLY_SUCCESS(st, e) IN
              /\ r \in DeskStore /\ r.list = st.list /\ r.create = st.create
              /\ r.threads = st.threads
              /\ r.view.ticketId = st.view.ticketId
              /\ r.view.content = Append(st.view.content, e)
              /\ ~r.view.replying /\ r.view.loading = st.view.loading
              /\ r.view.subjectLoading = st.view.subjectLoading
  <2> DEFINE s == Append(st.view.content, e)
  <2>1. s \in DeskThreads /\ Desk!REPLY_SUCCESS(st, e)
                            = [st EXCEPT !.view.replying = FALSE, !.view.content = s]
    BY <1>1, <1>4
  <2> HIDE DEF s
  <2>2. LET r == Desk!REPLY_SUCCESS(st, e) IN
              /\ r \in DeskStore /\ r.list = st.list /\ r.create = st.create
              /\ r.threads = st.threads
              /\ r.view.ticketId = st.view.ticketId
              /\ r.view.content = s
              /\ ~r.view.replying /\ r.view.loading = st.view.loading
              /\ r.view.subjectLoading = st.view.subjectLoading
    BY ONLY <2>1, <1>3
  <2> QED
    BY <2>2 DEF s
<1> QED
  BY <1>5, <1>6, <1>7

(* What becomes of the calls: one kind of them changes at a time.          *)
LEMMA DeskCallsChange ==
  ASSUME NEW w \in Desk!Watchers, NEW S, DeskCalls, calls' = [calls EXCEPT ![w] = S],
         AtMostOne(S), S \subseteq DeskCall(w)
  PROVE  /\ DeskCalls' /\ calls'[w] = S
         /\ \A v \in Desk!Watchers \ {w} : calls'[v] = calls[v]
<1>1. /\ calls' = [v \in Desk!Watchers |-> calls'[v]] /\ calls'[w] = S
      /\ \A v \in Desk!Watchers \ {w} : calls'[v] = calls[v]
  BY DEF DeskCalls
<1> QED
  BY <1>1 DEF DeskCalls

(* A call that was sent, and one that was handled.                         *)
LEMMA CallSent ==
  ASSUME NEW w \in Desk!Watchers, NEW t \in TicketOrNone
  PROVE  /\ Desk!Call(t) \in DeskCall(w)
         /\ Desk!Call(t).ticket = t /\ ~Desk!Call(t).done /\ Desk!Call(t).mine
         /\ AtMostOne({Desk!Call(t)})
<1>1. <<>> \in DeskGot[w]
  <2>1. <<>> \in DeskThreads
    BY DEF DeskThreads
  <2>2. /\ DeskGot["LIST"] = (SUBSET Tickets) \cup {<<>>} /\ DeskGot["SUBJECT"] = {<<>>}
        /\ DeskGot["HISTORY"] = DeskThreads
        /\ DeskGot["REPLY"] = (Tickets \X Nat) \cup {<<>>}
        /\ DeskGot["CREATE"] = (Tickets \X Nat) \cup {<<>>}
    BY DEF DeskGot
  <2>3. /\ <<>> \in DeskGot["LIST"] /\ <<>> \in DeskGot["SUBJECT"]
        /\ <<>> \in DeskGot["REPLY"] /\ <<>> \in DeskGot["CREATE"]
    BY ONLY <2>2
  <2>4. <<>> \in DeskGot["HISTORY"]
    BY ONLY <2>1, <2>2
  <2> QED
    BY ONLY <2>3, <2>4, w \in Desk!Watchers DEF Desk!Watchers
<1> QED
  BY <1>1 DEF DeskCall, Desk!Call, AtMostOne

\* A call that the server has handled is a call of the same ticket.
LEMMA CallHandled ==
  ASSUME NEW w \in Desk!Watchers, NEW c \in DeskCall(w), NEW got \in DeskGot[w]
  PROVE  LET d == [c EXCEPT !.got = got, !.done = TRUE] IN
           /\ d \in DeskCall(w) /\ d.ticket = c.ticket /\ d.mine = c.mine
           /\ d.got = got /\ d.done /\ AtMostOne({d})
BY DEF DeskCall, AtMostOne

(* The window forgets its calls of a kind.                                 *)
LEMMA CallsForgotten ==
  ASSUME DeskCalls, NEW w \in Desk!Watchers
  PROVE  /\ AtMostOne(Desk!Forget(w)) /\ Desk!Forget(w) \subseteq DeskCall(w)
         /\ \A d \in Desk!Forget(w) : ~d.mine
         /\ \A d \in Desk!Forget(w) : \E c \in calls[w] :
              d.ticket = c.ticket /\ d.got = c.got /\ d.done = c.done
         /\ calls[w] # {} => Desk!Forget(w) # {}
<1>1. \A c \in DeskCall(w) : LET d == [c EXCEPT !.mine = FALSE] IN
        d \in DeskCall(w) /\ ~d.mine /\ d.ticket = c.ticket
        /\ d.got = c.got /\ d.done = c.done
  BY DEF DeskCall
<1>2. AtMostOne(calls[w]) /\ calls[w] \subseteq DeskCall(w)
  BY DEF DeskCalls
<1>3. AtMostOne(Desk!Forget(w))
  BY ONLY <1>2 DEF AtMostOne, Desk!Forget
<1>4. \A d \in Desk!Forget(w) : \E c \in calls[w] : d = [c EXCEPT !.mine = FALSE]
  BY DEF Desk!Forget
<1>5. calls[w] # {} => Desk!Forget(w) # {}
  BY DEF Desk!Forget
<1>6. Desk!Forget(w) \subseteq DeskCall(w) /\ \A d \in Desk!Forget(w) : ~d.mine
  BY <1>1, <1>2, <1>4
<1>7. \A d \in Desk!Forget(w) : \E c \in calls[w] :
        d.ticket = c.ticket /\ d.got = c.got /\ d.done = c.done
  <2>1. ASSUME NEW d \in Desk!Forget(w)
        PROVE  \E c \in calls[w] : d.ticket = c.ticket /\ d.got = c.got /\ d.done = c.done
    <3>1. PICK c \in calls[w] : d = [c EXCEPT !.mine = FALSE]
      BY <1>4
    <3>2. c \in DeskCall(w)
      BY <1>2
    <3> QED
      BY <1>1, <3>1, <3>2
  <2> QED
    BY <2>1
<1> QED
  BY <1>3, <1>5, <1>6, <1>7

(* A step that leaves what a part of the invariant is about.               *)
LEMMA ListedStays ==
  ASSUME Listed, store \in DeskStore, store' \in DeskStore,
         store'.list = store.list,
         \A t \in Tickets : store.threads[t] <= store'.threads[t],
         calls'["LIST"] = calls["LIST"],
         store'.create.creatingSuccess =>
            store.create.creatingSuccess
            /\ store'.create.createdTicketId = store.create.createdTicketId,
         \A d \in calls'["CREATE"] : d.done =>
            \E c \in calls["CREATE"] : c.done /\ d.ticket = c.ticket
  PROVE  Listed'
<1>1. Desk!Exists \subseteq Desk!Exists'
  BY DEF Desk!Exists, DeskStore, ThreadLengths
<1> QED
  BY <1>1 DEF Listed, Desk!CreatedIsListed

\* An entry of a thread is of a ticket and has a number.
LEMMA EntriesTyped ==
  ASSUME store \in DeskStore
  PROVE  \A i \in DOMAIN store.view.content :
            /\ store.view.content[i][1] \in Tickets /\ store.view.content[i][2] \in Int
<1>1. store.view.content \in DeskThreads
  BY DEF DeskStore, TicketWindow
<1>2. \A i \in DOMAIN store.view.content : store.view.content[i] \in Tickets \X Nat
  BY <1>1, ElementOfSeq DEF DeskThreads
<1> QED
  BY <1>2

\* The thread on show stays what it is while others grow.
LEMMA ThreadStays ==
  ASSUME ThreadsRead, Replied, Desk!ThreadIsOfTicket,
         store \in DeskStore, store' \in DeskStore, DeskCalls,
         store'.view.content = store.view.content,
         \A t \in Tickets : store.threads[t] <= store'.threads[t],
         calls'["HISTORY"] = calls["HISTORY"], calls'["REPLY"] \subseteq calls["REPLY"],
         ui'.ticket = ui.ticket, ui'.reply = ui.reply, ui'.stray = ui.stray
  PROVE  ThreadsRead' /\ Replied' /\ Desk!ThreadIsOfTicket'
<1>1. \A t \in Tickets : store.threads[t] \in Int /\ store'.threads[t] \in Int
  BY DEF DeskStore, ThreadLengths
<1>2. \A i \in DOMAIN store.view.content :
         /\ store.view.content[i][1] \in Tickets /\ store.view.content[i][2] \in Int
  BY EntriesTyped
<1>3. ThreadsRead'
  <2>1. ASSUME NEW c \in calls["HISTORY"], c.done
        PROVE  Len(c.got) <= store'.threads[c.ticket]
    <3>1. c.got \in DeskThreads
      BY DEF DeskCalls, DeskCall, DeskGot, Desk!Watchers
    <3>2. Len(c.got) \in Nat
      BY <3>1, LenProperties DEF DeskThreads
    <3> QED
      BY <1>1, <2>1, <3>2 DEF ThreadsRead
  <2> QED
    BY <2>1 DEF ThreadsRead
<1>4. Replied'
  <2>1. \A i \in DOMAIN store.view.content :
           store.view.content[i][2] <= store'.threads[store.view.content[i][1]]
    BY <1>1, <1>2 DEF Replied
  <2>2. ASSUME NEW c \in calls["REPLY"], c.done
        PROVE  c.got[2] <= store'.threads[c.ticket]
    BY <1>1, <2>2 DEF Replied
  <2> QED
    BY <2>1, <2>2 DEF Replied
<1>5. Desk!ThreadIsOfTicket'
  BY DEF Desk!ThreadIsOfTicket
<1> QED
  BY <1>3, <1>4, <1>5

\* A thread on the server grows.
LEMMA ThreadGrows ==
  ASSUME NEW t \in Tickets, NEW n \in 0..MaxEntries[t], store \in DeskStore,
         store.threads[t] <= n, store' = [store EXCEPT !.threads[t] = n]
  PROVE  /\ store' \in DeskStore /\ store'.list = store.list /\ store'.view = store.view
         /\ store'.create = store.create /\ store'.threads[t] = n
         /\ \A u \in Tickets : store.threads[u] <= store'.threads[u]
<1> DEFINE lengths == [store.threads EXCEPT ![t] = n]
<1>1. store.threads \in ThreadLengths
  BY DEF DeskStore
<1>2. \A u \in Tickets : store.threads[u] \in Int
  BY <1>1 DEF ThreadLengths
<1>3. /\ lengths \in ThreadLengths /\ lengths[t] = n
      /\ \A u \in Tickets : store.threads[u] <= lengths[u]
  BY <1>1, <1>2 DEF ThreadLengths
<1>4. store' = [store EXCEPT !.threads = lengths]
  BY DEF DeskStore
<1> HIDE DEF lengths
<1> QED
  BY <1>3, <1>4 DEF DeskStore

(* The ticket system, on its own or for a call.                            *)
LEMMA PortalWrites ==
  ASSUME DeskInv, Desk!othersWrite \/ Desk!replyAdded \/ Desk!ticketAdded
  PROVE  DeskInv'
<1>0. store \in DeskStore /\ ui \in DeskUi /\ DeskCalls
  BY DEF DeskInv, DeskTypes
<1>a. MaxEntries \in [Tickets -> Nat \ {0}] /\ store.threads \in ThreadLengths
  BY <1>0, WorkbenchAssumption DEF Desk!DeskAssumption, DeskStore
<1>b. \A t \in Tickets : store.threads[t] \in 0..MaxEntries[t]
  BY <1>a DEF ThreadLengths
<1>1. CASE Desk!othersWrite
  <2>1. PICK t \in Tickets :
          /\ store.threads[t] < MaxEntries[t]
          /\ store' = [store EXCEPT !.threads[t] = store.threads[t] + 1]
    BY <1>1 DEF Desk!othersWrite
  <2>2. calls' = calls /\ ui' = ui
    BY <1>1 DEF Desk!othersWrite
  <2>3. store.threads[t] + 1 \in 0..MaxEntries[t]
        /\ store.threads[t] <= store.threads[t] + 1
    BY <1>a, <1>b, <2>1
  <2>4. /\ store' \in DeskStore /\ store'.list = store.list /\ store'.view = store.view
        /\ store'.create = store.create
        /\ \A u \in Tickets : store.threads[u] <= store'.threads[u]
    BY <1>0, <2>1, <2>3, ThreadGrows
  <2>5. DeskTypes'
    BY <2>2, <2>4 DEF DeskInv, DeskTypes, DeskCalls
  <2>6. Listed'
    BY <1>0, <2>2, <2>4, ListedStays DEF DeskInv
  <2>7. ThreadsRead' /\ Replied' /\ Desk!ThreadIsOfTicket'
    BY <1>0, <2>2, <2>4, ThreadStays DEF DeskInv
  <2>8. DeskSpinners'
    BY <2>2, <2>4 DEF DeskInv, DeskSpinners, Desk!SpinnerIsServed
  <2> QED
    BY <2>5, <2>6, <2>7, <2>8 DEF DeskInv
<1>2. CASE Desk!replyAdded
  <2>1. PICK c \in calls["REPLY"] :
          /\ ~c.done /\ store.threads[c.ticket] < MaxEntries[c.ticket]
          /\ store' = [store EXCEPT !.threads[c.ticket] = store.threads[c.ticket] + 1]
          /\ calls' = [calls EXCEPT !["REPLY"] =
               {[c EXCEPT !.got = <<c.ticket, store.threads[c.ticket] + 1>>,
                 !.done = TRUE]}]
    BY <1>2 DEF Desk!replyAdded, Desk!Handled
  <2>2. ui' = ui
    BY <1>2 DEF Desk!replyAdded
  <2> DEFINE n == store.threads[c.ticket] + 1
             d == [c EXCEPT !.got = <<c.ticket, n>>, !.done = TRUE]
  <2>3. c.ticket \in Tickets /\ c \in DeskCall("REPLY")
    BY <1>0 DEF DeskInv, Replied, DeskCalls, Desk!Watchers
  <2>4. n \in 0..MaxEntries[c.ticket] /\ store.threads[c.ticket] <= n
    BY <1>a, <1>b, <2>1, <2>3
  <2>5. <<c.ticket, n>> \in DeskGot["REPLY"] /\ <<c.ticket, n>> \in Tickets \X Nat
    BY <2>3, <2>4, <1>a DEF DeskGot
  <2>6. /\ d \in DeskCall("REPLY") /\ d.ticket = c.ticket /\ d.mine = c.mine
        /\ d.got = <<c.ticket, n>> /\ d.done /\ AtMostOne({d})
    BY <2>3, <2>5, CallHandled DEF Desk!Watchers
  <2>7. /\ store' = [store EXCEPT !.threads[c.ticket] = n]
        /\ calls' = [calls EXCEPT !["REPLY"] = {d}]
    BY <2>1
  <2> HIDE DEF n, d
  <2>8. /\ store' \in DeskStore /\ store'.list = store.list /\ store'.view = store.view
        /\ store'.create = store.create /\ store'.threads[c.ticket] = n
        /\ \A u \in Tickets : store.threads[u] <= store'.threads[u]
    BY <1>0, <2>3, <2>4, <2>7, ThreadGrows
  <2>9. /\ DeskCalls' /\ calls'["REPLY"] = {d}
        /\ \A v \in Desk!Watchers \ {"REPLY"} : calls'[v] = calls[v]
    BY <1>0, <2>6, <2>7, DeskCallsChange DEF Desk!Watchers
  <2>10. DeskTypes'
    BY <2>2, <2>8, <2>9 DEF DeskInv, DeskTypes
  <2>11. Listed'
    BY <1>0, <2>8, <2>9, ListedStays DEF DeskInv, Desk!Watchers
  <2>12. DeskSpinners'
    BY <2>8, <2>9 DEF DeskInv, DeskSpinners, Desk!SpinnerIsServed, Desk!Watchers
  <2>13. \A i \in DOMAIN store.view.content :
            /\ store.view.content[i][1] \in Tickets /\ store.view.content[i][2] \in Int
    BY <1>0, EntriesTyped
  <2>14. ThreadsRead' /\ Desk!ThreadIsOfTicket'
    <3>1. ASSUME NEW e \in calls["HISTORY"], e.done
          PROVE  Len(e.got) <= store'.threads[e.ticket]
      <4>1. e.got \in DeskThreads
        BY <1>0 DEF DeskCalls, DeskCall, DeskGot, Desk!Watchers
      <4>2. Len(e.got) \in Nat /\ e.ticket \in Tickets
            /\ Len(e.got) <= store.threads[e.ticket]
        BY <3>1, <4>1, LenProperties DEF DeskThreads, DeskInv, ThreadsRead
      <4>3. store'.threads[e.ticket] \in Int /\ store.threads[e.ticket] \in Int
        BY <4>2, <1>b, <2>8 DEF DeskStore, ThreadLengths
      <4> QED
        BY <4>2, <4>3, <2>8
    <3>2. calls'["HISTORY"] = calls["HISTORY"]
      BY <2>9 DEF Desk!Watchers
    <3> QED
      BY <2>2, <2>8, <3>1, <3>2 DEF DeskInv, ThreadsRead, Desk!ThreadIsOfTicket
  <2>15. Replied'
    <3>1. \A t \in Tickets : store.threads[t] \in Int /\ store'.threads[t] \in Int
      BY <1>b, <2>8 DEF DeskStore, ThreadLengths
    <3>2. \A i \in DOMAIN store.view.content :
             store.view.content[i][2] <= store'.threads[store.view.content[i][1]]
      BY <2>8, <2>13, <3>1 DEF DeskInv, Replied
    <3>3. ASSUME c.mine, ~ui.stray, NEW i \in DOMAIN store.view.content
          PROVE  store.view.content[i][2] < n
      <4>1. ui.ticket = c.ticket /\ ui.ticket # NoTicket
        BY <3>3 DEF DeskInv, Replied
      <4>2. store.view.content[i][1] = c.ticket
        BY <3>3, <4>1 DEF DeskInv, Desk!ThreadIsOfTicket
      <4>3. store.view.content[i][2] <= store.threads[c.ticket]
        BY <4>2 DEF DeskInv, Replied
      <4> QED
        BY <4>3, <2>13, <2>3, <3>1 DEF n
    <3>4. c.mine => /\ ui.ticket = c.ticket /\ ui.ticket # NoTicket
                    /\ calls["HISTORY"] = {} /\ ui.reply = "submitting"
      BY DEF DeskInv, Replied
    <3>5. /\ d.got \in Tickets \X Nat /\ d.got[1] = c.ticket /\ d.got[2] = n
      BY <2>5, <2>6
    <3>6. calls'["HISTORY"] = calls["HISTORY"] /\ n <= store'.threads[c.ticket]
      BY <2>8, <2>9, <2>4 DEF Desk!Watchers
    <3> QED
      BY <2>2, <2>3, <2>6, <2>8, <2>9, <3>2, <3>3, <3>4, <3>5, <3>6 DEF Replied
  <2> QED
    BY <2>10, <2>11, <2>12, <2>14, <2>15 DEF DeskInv
<1>3. CASE Desk!ticketAdded
  <2>1. PICK c \in calls["CREATE"], t \in Tickets \ Desk!Exists :
          /\ ~c.done
          /\ store' = [store EXCEPT !.threads[t] = 1]
          /\ calls' = [calls EXCEPT !["CREATE"] =
               {[[c EXCEPT !.ticket = t] EXCEPT !.got = <<t, 1>>, !.done = TRUE]}]
    BY <1>3 DEF Desk!ticketAdded, Desk!Handled
  <2>2. ui' = ui
    BY <1>3 DEF Desk!ticketAdded
  <2>3. 1 \in 0..MaxEntries[t] /\ store.threads[t] <= 1
    BY <1>a, <1>b DEF Desk!Exists
  <2>4. /\ store' \in DeskStore /\ store'.list = store.list /\ store'.view = store.view
        /\ store'.create = store.create /\ store'.threads[t] = 1
        /\ \A u \in Tickets : store.threads[u] <= store'.threads[u]
    BY <1>0, <2>1, <2>3, ThreadGrows
  <2> DEFINE b == [c EXCEPT !.ticket = t]
             d == [b EXCEPT !.got = <<t, 1>>, !.done = TRUE]
  <2>5. b \in DeskCall("CREATE") /\ b.ticket = t
    BY <1>0 DEF DeskCalls, Desk!Watchers, DeskCall, TicketOrNone
  <2>6. <<t, 1>> \in DeskGot["CREATE"]
    BY DEF DeskGot
  <2>7. calls' = [calls EXCEPT !["CREATE"] = {d}]
    BY <2>1
  <2> HIDE DEF b
  <2>8. d \in DeskCall("CREATE") /\ d.ticket = t /\ AtMostOne({d})
    BY <2>5, <2>6, CallHandled DEF Desk!Watchers
  <2> HIDE DEF d
  <2>9. /\ DeskCalls' /\ calls'["CREATE"] = {d}
        /\ \A v \in Desk!Watchers \ {"CREATE"} : calls'[v] = calls[v]
    BY <1>0, <2>7, <2>8, DeskCallsChange DEF Desk!Watchers
  <2>10. DeskTypes'
    BY <2>2, <2>4, <2>9 DEF DeskInv, DeskTypes
  <2>11. Listed'
    <3>1. Desk!Exists \subseteq Desk!Exists' /\ t \in Desk!Exists'
      BY <1>b, <2>4 DEF Desk!Exists, DeskStore, ThreadLengths
    <3>2. calls'["LIST"] = calls["LIST"]
      BY <2>9 DEF Desk!Watchers
    <3> QED
      BY <2>4, <2>8, <2>9, <3>1, <3>2 DEF DeskInv, Listed, Desk!CreatedIsListed
  <2>12. DeskSpinners'
    BY <2>4, <2>9 DEF DeskInv, DeskSpinners, Desk!SpinnerIsServed, Desk!Watchers
  <2>13. ThreadsRead' /\ Replied' /\ Desk!ThreadIsOfTicket'
    BY <1>0, <2>2, <2>4, <2>9, ThreadStays DEF DeskInv, Desk!Watchers
  <2> QED
    BY <2>10, <2>11, <2>12, <2>13 DEF DeskInv
<1> QED
  BY <1>1, <1>2, <1>3

\* The tickets are opened in their invariant.
LEMMA DeskStart == ASSUME Desk!Init PROVE DeskInv
<1>1. PICK T \in SUBSET Tickets :
        store = [list |-> Desk!initialTicketList, view |-> Desk!initialDetailedTicketView,
                 create |-> Desk!initialTicketCreateState,
                 threads |-> [t \in Tickets |-> IF t \in T THEN 1 ELSE 0]]
  BY DEF Desk!Init
<1>2. Desk!initialTicketList \in TicketListing
      /\ Desk!initialTicketCreateState \in TicketForm
  BY DEF Desk!initialTicketList, Desk!initialTicketCreateState, TicketListing, TicketForm,
         TicketOrNone
<1>3. Desk!initialDetailedTicketView \in TicketWindow
  <2>1. <<>> \in DeskThreads
    BY DEF DeskThreads
  <2> QED
    BY <2>1 DEF Desk!initialDetailedTicketView, TicketWindow, TicketOrNone
<1>4. [t \in Tickets |-> IF t \in T THEN 1 ELSE 0] \in ThreadLengths
  BY WorkbenchAssumption DEF Desk!DeskAssumption, ThreadLengths
<1>5. store \in DeskStore
  BY <1>1, <1>2, <1>3, <1>4 DEF DeskStore
<1>6. /\ store.list.content = {} /\ ~store.list.loading
      /\ ~store.create.creating /\ ~store.create.creatingSuccess
      /\ store.view.content = <<>> /\ ~store.view.loading /\ ~store.view.subjectLoading
      /\ ~store.view.replying
  BY <1>1 DEF Desk!initialTicketList, Desk!initialTicketCreateState,
              Desk!initialDetailedTicketView
<1>7. /\ calls = [w \in Desk!Watchers |-> {}]
      /\ ui = [ticket |-> NoTicket, window |-> "none", reply |-> "clean",
               form |-> "clean", stray |-> FALSE]
  BY DEF Desk!Init
<1>8. DeskTypes
  BY <1>5, <1>7 DEF DeskTypes, DeskCalls, DeskUi, AtMostOne, TicketOrNone
<1>9. \A w \in Desk!Watchers : calls[w] = {}
  BY <1>7
<1>10. DOMAIN store.view.content = {}
  BY <1>6
<1> QED
  BY <1>6, <1>7, <1>8, <1>9, <1>10
  DEF DeskInv, Listed, Desk!CreatedIsListed, ThreadsRead, Replied, Desk!ThreadIsOfTicket,
      DeskSpinners, Desk!SpinnerIsServed, Desk!Watchers

(* The ticket system answers a reading call.                               *)
LEMMA PortalReads ==
  ASSUME DeskInv, Desk!listRead \/ Desk!historyRead
  PROVE  DeskInv'
<1>0. store \in DeskStore /\ ui \in DeskUi /\ DeskCalls
  BY DEF DeskInv, DeskTypes
<1>a. store' = store /\ ui' = ui
  BY DEF Desk!listRead, Desk!historyRead
<1>b. \A t \in Tickets : store.threads[t] <= store'.threads[t] /\ store.threads[t] \in Nat
  BY <1>0, <1>a, WorkbenchAssumption DEF DeskStore, ThreadLengths, Desk!DeskAssumption
<1>1. CASE Desk!listRead
  <2>1. PICK c \in calls["LIST"] :
          calls' = [calls EXCEPT !["LIST"] = {[c EXCEPT !.got = Desk!Exists,
            !.done = TRUE]}]
    BY <1>1 DEF Desk!listRead, Desk!Handled
  <2> DEFINE d == [c EXCEPT !.got = Desk!Exists, !.done = TRUE]
  <2>2. c \in DeskCall("LIST") /\ Desk!Exists \in DeskGot["LIST"]
    BY <1>0 DEF DeskCalls, Desk!Watchers, DeskGot, Desk!Exists
  <2>3. d \in DeskCall("LIST") /\ d.got = Desk!Exists /\ AtMostOne({d})
    BY <2>2, CallHandled DEF Desk!Watchers
  <2>4. calls' = [calls EXCEPT !["LIST"] = {d}]
    BY <2>1
  <2> HIDE DEF d
  <2>5. /\ DeskCalls' /\ calls'["LIST"] = {d}
        /\ \A v \in Desk!Watchers \ {"LIST"} : calls'[v] = calls[v]
    BY <1>0, <2>3, <2>4, DeskCallsChange DEF Desk!Watchers
  <2>6. DeskTypes'
    BY <1>a, <2>5 DEF DeskInv, DeskTypes
  <2>7. Listed'
    <3>1. Desk!Exists' = Desk!Exists /\ calls'["CREATE"] = calls["CREATE"]
      BY <1>a, <2>5 DEF Desk!Exists, Desk!Watchers
    <3> QED
      BY <1>a, <2>3, <2>5, <3>1 DEF DeskInv, Listed, Desk!CreatedIsListed
  <2>8. ThreadsRead' /\ Replied' /\ Desk!ThreadIsOfTicket'
    BY <1>0, <1>a, <1>b, <2>5, ThreadStays DEF DeskInv, Desk!Watchers
  <2>9. DeskSpinners'
    BY <1>a, <2>5 DEF DeskInv, DeskSpinners, Desk!SpinnerIsServed, Desk!Watchers
  <2> QED
    BY <2>6, <2>7, <2>8, <2>9 DEF DeskInv
<1>2. CASE Desk!historyRead
  <2>1. PICK c \in calls["HISTORY"] :
          calls' = [calls EXCEPT !["HISTORY"] =
                      {[c EXCEPT !.got = Desk!Thread(c.ticket), !.done = TRUE]}]
    BY <1>2 DEF Desk!historyRead, Desk!Handled
  <2>2. /\ c \in DeskCall("HISTORY") /\ c.ticket \in Tickets
        /\ ui.ticket # NoTicket => c.ticket = ui.ticket
    BY <1>0 DEF DeskInv, ThreadsRead, DeskCalls, Desk!Watchers
  <2>3. store.threads[c.ticket] \in Nat
    BY <1>b, <2>2
  <2>4. PICK thread \in DeskThreads :
          /\ thread = Desk!Thread(c.ticket) /\ Len(thread) = store.threads[c.ticket]
          /\ \A i \in DOMAIN thread : thread[i] = <<c.ticket, i>>
    <3> DEFINE s == [k \in 1..store.threads[c.ticket] |-> <<c.ticket, k>>]
    <3>1. s \in Seq(Tickets \X Nat) /\ Len(s) = store.threads[c.ticket]
      BY <2>2, <2>3
    <3>2. DOMAIN s = 1..store.threads[c.ticket]
          /\ \A i \in DOMAIN s : s[i] = <<c.ticket, i>>
      OBVIOUS
    <3>3. s = Desk!Thread(c.ticket)
      BY DEF Desk!Thread
    <3> HIDE DEF s
    <3> QED
      BY <3>1, <3>2, <3>3 DEF DeskThreads
  <2>5. thread \in DeskGot["HISTORY"]
    BY <2>4 DEF DeskGot
  <2> DEFINE d == [c EXCEPT !.got = thread, !.done = TRUE]
  <2>6. calls' = [calls EXCEPT !["HISTORY"] = {d}]
    BY <2>1, <2>4
  <2>7. d \in DeskCall("HISTORY") /\ d.got = thread /\ d.ticket = c.ticket /\ AtMostOne({d})
    <3>1. c \in DeskCall("HISTORY")
      BY <2>2
    <3> QED
      BY ONLY <3>1, <2>5 DEF DeskCall, AtMostOne
  <2> HIDE DEF d
  <2>8. /\ DeskCalls' /\ calls'["HISTORY"] = {d}
        /\ \A v \in Desk!Watchers \ {"HISTORY"} : calls'[v] = calls[v]
    BY <1>0, <2>6, <2>7, DeskCallsChange DEF Desk!Watchers
  <2>9. DeskTypes'
    BY <1>a, <2>8 DEF DeskInv, DeskTypes
  <2>10. Listed'
    BY <1>0, <1>a, <1>b, <2>8, ListedStays DEF DeskInv, Desk!Watchers
  <2>11. ThreadsRead'
    BY <1>a, <2>2, <2>3, <2>4, <2>7, <2>8 DEF ThreadsRead
  <2>12. Replied' /\ Desk!ThreadIsOfTicket'
    <3>1. calls'["REPLY"] = calls["REPLY"] /\ calls["HISTORY"] # {}
      BY <2>8 DEF Desk!Watchers
    <3> QED
      BY <1>a, <3>1 DEF DeskInv, Replied, Desk!ThreadIsOfTicket
  <2>13. DeskSpinners'
    BY <1>a, <2>8 DEF DeskInv, DeskSpinners, Desk!SpinnerIsServed, Desk!Watchers
  <2> QED
    BY <2>9, <2>10, <2>11, <2>12, <2>13 DEF DeskInv
<1> QED
  BY <1>1, <1>2

(* The listing is asked for: what was created is known to whoever answers. *)
LEMMA ListingAskedFor ==
  ASSUME DeskCalls, NEW st \in DeskStore, NEW c, Desk!LIST_FETCH(st, c),
         c = [w \in Desk!Watchers |-> c[w]],
         \A w \in Desk!Watchers : AtMostOne(c[w]) /\ c[w] \subseteq DeskCall(w),
         st.create.creatingSuccess => st.create.createdTicketId \in Desk!Exists,
         \A d \in c["CREATE"] : d.done => d.ticket \in Desk!Exists,
         st.threads = store.threads
  PROVE  /\ store' \in DeskStore /\ store'.view = st.view /\ store'.create = st.create
         /\ store'.threads = store.threads
         /\ DeskCalls' /\ calls'["LIST"] # {}
         /\ \A w \in Desk!Watchers \ {"LIST"} : calls'[w] = c[w]
         /\ Listed'
<1>1. /\ store' = Desk!LIST_FETCH_STARTED(st)
      /\ calls' = [c EXCEPT !["LIST"] = {Desk!Call(NoTicket)}]
  BY DEF Desk!LIST_FETCH
<1>2. /\ store' \in DeskStore /\ store'.view = st.view /\ store'.create = st.create
      /\ store'.threads = store.threads /\ store'.list.content = {} /\ store'.list.loading
  BY <1>1, ListingReducers
<1>3. /\ calls' = [v \in Desk!Watchers |-> calls'[v]]
      /\ calls'["LIST"] = {Desk!Call(NoTicket)}
      /\ \A w \in Desk!Watchers \ {"LIST"} : calls'[w] = c[w]
  BY <1>1 DEF Desk!Watchers
<1>4. /\ Desk!Call(NoTicket) \in DeskCall("LIST") /\ ~Desk!Call(NoTicket).done
      /\ AtMostOne({Desk!Call(NoTicket)})
  BY CallSent DEF Desk!Watchers, TicketOrNone
<1>5. DeskCalls'
  BY <1>3, <1>4 DEF DeskCalls
<1>6. Listed'
  <2>1. Desk!Exists' = Desk!Exists /\ calls'["CREATE"] = c["CREATE"]
    BY <1>2, <1>3 DEF Desk!Exists, Desk!Watchers
  <2> QED
    BY <1>2, <1>3, <1>4, <2>1 DEF Listed, Desk!CreatedIsListed
<1> QED
  BY <1>2, <1>3, <1>5, <1>6

\* A call is told, and the calls of the other sagas stay.
LEMMA NoCallLeft ==
  ASSUME DeskCalls, NEW w \in Desk!Watchers
  PROVE  /\ Desk!Told(w) = [v \in Desk!Watchers |-> Desk!Told(w)[v]]
         /\ Desk!Told(w)[w] = {}
         /\ \A v \in Desk!Watchers \ {w} : Desk!Told(w)[v] = calls[v]
         /\ \A v \in Desk!Watchers :
              AtMostOne(Desk!Told(w)[v]) /\ Desk!Told(w)[v] \subseteq DeskCall(v)
<1>1. /\ Desk!Told(w) = [v \in Desk!Watchers |-> Desk!Told(w)[v]]
      /\ Desk!Told(w)[w] = {}
      /\ \A v \in Desk!Watchers \ {w} : Desk!Told(w)[v] = calls[v]
  BY DEF DeskCalls, Desk!Told
<1> QED
  BY <1>1 DEF DeskCalls, AtMostOne

(* The listing, the subject or the thread is told.                         *)
LEMMA ReadingsTold ==
  ASSUME DeskInv,
         Desk!fetchTickets \/ Desk!fetchTicketSubject \/ Desk!fetchTicketHistory
  PROVE  DeskInv'
<1>0. store \in DeskStore /\ ui \in DeskUi /\ DeskCalls
  BY DEF DeskInv, DeskTypes
<1>b. \A t \in Tickets : store.threads[t] \in Nat
  BY <1>0, WorkbenchAssumption DEF DeskStore, ThreadLengths, Desk!DeskAssumption
<1>1. CASE Desk!fetchTickets
  <2>1. PICK c \in calls["LIST"] :
          /\ \/ c.done /\ store' = Desk!LIST_FETCH_SUCCESS(store, c.got)
             \/ store' = Desk!LIST_FETCH_ERROR(store)
          /\ calls' = Desk!Told("LIST") /\ ui' = ui
    BY <1>1 DEF Desk!fetchTickets
  <2>2. /\ DeskCalls' /\ calls'["LIST"] = {}
        /\ \A v \in Desk!Watchers \ {"LIST"} : calls'[v] = calls[v]
    BY <1>0, <2>1, NoCallLeft DEF Desk!Watchers, DeskCalls
  <2>3. c.done => c.got \in SUBSET Tickets
    BY DEF DeskInv, Listed, Desk!Exists
  <2>4. /\ store' \in DeskStore /\ store'.view = store.view /\ store'.create = store.create
        /\ store'.threads = store.threads /\ ~store'.list.loading
        /\ \/ c.done /\ store'.list.content = c.got
           \/ store'.list.content = {} /\ store'.list.loadingError
    BY <1>0, <2>1, <2>3, ListingReducers
  <2>5. DeskTypes'
    BY <2>1, <2>2, <2>4 DEF DeskInv, DeskTypes
  <2>6. Listed'
    <3>1. Desk!Exists' = Desk!Exists /\ calls'["CREATE"] = calls["CREATE"]
      BY <2>2, <2>4 DEF Desk!Exists, Desk!Watchers
    <3> QED
      BY <2>2, <2>4, <3>1 DEF DeskInv, Listed, Desk!CreatedIsListed
  <2>7. ThreadsRead' /\ Replied' /\ Desk!ThreadIsOfTicket'
    BY <1>0, <1>b, <2>1, <2>2, <2>4, ThreadStays DEF DeskInv, Desk!Watchers
  <2>8. DeskSpinners'
    BY <2>2, <2>4 DEF DeskInv, DeskSpinners, Desk!SpinnerIsServed, Desk!Watchers
  <2> QED
    BY <2>5, <2>6, <2>7, <2>8 DEF DeskInv
<1>2. CASE Desk!fetchTicketSubject
  <2>a. PICK c \in calls["SUBJECT"] :
          /\ \E t \in {c.ticket, NoTicket} : store' = Desk!FETCH_SUBJECT_DONE(store, t)
          /\ calls' = Desk!Told("SUBJECT") /\ ui' = ui
    BY <1>2 DEF Desk!fetchTicketSubject
  <2>1. PICK t \in {c.ticket, NoTicket} :
          /\ store' = Desk!FETCH_SUBJECT_DONE(store, t)
          /\ calls' = Desk!Told("SUBJECT") /\ ui' = ui
    BY <2>a
  <2>2. /\ DeskCalls' /\ calls'["SUBJECT"] = {}
        /\ \A v \in Desk!Watchers \ {"SUBJECT"} : calls'[v] = calls[v]
    BY <1>0, <2>1, NoCallLeft DEF Desk!Watchers, DeskCalls
  <2>3. t \in TicketOrNone
    BY <1>0 DEF DeskCalls, Desk!Watchers, DeskCall, TicketOrNone
  <2>4. /\ store' \in DeskStore /\ store'.list = store.list /\ store'.create = store.create
        /\ store'.threads = store.threads
        /\ store'.view.ticketId = store.view.ticketId
        /\ store'.view.content = store.view.content
        /\ store'.view.replying = store.view.replying
        /\ store'.view.loading = store.view.loading /\ ~store'.view.subjectLoading
    BY <1>0, <2>1, <2>3, TicketReducers
  <2>5. DeskTypes'
    BY <2>1, <2>2, <2>4 DEF DeskInv, DeskTypes
  <2>6. Listed'
    BY <1>0, <1>b, <2>2, <2>4, ListedStays DEF DeskInv, Desk!Watchers
  <2>7. ThreadsRead' /\ Replied' /\ Desk!ThreadIsOfTicket'
    BY <1>0, <1>b, <2>1, <2>2, <2>4, ThreadStays DEF DeskInv, Desk!Watchers
  <2>8. DeskSpinners'
    BY <2>2, <2>4 DEF DeskInv, DeskSpinners, Desk!SpinnerIsServed, Desk!Watchers
  <2> QED
    BY <2>5, <2>6, <2>7, <2>8 DEF DeskInv
<1>3. CASE Desk!fetchTicketHistory
  <2>1. PICK c \in calls["HISTORY"] :
          /\ \/ /\ c.done
                /\ store' = Desk!FETCH_HISTORY_SUCCESS(store, c.got)
                /\ ui' = [ui EXCEPT !.stray = FALSE]
             \/ store' = Desk!FETCH_HISTORY_ERROR(store) /\ UNCHANGED ui
          /\ calls' = Desk!Told("HISTORY")
    BY <1>3 DEF Desk!fetchTicketHistory
  <2>2. /\ DeskCalls' /\ calls'["HISTORY"] = {}
        /\ \A v \in Desk!Watchers \ {"HISTORY"} : calls'[v] = calls[v]
    BY <1>0, <2>1, NoCallLeft DEF Desk!Watchers, DeskCalls
  <2>3. /\ c.got \in DeskThreads /\ c.ticket \in Tickets
        /\ ui.ticket # NoTicket => c.ticket = ui.ticket
        /\ c.done => /\ Len(c.got) <= store.threads[c.ticket]
                     /\ \A i \in DOMAIN c.got : c.got[i] = <<c.ticket, i>>
    BY <1>0 DEF DeskInv, ThreadsRead, DeskCalls, DeskCall, DeskGot, Desk!Watchers
  <2>4. /\ store' \in DeskStore /\ store'.list = store.list /\ store'.create = store.create
        /\ store'.threads = store.threads
        /\ store'.view.ticketId = store.view.ticketId
        /\ store'.view.replying = store.view.replying
        /\ ~store'.view.loading /\ store'.view.subjectLoading = store.view.subjectLoading
        /\ \/ c.done /\ store'.view.content = c.got /\ ui' = [ui EXCEPT !.stray = FALSE]
           \/ store'.view.content = store.view.content /\ ui' = ui
    <3>1. CASE c.done /\ store' = Desk!FETCH_HISTORY_SUCCESS(store, c.got)
                /\ ui' = [ui EXCEPT !.stray = FALSE]
      <4>1. PICK got \in DeskThreads : got = c.got
        BY <2>3
      <4>2. LET r == Desk!FETCH_HISTORY_SUCCESS(store, got) IN
              /\ r \in DeskStore /\ r.list = store.list /\ r.create = store.create
              /\ r.threads = store.threads
              /\ r.view.ticketId = store.view.ticketId /\ r.view.content = got
              /\ r.view.replying = store.view.replying /\ ~r.view.loading
              /\ r.view.subjectLoading = store.view.subjectLoading
        BY ONLY <1>0, <4>1, TicketReducers
      <4> QED
        BY <3>1, <4>1, <4>2
    <3>2. CASE store' = Desk!FETCH_HISTORY_ERROR(store) /\ ui' = ui
      BY ONLY <1>0, <3>2, TicketReducers
    <3> QED
      BY <2>1, <3>1, <3>2
  <2>5. /\ ui' \in DeskUi /\ ui'.ticket = ui.ticket /\ ui'.reply = ui.reply
    BY <1>0, <2>4 DEF DeskUi
  <2>6. DeskTypes'
    BY <2>2, <2>4, <2>5 DEF DeskInv, DeskTypes
  <2>7. Listed'
    BY <1>0, <1>b, <2>2, <2>4, ListedStays DEF DeskInv, Desk!Watchers
  <2>8. \A r \in calls["REPLY"] : ~r.mine
    BY DEF DeskInv, Replied
  <2>9. c.done => /\ \A i \in DOMAIN c.got : /\ c.got[i][1] = c.ticket
                                             /\ c.got[i][2] <= store.threads[c.ticket]
                  /\ \A i, j \in DOMAIN c.got : i < j => c.got[i][2] < c.got[j][2]
    <3>1. SUFFICES ASSUME c.done
                   PROVE  /\ \A i \in DOMAIN c.got : /\ c.got[i][1] = c.ticket
                                                     /\ c.got[i][2] <= store.threads[c.ticket]
                          /\ \A i, j \in DOMAIN c.got : i < j => c.got[i][2] < c.got[j][2]
      OBVIOUS
    <3>2. DOMAIN c.got = 1..Len(c.got) /\ Len(c.got) \in Nat
      BY <2>3, LenProperties DEF DeskThreads
    <3>3. \A i \in DOMAIN c.got : i \in Nat /\ i <= Len(c.got)
      BY <3>2
    <3>4. \A i \in DOMAIN c.got : c.got[i][1] = c.ticket /\ c.got[i][2] = i
      BY <2>3, <3>1
    <3>5. store.threads[c.ticket] \in Nat /\ Len(c.got) <= store.threads[c.ticket]
      BY <1>b, <2>3, <3>1
    <3> QED
      BY <3>2, <3>3, <3>4, <3>5
  <2>10. ThreadsRead' /\ Replied'
    <3>1. calls'["REPLY"] = calls["REPLY"]
      BY <2>2 DEF Desk!Watchers
    <3> QED
      BY <2>2, <2>4, <2>8, <2>9, <3>1 DEF DeskInv, ThreadsRead, Replied
  <2>11. Desk!ThreadIsOfTicket'
    <3>1. CASE c.done /\ store'.view.content = c.got
      BY <2>3, <2>5, <2>9, <3>1 DEF Desk!ThreadIsOfTicket
    <3>2. CASE store'.view.content = store.view.content /\ ui' = ui
      BY <3>2 DEF DeskInv, Desk!ThreadIsOfTicket
    <3> QED
      BY <2>4, <3>1, <3>2
  <2>12. DeskSpinners'
    BY <2>2, <2>4 DEF DeskInv, DeskSpinners, Desk!SpinnerIsServed, Desk!Watchers
  <2> QED
    BY <2>6, <2>7, <2>10, <2>11, <2>12 DEF DeskInv
<1> QED
  BY <1>1, <1>2, <1>3

(* A reply is told: to the thread on show, of its window or not.           *)
LEMMA ReplyTold ==
  ASSUME DeskInv, Desk!postTicketReply
  PROVE  DeskInv'
<1>0. store \in DeskStore /\ ui \in DeskUi /\ DeskCalls
  BY DEF DeskInv, DeskTypes
<1>1. PICK c \in calls["REPLY"] :
        \/ /\ c.done
           /\ Desk!LIST_FETCH(Desk!REPLY_SUCCESS(store, c.got), Desk!Told("REPLY"))
           /\ ui' = [ui EXCEPT !.reply = IF c.mine THEN "clean" ELSE @,
                               !.stray = @ \/ ~c.mine]
        \/ /\ store' = Desk!REPLY_FAILED(store)
           /\ calls' = Desk!Told("REPLY")
           /\ ui' = ui
  BY DEF Desk!postTicketReply
<1>2. /\ Desk!Told("REPLY") = [v \in Desk!Watchers |-> Desk!Told("REPLY")[v]]
      /\ Desk!Told("REPLY")["REPLY"] = {}
      /\ \A v \in Desk!Watchers \ {"REPLY"} : Desk!Told("REPLY")[v] = calls[v]
      /\ \A v \in Desk!Watchers : /\ AtMostOne(Desk!Told("REPLY")[v])
                                  /\ Desk!Told("REPLY")[v] \subseteq DeskCall(v)
  BY <1>0, NoCallLeft DEF Desk!Watchers
<1>3. \A t \in Tickets : store.threads[t] \in Int
  BY <1>0 DEF DeskStore, ThreadLengths
<1>4. CASE /\ store' = Desk!REPLY_FAILED(store)
           /\ calls' = Desk!Told("REPLY") /\ ui' = ui
  <2>1. /\ store' \in DeskStore /\ store'.list = store.list /\ store'.create = store.create
        /\ store'.threads = store.threads /\ store'.view.ticketId = store.view.ticketId
        /\ store'.view.content = store.view.content /\ ~store'.view.replying
        /\ store'.view.loading = store.view.loading
        /\ store'.view.subjectLoading = store.view.subjectLoading
    BY ONLY <1>0, <1>4, ReplyReducers
  <2>2. DeskTypes'
    BY <1>2, <1>4, <2>1 DEF DeskInv, DeskTypes, DeskCalls
  <2>3. /\ calls'["REPLY"] = {}
        /\ \A v \in Desk!Watchers \ {"REPLY"} : calls'[v] = calls[v]
    BY <1>2, <1>4
  <2>4. Listed'
    BY <1>0, <1>3, <2>1, <2>3, ListedStays DEF DeskInv, Desk!Watchers
  <2>5. ThreadsRead' /\ Replied' /\ Desk!ThreadIsOfTicket'
    BY <1>0, <1>3, <1>4, <2>1, <2>3, ThreadStays DEF DeskInv, Desk!Watchers
  <2>6. DeskSpinners'
    BY <2>1, <2>3 DEF DeskInv, DeskSpinners, Desk!SpinnerIsServed, Desk!Watchers
  <2> QED
    BY <2>2, <2>4, <2>5, <2>6 DEF DeskInv
<1>5. CASE /\ c.done
           /\ Desk!LIST_FETCH(Desk!REPLY_SUCCESS(store, c.got), Desk!Told("REPLY"))
           /\ ui' = [ui EXCEPT !.reply = IF c.mine THEN "clean" ELSE @,
                               !.stray = @ \/ ~c.mine]
  <2>1. PICK e \in Tickets \X Nat :
          /\ e = c.got /\ e[1] = c.ticket /\ e[2] <= store.threads[c.ticket]
          /\ c.ticket \in Tickets
          /\ c.mine => /\ ui.ticket = c.ticket /\ ui.ticket # NoTicket
                       /\ calls["HISTORY"] = {}
          /\ (c.mine /\ ~ui.stray) =>
                \A i \in DOMAIN store.view.content : store.view.content[i][2] < e[2]
    BY <1>5 DEF DeskInv, Replied
  <2> DEFINE st == Desk!REPLY_SUCCESS(store, e)
  <2>2. /\ st \in DeskStore /\ st.list = store.list /\ st.create = store.create
        /\ st.threads = store.threads /\ st.view.ticketId = store.view.ticketId
        /\ st.view.content = Append(store.view.content, e) /\ ~st.view.replying
        /\ st.view.loading = store.view.loading
        /\ st.view.subjectLoading = store.view.subjectLoading
    BY <1>0, ReplyReducers
  <2>3. Desk!LIST_FETCH(st, Desk!Told("REPLY"))
    BY <1>5, <2>1
  <2> HIDE DEF st
  <2>4. /\ st.create.creatingSuccess => st.create.createdTicketId \in Desk!Exists
        /\ \A d \in Desk!Told("REPLY")["CREATE"] : d.done => d.ticket \in Desk!Exists
    BY <1>2, <2>2 DEF DeskInv, Listed, Desk!Watchers
  <2>5. /\ store' \in DeskStore /\ store'.view = st.view /\ store'.create = st.create
        /\ store'.threads = store.threads
        /\ DeskCalls' /\ calls'["LIST"] # {}
        /\ \A w \in Desk!Watchers \ {"LIST"} : calls'[w] = Desk!Told("REPLY")[w]
        /\ Listed'
    BY <1>0, <1>2, <2>2, <2>3, <2>4, ListingAskedFor
  <2>6. /\ calls'["REPLY"] = {} /\ calls'["HISTORY"] = calls["HISTORY"]
        /\ calls'["SUBJECT"] = calls["SUBJECT"] /\ calls'["CREATE"] = calls["CREATE"]
    BY <1>2, <2>5 DEF Desk!Watchers
  <2>7. /\ ui' \in DeskUi /\ ui'.ticket = ui.ticket /\ ui'.stray = (ui.stray \/ ~c.mine)
    <3>1. c.mine \in BOOLEAN
      BY <1>0 DEF DeskCalls, DeskCall, Desk!Watchers
    <3> QED
      BY <1>0, <1>5, <3>1 DEF DeskUi
  <2>8. DeskTypes'
    BY <2>2, <2>5, <2>7 DEF DeskInv, DeskTypes
  <2> DEFINE old == store.view.content
             new == store'.view.content
  <2>9. /\ new = Append(old, e) /\ Len(old) \in Nat
        /\ DOMAIN old = 1..Len(old) /\ DOMAIN new = 1..(Len(old) + 1)
        /\ \A i \in DOMAIN old : new[i] = old[i]
        /\ new[Len(old) + 1] = e
    <3>1. old \in Seq(Tickets \X Nat)
      BY <1>0 DEF DeskStore, TicketWindow, DeskThreads
    <3>2. new = Append(old, e)
      BY <2>2, <2>5
    <3> HIDE DEF old, new
    <3>3. /\ Len(old) \in Nat /\ DOMAIN old = 1..Len(old)
          /\ Len(new) = Len(old) + 1 /\ new \in Seq(Tickets \X Nat)
          /\ \A i \in 1..Len(old) : new[i] = old[i]
          /\ new[Len(old) + 1] = e
      BY <3>1, <3>2, AppendProperties, LenProperties
    <3>4. DOMAIN new = 1..Len(new)
      BY <3>3, LenProperties
    <3> QED
      BY <3>2, <3>3, <3>4
  <2>10. \A i \in DOMAIN old : old[i][1] \in Tickets /\ old[i][2] \in Int
    BY <1>0, EntriesTyped
  <2>11. \A i \in DOMAIN new : i \in DOMAIN old \/ i = Len(old) + 1
    BY <2>9
  <2>12. \A i \in DOMAIN new : new[i][2] <= store.threads[new[i][1]]
    <3>1. \A i \in DOMAIN old : old[i][2] <= store.threads[old[i][1]]
      BY DEF DeskInv, Replied
    <3> QED
      BY <2>1, <2>9, <2>11, <3>1
  <2>13. ThreadsRead' /\ Replied'
    BY <2>5, <2>6, <2>7, <2>12 DEF DeskInv, ThreadsRead, Replied
  <2>14. Desk!ThreadIsOfTicket'
    <3>1. SUFFICES ASSUME ui.ticket # NoTicket, ~ui.stray, c.mine
                   PROVE  /\ \A i \in DOMAIN new : new[i][1] = ui.ticket
                          /\ \A i, j \in DOMAIN new : i < j => new[i][2] < new[j][2]
      BY <2>7 DEF Desk!ThreadIsOfTicket
    <3>2. /\ \A i \in DOMAIN old : old[i][1] = ui.ticket
          /\ \A i, j \in DOMAIN old : i < j => old[i][2] < old[j][2]
      BY <3>1 DEF DeskInv, Desk!ThreadIsOfTicket
    <3>3. e[1] = ui.ticket /\ \A i \in DOMAIN old : old[i][2] < e[2]
      BY <2>1, <3>1
    <3> HIDE DEF old, new
    <3>4. \A i \in DOMAIN new : new[i][1] = ui.ticket
      BY <2>9, <2>11, <3>2, <3>3
    <3>5. ASSUME NEW i \in DOMAIN new, NEW j \in DOMAIN new, i < j
          PROVE  new[i][2] < new[j][2]
      <4>1. i \in DOMAIN old
        BY <2>9, <2>11, <3>5
      <4>2. CASE j \in DOMAIN old
        BY <2>9, <3>2, <3>5, <4>1, <4>2
      <4>3. CASE j = Len(old) + 1
        BY <2>9, <3>3, <4>1, <4>3
      <4> QED
        BY <2>11, <4>2, <4>3
    <3> QED
      BY <3>4, <3>5
  <2>15. DeskSpinners'
    BY <2>2, <2>5, <2>6 DEF DeskInv, DeskSpinners, Desk!SpinnerIsServed
  <2> QED
    BY <2>5, <2>8, <2>13, <2>14, <2>15 DEF DeskInv
<1> QED
  BY <1>1, <1>4, <1>5

(* What became of a new ticket is told.                                    *)
LEMMA TicketTold ==
  ASSUME DeskInv, Desk!postTicketCreate
  PROVE  DeskInv'
<1>0. store \in DeskStore /\ ui \in DeskUi /\ DeskCalls
  BY DEF DeskInv, DeskTypes
<1>1. PICK c \in calls["CREATE"] :
        \/ /\ c.done
           /\ Desk!LIST_FETCH(Desk!CREATE_SUCCESS(store, c.ticket), Desk!Told("CREATE"))
           /\ ui' = Desk!FeedbackButton([ui EXCEPT !.form = IF c.mine THEN "clean" ELSE @])
        \/ /\ store' = Desk!CREATE_FAILED(store)
           /\ calls' = Desk!Told("CREATE")
           /\ ui' = ui
  BY DEF Desk!postTicketCreate
<1>2. /\ Desk!Told("CREATE") = [v \in Desk!Watchers |-> Desk!Told("CREATE")[v]]
      /\ Desk!Told("CREATE")["CREATE"] = {}
      /\ \A v \in Desk!Watchers \ {"CREATE"} : Desk!Told("CREATE")[v] = calls[v]
      /\ \A v \in Desk!Watchers : /\ AtMostOne(Desk!Told("CREATE")[v])
                                  /\ Desk!Told("CREATE")[v] \subseteq DeskCall(v)
  BY <1>0, NoCallLeft DEF Desk!Watchers
<1>3. \A t \in Tickets : store.threads[t] \in Int
  BY <1>0 DEF DeskStore, ThreadLengths
<1>4. CASE /\ store' = Desk!CREATE_FAILED(store)
           /\ calls' = Desk!Told("CREATE") /\ ui' = ui
  <2>1. /\ store' \in DeskStore /\ store'.list = store.list /\ store'.view = store.view
        /\ store'.threads = store.threads /\ ~store'.create.creating
        /\ store'.create.creatingSuccess = store.create.creatingSuccess
        /\ store'.create.createdTicketId = store.create.createdTicketId
    BY ONLY <1>0, <1>4, CreateReducers
  <2>2. DeskTypes'
    BY <1>2, <1>4, <2>1 DEF DeskInv, DeskTypes, DeskCalls
  <2>3. /\ calls'["CREATE"] = {}
        /\ \A v \in Desk!Watchers \ {"CREATE"} : calls'[v] = calls[v]
    BY <1>2, <1>4
  <2>4. Listed'
    BY <1>0, <1>3, <2>1, <2>3, ListedStays DEF DeskInv, Desk!Watchers
  <2>5. ThreadsRead' /\ Replied' /\ Desk!ThreadIsOfTicket'
    BY <1>0, <1>3, <1>4, <2>1, <2>3, ThreadStays DEF DeskInv, Desk!Watchers
  <2>6. DeskSpinners'
    BY <2>1, <2>3 DEF DeskInv, DeskSpinners, Desk!SpinnerIsServed, Desk!Watchers
  <2> QED
    BY <2>2, <2>4, <2>5, <2>6 DEF DeskInv
<1>5. CASE /\ c.done
           /\ Desk!LIST_FETCH(Desk!CREATE_SUCCESS(store, c.ticket), Desk!Told("CREATE"))
           /\ ui' = Desk!FeedbackButton([ui EXCEPT !.form = IF c.mine THEN "clean" ELSE @])
  <2>1. PICK t \in Tickets : t = c.ticket /\ t \in Desk!Exists
    BY <1>5 DEF DeskInv, Listed, Desk!Exists
  <2> DEFINE st == Desk!CREATE_SUCCESS(store, t)
  <2>2. /\ st \in DeskStore /\ st.list = store.list /\ st.view = store.view
        /\ st.threads = store.threads
        /\ ~st.create.creating /\ st.create.createdTicketId = t
    BY <1>0, CreateReducers
  <2>3. Desk!LIST_FETCH(st, Desk!Told("CREATE"))
    BY <1>5, <2>1
  <2> HIDE DEF st
  <2>4. st.create.createdTicketId \in Desk!Exists /\ Desk!Told("CREATE")["CREATE"] = {}
    BY <1>2, <2>1, <2>2
  <2>5. /\ store' \in DeskStore /\ store'.view = st.view /\ store'.create = st.create
        /\ store'.threads = store.threads
        /\ DeskCalls' /\ calls'["LIST"] # {}
        /\ \A w \in Desk!Watchers \ {"LIST"} : calls'[w] = Desk!Told("CREATE")[w]
        /\ Listed'
    BY <1>0, <1>2, <2>2, <2>3, <2>4, ListingAskedFor
  <2>6. /\ calls'["REPLY"] = calls["REPLY"] /\ calls'["HISTORY"] = calls["HISTORY"]
        /\ calls'["SUBJECT"] = calls["SUBJECT"]
    BY <1>2, <2>5 DEF Desk!Watchers
  <2>7. /\ ui' \in DeskUi /\ ui'.ticket = ui.ticket /\ ui'.stray = ui.stray
        /\ ui'.reply = ui.reply
    BY <1>0, <1>5 DEF DeskUi, Desk!FeedbackButton
  <2>8. DeskTypes'
    BY <2>2, <2>5, <2>7 DEF DeskInv, DeskTypes
  <2>9. ThreadsRead' /\ Replied' /\ Desk!ThreadIsOfTicket'
    BY <1>0, <1>3, <2>2, <2>5, <2>6, <2>7, ThreadStays DEF DeskInv
  <2>10. DeskSpinners'
    BY <2>2, <2>5, <2>6 DEF DeskInv, DeskSpinners, Desk!SpinnerIsServed
  <2> QED
    BY <2>5, <2>8, <2>9, <2>10 DEF DeskInv
<1> QED
  BY <1>1, <1>4, <1>5

\* Opening the listing of the tickets keeps the invariant.
LEMMA TicketsOpened ==
  ASSUME DeskInv, Desk!TicketsView
  PROVE  DeskInv'
<1>0. store \in DeskStore /\ ui \in DeskUi /\ DeskCalls
  BY DEF DeskInv, DeskTypes
<1>1. \A t \in Tickets : store.threads[t] \in Int
  BY <1>0 DEF DeskStore, ThreadLengths
<1>2. /\ Desk!LIST_FETCH(store, calls) /\ ui' = ui
      /\ store.create.creatingSuccess => store.create.createdTicketId \in Desk!Exists
      /\ \A d \in calls["CREATE"] : d.done => d.ticket \in Desk!Exists
  BY DEF Desk!TicketsView, DeskInv, Listed
<1>3. /\ store' \in DeskStore /\ store'.view = store.view /\ store'.create = store.create
      /\ store'.threads = store.threads
      /\ DeskCalls' /\ calls'["LIST"] # {}
      /\ \A w \in Desk!Watchers \ {"LIST"} : calls'[w] = calls[w]
      /\ Listed'
  BY <1>0, <1>2, ListingAskedFor DEF DeskCalls
<1>4. DeskTypes'
  BY <1>2, <1>3 DEF DeskInv, DeskTypes
<1>5. ThreadsRead' /\ Replied' /\ Desk!ThreadIsOfTicket'
  BY <1>0, <1>1, <1>2, <1>3, ThreadStays DEF DeskInv, Desk!Watchers
<1>6. DeskSpinners'
  BY <1>3 DEF DeskInv, DeskSpinners, Desk!SpinnerIsServed, Desk!Watchers
<1> QED
  BY <1>3, <1>4, <1>5, <1>6 DEF DeskInv

(* The window of a ticket is opened.                                       *)
LEMMA WindowOpened ==
  ASSUME DeskInv, Desk!showDetailedView
  PROVE  DeskInv'
<1>0. store \in DeskStore /\ ui \in DeskUi /\ DeskCalls /\ ui.ticket = NoTicket
  BY DEF DeskInv, DeskTypes, Desk!showDetailedView
<1>1. PICK t \in Tickets :
        /\ store' = Desk!FETCH_STARTED(Desk!INIT_MODAL(store, t))
        /\ calls' = [calls EXCEPT !["SUBJECT"] = {Desk!Call(t)},
           !["HISTORY"] = {Desk!Call(t)}]
        /\ ui' = [ui EXCEPT !.ticket = t, !.reply = "clean", !.stray = FALSE]
  BY DEF Desk!showDetailedView
<1>2. LET r == Desk!INIT_MODAL(store, t) IN
        /\ r \in DeskStore /\ r.list = store.list /\ r.create = store.create
        /\ r.threads = store.threads
        /\ r.view.ticketId = t /\ r.view.content = <<>> /\ ~r.view.replying
  BY ONLY <1>0, t \in Tickets, TicketReducers
<1>3. /\ store' \in DeskStore /\ store'.list = store.list /\ store'.create = store.create
      /\ store'.threads = store.threads
      /\ store'.view.ticketId = t /\ store'.view.content = <<>>
      /\ ~store'.view.replying /\ store'.view.loading
  BY <1>1, <1>2, TicketReducers
<1>4. /\ \A w \in Desk!Watchers : Desk!Call(t) \in DeskCall(w)
      /\ Desk!Call(t).ticket = t /\ ~Desk!Call(t).done /\ AtMostOne({Desk!Call(t)})
  <2>1. t \in TicketOrNone
    BY DEF TicketOrNone
  <2> QED
    BY <2>1, CallSent DEF Desk!Watchers
<1>5. /\ calls' = [v \in Desk!Watchers |-> calls'[v]]
      /\ calls'["SUBJECT"] = {Desk!Call(t)} /\ calls'["HISTORY"] = {Desk!Call(t)}
      /\ \A v \in Desk!Watchers \ {"SUBJECT", "HISTORY"} : calls'[v] = calls[v]
  BY <1>0, <1>1 DEF DeskCalls, Desk!Watchers
<1>6. DeskCalls'
  BY <1>0, <1>4, <1>5 DEF DeskCalls
<1>7. ui' \in DeskUi /\ ui'.ticket = t
  BY <1>0, <1>1 DEF DeskUi, TicketOrNone
<1>8. DeskTypes'
  BY <1>3, <1>6, <1>7 DEF DeskTypes
<1>9. Listed'
  <2>1. \A u \in Tickets : store.threads[u] \in Int
    BY <1>0 DEF DeskStore, ThreadLengths
  <2> QED
    BY <1>0, <1>3, <1>5, <2>1, ListedStays DEF DeskInv, Desk!Watchers
<1>10. ThreadsRead'
  BY <1>4, <1>5, <1>7 DEF ThreadsRead
<1>11. \A c \in calls["REPLY"] : ~c.mine
  BY <1>0 DEF DeskInv, Replied
<1>12. calls'["REPLY"] = calls["REPLY"] /\ DOMAIN store'.view.content = {}
  BY <1>3, <1>5 DEF Desk!Watchers
<1>13. Replied' /\ Desk!ThreadIsOfTicket'
  BY <1>3, <1>11, <1>12 DEF DeskInv, Replied, Desk!ThreadIsOfTicket
<1>14. DeskSpinners'
  BY <1>3, <1>5 DEF DeskInv, DeskSpinners, Desk!SpinnerIsServed, Desk!Watchers
<1> QED
  BY <1>8, <1>9, <1>10, <1>13, <1>14 DEF DeskInv

(* The window of a ticket is closed: its reply is not its own any more.    *)
LEMMA WindowClosed ==
  ASSUME DeskInv, Desk!TicketModalClose
  PROVE  DeskInv'
<1>0. store \in DeskStore /\ ui \in DeskUi /\ DeskCalls
  BY DEF DeskInv, DeskTypes
<1>1. /\ ui' = [ui EXCEPT !.ticket = NoTicket] /\ store' = store
      /\ calls' = [calls EXCEPT !["REPLY"] = Desk!Forget("REPLY")]
  BY DEF Desk!TicketModalClose
<1>2. /\ AtMostOne(Desk!Forget("REPLY")) /\ Desk!Forget("REPLY") \subseteq DeskCall("REPLY")
      /\ \A d \in Desk!Forget("REPLY") : ~d.mine
      /\ \A d \in Desk!Forget("REPLY") : \E c \in calls["REPLY"] :
           d.ticket = c.ticket /\ d.got = c.got /\ d.done = c.done
      /\ calls["REPLY"] # {} => Desk!Forget("REPLY") # {}
  BY <1>0, CallsForgotten DEF Desk!Watchers
<1>3. /\ DeskCalls' /\ calls'["REPLY"] = Desk!Forget("REPLY")
      /\ \A v \in Desk!Watchers \ {"REPLY"} : calls'[v] = calls[v]
  BY <1>0, <1>1, <1>2, DeskCallsChange DEF Desk!Watchers
<1>4. ui' \in DeskUi /\ ui'.ticket = NoTicket
  BY <1>0, <1>1 DEF DeskUi, TicketOrNone
<1>5. DeskTypes'
  BY <1>1, <1>3, <1>4 DEF DeskInv, DeskTypes
<1>6. Listed'
  <2>1. \A u \in Tickets : store.threads[u] \in Int
    BY <1>0 DEF DeskStore, ThreadLengths
  <2> QED
    BY <1>0, <1>1, <1>3, <2>1, ListedStays DEF DeskInv, Desk!Watchers
<1>7. calls'["HISTORY"] = calls["HISTORY"]
  BY <1>3 DEF Desk!Watchers
<1>8. ThreadsRead' /\ Desk!ThreadIsOfTicket'
  BY <1>1, <1>4, <1>7 DEF DeskInv, ThreadsRead, Desk!ThreadIsOfTicket
<1>9. Replied'
  <2>1. ASSUME NEW d \in Desk!Forget("REPLY")
        PROVE  /\ d.ticket \in Tickets
               /\ d.done => /\ d.got \in Tickets \X Nat /\ d.got[1] = d.ticket
                            /\ d.got[2] <= store.threads[d.ticket]
    <3>1. PICK c \in calls["REPLY"] : d.ticket = c.ticket /\ d.got = c.got
          /\ d.done = c.done
      BY <1>2
    <3> QED
      BY <3>1 DEF DeskInv, Replied
  <2> QED
    BY <1>1, <1>2, <1>3, <2>1 DEF DeskInv, Replied
<1>10. DeskSpinners'
  BY <1>1, <1>2, <1>3 DEF DeskInv, DeskSpinners, Desk!SpinnerIsServed, Desk!Watchers
<1> QED
  BY <1>5, <1>6, <1>8, <1>9, <1>10 DEF DeskInv

(* A reply is sent: the thread on show has been read by then.              *)
LEMMA ReplySent ==
  ASSUME DeskInv, Desk!TicketHistoryReply
  PROVE  DeskInv'
<1>0. store \in DeskStore /\ ui \in DeskUi /\ DeskCalls
  BY DEF DeskInv, DeskTypes
<1>1. /\ ui.ticket # NoTicket /\ ~store.view.loading
      /\ store' = Desk!REPLY_STARTED(store)
      /\ calls' = [calls EXCEPT !["REPLY"] = {Desk!Call(ui.ticket)}]
      /\ ui' = [ui EXCEPT !.reply = "submitting"]
  BY DEF Desk!TicketHistoryReply, Desk!ReplyDisabled, Desk!Sent
<1>2. ui.ticket \in Tickets /\ ui.ticket \in TicketOrNone
  BY <1>0, <1>1 DEF DeskUi, TicketOrNone
<1>3. /\ store' \in DeskStore /\ store'.list = store.list /\ store'.create = store.create
      /\ store'.threads = store.threads
      /\ store'.view.ticketId = store.view.ticketId
      /\ store'.view.content = store.view.content
      /\ store'.view.loading = store.view.loading
      /\ store'.view.subjectLoading = store.view.subjectLoading
  BY ONLY <1>0, <1>1, ReplyReducers
<1> DEFINE d == Desk!Call(ui.ticket)
<1>4. /\ d \in DeskCall("REPLY") /\ d.ticket = ui.ticket /\ ~d.done /\ AtMostOne({d})
  BY <1>2, CallSent DEF Desk!Watchers
<1>5. calls' = [calls EXCEPT !["REPLY"] = {d}]
  BY <1>1
<1> HIDE DEF d
<1>6. /\ DeskCalls' /\ calls'["REPLY"] = {d}
      /\ \A v \in Desk!Watchers \ {"REPLY"} : calls'[v] = calls[v]
  BY <1>0, <1>4, <1>5, DeskCallsChange DEF Desk!Watchers
<1>7. /\ ui' \in DeskUi /\ ui'.ticket = ui.ticket /\ ui'.stray = ui.stray
      /\ ui'.reply = "submitting"
  BY <1>0, <1>1 DEF DeskUi
<1>8. DeskTypes'
  BY <1>3, <1>6, <1>7 DEF DeskInv, DeskTypes
<1>9. Listed'
  <2>1. \A u \in Tickets : store.threads[u] \in Int
    BY <1>0 DEF DeskStore, ThreadLengths
  <2> QED
    BY <1>0, <1>3, <1>6, <2>1, ListedStays DEF DeskInv, Desk!Watchers
<1>10. calls["HISTORY"] = {} /\ calls'["HISTORY"] = calls["HISTORY"]
  BY <1>1, <1>6 DEF DeskInv, DeskSpinners, Desk!Watchers
<1>11. ThreadsRead' /\ Desk!ThreadIsOfTicket'
  BY <1>3, <1>7, <1>10 DEF DeskInv, ThreadsRead, Desk!ThreadIsOfTicket
<1>12. Replied'
  BY <1>1, <1>2, <1>3, <1>4, <1>6, <1>7, <1>10 DEF DeskInv, Replied
<1>13. DeskSpinners'
  BY <1>3, <1>6, <1>10 DEF DeskInv, DeskSpinners, Desk!SpinnerIsServed, Desk!Watchers
<1> QED
  BY <1>8, <1>9, <1>11, <1>12, <1>13 DEF DeskInv

(* The windows for a new ticket are opened, closed and submitted.          *)
LEMMA NewTicketWindow ==
  ASSUME DeskInv,
         \/ Desk!openTicketModal \/ Desk!FeedbackModal \/ Desk!closeTicketModal
         \/ Desk!TicketCreateForm
  PROVE  DeskInv'
<1>0. store \in DeskStore /\ ui \in DeskUi /\ DeskCalls
  BY DEF DeskInv, DeskTypes
<1>1. /\ store' \in DeskStore /\ store'.list = store.list /\ store'.view = store.view
      /\ store'.threads = store.threads
      /\ store'.create.creatingSuccess =>
            /\ store.create.creatingSuccess
            /\ store'.create.createdTicketId = store.create.createdTicketId
      /\ store'.create.creating => store.create.creating \/ Desk!TicketCreateForm
  <2>1. CASE Desk!openTicketModal
    <3>1. store' = Desk!CREATE_INIT(store)
      BY <2>1 DEF Desk!openTicketModal
    <3> QED
      BY ONLY <1>0, <3>1, CreateReducers
  <2>2. CASE Desk!FeedbackModal \/ Desk!closeTicketModal
    BY <1>0, <2>2 DEF Desk!FeedbackModal, Desk!closeTicketModal
  <2>3. CASE Desk!TicketCreateForm
    <3>1. store' = Desk!CREATE_STARTED(store)
      BY <2>3 DEF Desk!TicketCreateForm
    <3> QED
      BY ONLY <1>0, <2>3, <3>1, CreateReducers
  <2> QED
    BY <2>1, <2>2, <2>3
<1>2. /\ ui' \in DeskUi /\ ui'.ticket = ui.ticket /\ ui'.stray = ui.stray
      /\ ui'.reply = ui.reply
  BY <1>0
  DEF DeskUi, Desk!openTicketModal, Desk!FeedbackModal, Desk!closeTicketModal,
      Desk!TicketCreateForm
<1>3. PICK S : /\ calls' = [calls EXCEPT !["CREATE"] = S]
               /\ AtMostOne(S) /\ S \subseteq DeskCall("CREATE")
               /\ \A d \in S : d.done => \E c \in calls["CREATE"] : c.done
                  /\ d.ticket = c.ticket
               /\ calls["CREATE"] # {} => S # {}
               /\ Desk!TicketCreateForm => S # {}
  <2>1. CASE Desk!TicketCreateForm
    <3>1. calls' = [calls EXCEPT !["CREATE"] = {Desk!Call(NoTicket)}]
      BY <2>1 DEF Desk!TicketCreateForm, Desk!Sent
    <3>2. /\ Desk!Call(NoTicket) \in DeskCall("CREATE") /\ ~Desk!Call(NoTicket).done
          /\ AtMostOne({Desk!Call(NoTicket)})
      BY CallSent DEF Desk!Watchers, TicketOrNone
    <3> QED
      BY <3>1, <3>2
  <2>2. CASE ~Desk!TicketCreateForm /\ (Desk!openTicketModal \/ Desk!closeTicketModal)
    <3>1. calls' = [calls EXCEPT !["CREATE"] = Desk!Forget("CREATE")]
      BY <2>2 DEF Desk!openTicketModal, Desk!closeTicketModal
    <3>2. /\ AtMostOne(Desk!Forget("CREATE"))
          /\ Desk!Forget("CREATE") \subseteq DeskCall("CREATE")
          /\ \A d \in Desk!Forget("CREATE") : \E c \in calls["CREATE"] :
               d.ticket = c.ticket /\ d.got = c.got /\ d.done = c.done
          /\ calls["CREATE"] # {} => Desk!Forget("CREATE") # {}
      BY <1>0, CallsForgotten DEF Desk!Watchers
    <3> QED
      BY <2>2, <3>1, <3>2
  <2>3. CASE ~Desk!TicketCreateForm /\ Desk!FeedbackModal
    <3>1. /\ calls' = calls /\ calls = [w \in Desk!Watchers |-> calls[w]]
          /\ AtMostOne(calls["CREATE"]) /\ calls["CREATE"] \subseteq DeskCall("CREATE")
      BY <1>0, <2>3 DEF Desk!FeedbackModal, DeskCalls, Desk!Watchers
    <3>2. calls' = [calls EXCEPT !["CREATE"] = calls["CREATE"]]
      BY <3>1
    <3> QED
      BY <2>3, <3>1, <3>2
  <2> QED
    BY <2>1, <2>2, <2>3
<1>4. /\ DeskCalls' /\ calls'["CREATE"] = S
      /\ \A v \in Desk!Watchers \ {"CREATE"} : calls'[v] = calls[v]
  BY <1>0, <1>3, DeskCallsChange DEF Desk!Watchers
<1>5. DeskTypes'
  BY <1>1, <1>2, <1>4 DEF DeskInv, DeskTypes
<1>6. \A u \in Tickets : store.threads[u] \in Int
  BY <1>0 DEF DeskStore, ThreadLengths
<1>7. Listed'
  BY <1>0, <1>1, <1>3, <1>4, <1>6, ListedStays DEF DeskInv, Desk!Watchers
<1>8. ThreadsRead' /\ Replied' /\ Desk!ThreadIsOfTicket'
  BY <1>0, <1>1, <1>2, <1>4, <1>6, ThreadStays DEF DeskInv, Desk!Watchers
<1>9. DeskSpinners'
  BY <1>1, <1>3, <1>4 DEF DeskInv, DeskSpinners, Desk!SpinnerIsServed, Desk!Watchers
<1> QED
  BY <1>5, <1>7, <1>8, <1>9 DEF DeskInv

\* Every window, saga and change on the server keeps it.
LEMMA DeskStep ==
  ASSUME DeskInv, [Desk!Next]_<<store, calls, ui, alive>>
  PROVE  DeskInv'
<1>1. CASE UNCHANGED <<store, calls, ui, alive>>
  BY <1>1
  DEF DeskInv, DeskTypes, DeskCalls, Listed, Desk!CreatedIsListed, Desk!Exists, ThreadsRead,
      Replied, Desk!ThreadIsOfTicket, DeskSpinners, Desk!SpinnerIsServed
<1> QED
  BY <1>1, PortalWrites, PortalReads, ReadingsTold, ReplyTold, TicketTold, TicketsOpened,
     WindowOpened, WindowClosed, ReplySent, NewTicketWindow
  DEF Desk!Next

\* What it says of types, spinners, the thread on show and created tickets.
LEMMA DeskHolds ==
  ASSUME DeskInv
  PROVE  /\ Desk!TypeOK /\ Desk!SpinnerIsServed
         /\ Desk!ThreadIsOfTicket /\ Desk!CreatedIsListed
<1>1. store \in DeskStore /\ DeskCalls
  BY DEF DeskInv, DeskTypes
<1>2. /\ store.threads \in ThreadLengths
      /\ store.view.ticketId \in TicketOrNone /\ store.view.subject \in TicketOrNone
  BY <1>1 DEF DeskStore, TicketWindow
<1>3. \A w \in Desk!Watchers : Desk!Cardinality(calls[w]) <= 1
  BY <1>1, OneAtMost DEF DeskCalls, Desk!Cardinality, Cardinality
<1>4. /\ store.list.content \subseteq Desk!Exists
      /\ ui.ticket # NoTicket => store.view.ticketId = ui.ticket
  BY DEF DeskInv, DeskTypes, Listed
<1>5. Desk!TypeOK
  BY ONLY <1>2, <1>3, <1>4 DEF Desk!TypeOK, ThreadLengths, TicketOrNone
<1> QED
  BY <1>5 DEF DeskInv, Listed, DeskSpinners
-----------------------------------------------------------------------------
(* The account page.                                                       *)

AccountStore ==
  [isLoading : BOOLEAN, checkingPassword : BOOLEAN, editing : BOOLEAN,
   success : SUBSET Account!Windows, errors : SUBSET Account!Watchers,
   fields : BOOLEAN, modal : Account!Windows \cup {Nothing}]

AccountTypes ==
  /\ store \in AccountStore
  /\ calls \subseteq Account!Watchers
  /\ ui \in [page : BOOLEAN, reload : BOOLEAN]
  /\ store.modal # Nothing => ui.page

(* A form that waits for its answer has been told nothing yet; the one for *)
(* the password may still show an error.                                   *)
Unanswered ==
  /\ "required" \in calls => "required" \notin store.success \cup store.errors
  /\ "password" \in calls => "password" \notin store.success

AccountInv ==
  AccountTypes /\ Account!SpinnerIsServed /\ Unanswered /\ Account!OneVerdict

(* What the reducers of the profile make of a state.                       *)
LEMMA ProfileReducers ==
  ASSUME NEW st \in AccountStore
  PROVE  /\ LET r == Account!ADD_DATA(st) IN
              r \in AccountStore /\ ~r.isLoading /\ r.editing = st.editing
              /\ r.checkingPassword = st.checkingPassword /\ r.modal = st.modal
              /\ r.success = st.success /\ r.errors = st.errors
         /\ LET r == Account!ADD_DATA_ERROR(st) IN
              r \in AccountStore /\ ~r.isLoading /\ r.editing = st.editing
              /\ r.checkingPassword = st.checkingPassword /\ r.modal = st.modal
              /\ r.success = st.success /\ r.errors = st.errors \cup {"data"}
         /\ LET r == Account!POPULATE_FIELDS(st) IN
              r \in AccountStore /\ r.isLoading = st.isLoading /\ r.editing = st.editing
              /\ r.checkingPassword = st.checkingPassword /\ r.modal = st.modal
              /\ r.success = st.success /\ r.errors = st.errors \ {"fields"}
         /\ LET r == Account!POPULATE_FIELDS_ERROR(st) IN
              r \in AccountStore /\ r.isLoading = st.isLoading /\ r.editing = st.editing
              /\ r.checkingPassword = st.checkingPassword /\ r.modal = st.modal
              /\ r.success = st.success /\ r.errors = st.errors \cup {"fields"}
BY DEF AccountStore, Account!ADD_DATA, Account!ADD_DATA_ERROR, Account!POPULATE_FIELDS,
       Account!POPULATE_FIELDS_ERROR, Account!Watchers

(* The reducers of the windows.                                            *)
LEMMA WindowReducers ==
  ASSUME NEW st \in AccountStore, NEW w \in Account!Windows
  PROVE  /\ LET r == Account!OPEN_PROFILE_MODAL(st, w) IN
              r \in AccountStore /\ r.isLoading = st.isLoading /\ r.editing = st.editing
              /\ r.checkingPassword = st.checkingPassword
              /\ r.success = st.success /\ r.errors = st.errors
         /\ LET r == Account!CLEAR_FORM_MESSAGES(st) IN
              r \in AccountStore /\ r.isLoading = st.isLoading /\ r.editing = st.editing
              /\ r.checkingPassword = st.checkingPassword /\ r.modal = st.modal
              /\ r.success = {} /\ r.errors = {}
         /\ LET r == Account!CLOSE_PROFILE_MODAL(st) IN
              r \in AccountStore /\ r.isLoading = st.isLoading /\ r.editing = st.editing
              /\ r.checkingPassword = st.checkingPassword /\ r.modal = Nothing
              /\ r.success = {} /\ r.errors = {}
         /\ LET r == Account!LOAD_PROFILE_DATA(st) IN
              r \in AccountStore /\ r.editing = st.editing
              /\ r.checkingPassword = st.checkingPassword /\ r.modal = st.modal
              /\ r.success = st.success /\ r.errors = st.errors \ {"data"}
BY DEF AccountStore, Account!OPEN_PROFILE_MODAL, Account!CLEAR_FORM_MESSAGES,
       Account!CLOSE_PROFILE_MODAL, Account!LOAD_PROFILE_DATA

(* The reducers of the edits.                                              *)
LEMMA EditReducers ==
  ASSUME NEW st \in AccountStore, NEW w \in Account!Windows
  PROVE  /\ LET r == Account!EDITING_INFORMATION(st) IN
              r \in AccountStore /\ r.isLoading = st.isLoading
              /\ r.checkingPassword = st.checkingPassword /\ r.modal = st.modal
              /\ r.success = st.success /\ r.errors = st.errors
         /\ LET r == Account!EDIT_INFORMATION_SUCCESS(st, w) IN
              r \in AccountStore /\ r.isLoading = st.isLoading /\ ~r.editing
              /\ r.checkingPassword = st.checkingPassword /\ r.modal = st.modal
              /\ r.success = st.success \cup {w} /\ r.errors = st.errors
         /\ LET r == Account!EDIT_INFORMATION_ERROR(st, w) IN
              r \in AccountStore /\ r.isLoading = st.isLoading /\ ~r.editing
              /\ r.checkingPassword = st.checkingPassword /\ r.modal = st.modal
              /\ r.success = st.success /\ r.errors = st.errors \cup {w}
BY DEF AccountStore, Account!EDITING_INFORMATION, Account!EDIT_INFORMATION_SUCCESS,
       Account!EDIT_INFORMATION_ERROR, Account!Watchers

(* The reducers of the password.                                           *)
LEMMA PasswordReducers ==
  ASSUME NEW st \in AccountStore
  PROVE  /\ LET r == Account!CHECKING_PASSWORD(st) IN
              r \in AccountStore /\ r.isLoading = st.isLoading /\ r.editing = st.editing
              /\ r.modal = st.modal
              /\ r.success = st.success \ {"password"} /\ r.errors = st.errors
         /\ LET r == Account!CHECKED_PASSWORD(st) IN
              r \in AccountStore /\ r.isLoading = st.isLoading /\ r.editing = st.editing
              /\ ~r.checkingPassword /\ r.modal = st.modal
              /\ r.success = st.success /\ r.errors = st.errors \ {"password"}
         /\ LET r == Account!CHANGED_PASSWORD(st) IN
              r \in AccountStore /\ r.isLoading = st.isLoading /\ r.editing = st.editing
              /\ r.checkingPassword = st.checkingPassword /\ r.modal = st.modal
              /\ r.success = st.success \cup {"password"} /\ r.errors = st.errors
         /\ LET r == Account!PASSWORD_ERROR(st) IN
              r \in AccountStore /\ r.isLoading = st.isLoading /\ r.editing = st.editing
              /\ r.checkingPassword = st.checkingPassword /\ r.modal = st.modal
              /\ r.success = st.success /\ r.errors = st.errors \cup {"password"}
BY DEF AccountStore, Account!CHECKING_PASSWORD, Account!CHECKED_PASSWORD,
       Account!CHANGED_PASSWORD, Account!PASSWORD_ERROR, Account!Windows, Account!Watchers

\* The account page is opened in its invariant.
LEMMA AccountStart == Account!Init => AccountInv
BY DEF Account!Init, Account!initialState, AccountInv, AccountTypes, AccountStore,
       Account!SpinnerIsServed, Unanswered, Account!OneVerdict, Account!Watchers

\* Every saga and every window of the account page keeps it.
LEMMA AccountStep ==
  ASSUME AccountInv, [Account!Next]_<<store, calls, ui, alive>>
  PROVE  AccountInv'
<1> USE DEF AccountInv, AccountTypes, Account!SpinnerIsServed, Unanswered,
            Account!OneVerdict, Account!Windows, Account!Watchers
<1>1. CASE Account!getProfileData
  <2>1. /\ store' \in AccountStore /\ ~store'.isLoading /\ store'.editing = store.editing
        /\ store'.checkingPassword = store.checkingPassword /\ store'.modal = store.modal
        /\ store'.success = store.success
        /\ store'.errors \subseteq store.errors \cup {"data"}
    BY <1>1, ProfileReducers DEF Account!getProfileData
  <2>2. store'.success \cap store'.errors \subseteq store.success \cap store.errors
    BY <2>1 DEF AccountStore
  <2>3. Account!OneVerdict'
    BY <2>2
  <2>4. Unanswered'
    BY <1>1, <2>1 DEF Account!getProfileData
  <2>5. AccountTypes' /\ Account!SpinnerIsServed'
    BY <1>1, <2>1 DEF Account!getProfileData
  <2> QED
    BY <2>3, <2>4, <2>5
<1>2. CASE Account!getFormFields
  <2>1. /\ store' \in AccountStore /\ store'.isLoading = store.isLoading
        /\ store'.checkingPassword = store.checkingPassword /\ store'.modal = store.modal
        /\ store'.editing = store.editing /\ store'.success = store.success
        /\ store'.errors \subseteq store.errors \cup {"fields"}
    BY <1>2, ProfileReducers DEF Account!getFormFields
  <2>2. store'.success \cap store'.errors \subseteq store.success \cap store.errors
    BY <2>1 DEF AccountStore
  <2>3. Account!OneVerdict'
    BY <2>2
  <2>4. Unanswered'
    BY <1>2, <2>1 DEF Account!getFormFields
  <2>5. AccountTypes' /\ Account!SpinnerIsServed'
    BY <1>2, <2>1 DEF Account!getFormFields
  <2> QED
    BY <2>3, <2>4, <2>5
<1>3. CASE Account!editInformation
  BY <1>3, EditReducers DEF Account!editInformation
<1>4. CASE Account!changePassword
  BY <1>4, PasswordReducers DEF Account!changePassword
<1>5. CASE Account!ManageAccountView
  BY <1>5 DEF Account!ManageAccountView
<1>6. CASE \E w \in Account!Windows : Account!openModal(w)
  BY <1>6, WindowReducers DEF Account!openModal, Account!Shown
<1>7. CASE \E w \in Account!Windows : Account!closeModal(w)
  BY <1>7, WindowReducers DEF Account!closeModal, Account!Shown
<1>8. CASE Account!EditRequiredInformationForm
  BY <1>8, EditReducers, WindowReducers DEF Account!EditRequiredInformationForm
<1>9. CASE Account!EditOptionalInformationForm
  BY <1>9, EditReducers DEF Account!EditOptionalInformationForm
<1>10. CASE Account!ChangePasswordForm
  BY <1>10, PasswordReducers DEF Account!ChangePasswordForm
<1>11. CASE UNCHANGED <<store, calls, ui, alive>>
  BY <1>11
<1> QED
  BY <1>1, <1>2, <1>3, <1>4, <1>5, <1>6, <1>7, <1>8, <1>9, <1>10, <1>11
  DEF Account!Next, Account!RequiredInformation, Account!OptionalInformation,
      Account!ChangePassword, Account!EditRequiredInformationModal,
      Account!EditOptionalInformationModal, Account!ChangePasswordModal

\* What it says of types, spinners and verdicts.
LEMMA AccountHolds ==
  ASSUME AccountInv
  PROVE  Account!TypeOK /\ Account!SpinnerIsServed /\ Account!OneVerdict
<1>1. /\ store.success \subseteq Account!Windows /\ store.errors \subseteq Account!Watchers
      /\ store.modal \in Account!Windows \cup {Nothing}
  BY DEF AccountInv, AccountTypes, AccountStore
<1> QED
  BY <1>1 DEF AccountInv, AccountTypes, Account!TypeOK
-----------------------------------------------------------------------------
(* The shared workspaces.                                                  *)

SharedListing == [of : Queries \cup {Nothing}, loading : BOOLEAN, error : BOOLEAN]
Changes == {"create", "member", "titleDescription"}
SharedOperation ==
  [name : Changes \cup {"none"}, loading : BOOLEAN, error : BOOLEAN]
SharedMetadata ==
  [project : Workspaces \cup {Nothing}, loading : BOOLEAN, error : BOOLEAN]

SharedStore ==
  [listing : SharedListing, operation : SharedOperation, metadata : SharedMetadata,
   modals : SUBSET Shared!Modals]

SharedUi ==
  [page : Workspaces \cup {"list", "away"}, query : Queries, crossed : BOOLEAN,
   relisted : BOOLEAN]

(* What the calls of each saga are about.                                  *)
SharedAbout ==
  [listing |-> Queries, metadata |-> Workspaces, create |-> {Nothing},
   member |-> Workspaces \cup {Nothing}, titleDescription |-> Workspaces \cup {Nothing}]

SharedCalls ==
  /\ calls = [w \in Shared!Watchers |-> calls[w]]
  /\ \A w \in Shared!Watchers : AtMostOne(calls[w]) /\ calls[w] \subseteq SharedAbout[w]

SharedTypes == store \in SharedStore /\ SharedCalls /\ ui \in SharedUi

(* What is asked for on a page is about that page, and the listing asked   *)
(* for is the search in its bar, unless a change listed everything.        *)
AskedForPage ==
  /\ ui.page \in Workspaces => calls["metadata"] \subseteq {ui.page}
  /\ (ui.page = "list" /\ ~ui.relisted) => calls["listing"] \subseteq {ui.query}

SharedSpinners ==
  /\ Shared!SpinnerIsServed
  /\ store.operation.loading => store.operation.name \in Changes

SharedInv ==
  SharedTypes /\ AskedForPage /\ SharedSpinners /\ Shared!ProjectIsOfPage

(* What the reducers of the listing and of the metadata make of a state.   *)
LEMMA SharedReducers ==
  ASSUME NEW st \in SharedStore
  PROVE  /\ LET r == Shared!GET_LISTING_STARTED(st) IN
              /\ r \in SharedStore /\ r.operation = st.operation
              /\ r.metadata = st.metadata /\ r.modals = st.modals
              /\ r.listing.loading
         /\ \A q \in Queries : LET r == Shared!GET_LISTING_SUCCESS(st, q) IN
              /\ r \in SharedStore /\ r.operation = st.operation
              /\ r.metadata = st.metadata /\ r.modals = st.modals
              /\ ~r.listing.loading /\ r.listing.of = q
         /\ LET r == Shared!GET_LISTING_ERROR(st) IN
              /\ r \in SharedStore /\ r.operation = st.operation
              /\ r.metadata = st.metadata /\ r.modals = st.modals
              /\ ~r.listing.loading /\ r.listing.error
         /\ LET r == Shared!GET_METADATA_STARTED(st) IN
              /\ r \in SharedStore /\ r.operation = st.operation
              /\ r.listing = st.listing /\ r.modals = st.modals
              /\ r.metadata.loading
         /\ \A p \in Workspaces : LET r == Shared!GET_METADATA_SUCCESS(st, p) IN
              /\ r \in SharedStore /\ r.operation = st.operation
              /\ r.listing = st.listing /\ r.modals = st.modals
              /\ ~r.metadata.loading /\ r.metadata.project = p
         /\ LET r == Shared!GET_METADATA_FAILED(st) IN
              /\ r \in SharedStore /\ r.operation = st.operation
              /\ r.listing = st.listing /\ r.modals = st.modals
              /\ ~r.metadata.loading /\ r.metadata.error
BY DEF SharedStore, SharedListing, SharedMetadata, Shared!GET_LISTING_STARTED,
       Shared!GET_LISTING_SUCCESS, Shared!GET_LISTING_ERROR, Shared!GET_METADATA_STARTED,
       Shared!GET_METADATA_SUCCESS, Shared!GET_METADATA_FAILED, Shared!Metadata

(* Those of an operation and of the windows.                               *)
LEMMA OperationReducers ==
  ASSUME NEW st \in SharedStore
  PROVE  /\ \A w \in Changes : LET r == Shared!STARTED(st, w) IN
              /\ r \in SharedStore /\ r.listing = st.listing
              /\ r.metadata = st.metadata /\ r.modals = st.modals
              /\ r.operation.name = w
         /\ \A w \in Changes : LET r == Shared!SUCCESS(st, w) IN
              /\ r \in SharedStore /\ r.listing = st.listing
              /\ r.metadata = st.metadata /\ r.modals = st.modals
              /\ ~r.operation.loading
         /\ \A w \in Changes : LET r == Shared!FAILED(st, w) IN
              /\ r \in SharedStore /\ r.listing = st.listing
              /\ r.metadata = st.metadata /\ r.modals = st.modals
              /\ ~r.operation.loading
         /\ LET r == Shared!CLEAR_OPERATION(st) IN
              /\ r \in SharedStore /\ r.listing = st.listing
              /\ r.metadata = st.metadata /\ r.modals = st.modals
              /\ ~r.operation.loading
BY DEF SharedStore, SharedOperation, Shared!STARTED, Shared!SUCCESS, Shared!FAILED,
       Shared!CLEAR_OPERATION, Shared!initialState

\* A window opens or closes, and nothing else of the slice changes.
LEMMA ModalToggled ==
  ASSUME NEW st \in SharedStore, NEW m \in Shared!Modals
  PROVE  LET r == Shared!TOGGLE_MODAL(st, m) IN
           /\ r \in SharedStore /\ r.listing = st.listing
           /\ r.metadata = st.metadata /\ r.operation = st.operation
<1> DEFINE modals == IF m \in st.modals THEN st.modals \ {m} ELSE st.modals \cup {m}
<1>1. Shared!TOGGLE_MODAL(st, m) = [st EXCEPT !.modals = modals]
  BY DEF Shared!TOGGLE_MODAL
<1>2. modals \in SUBSET Shared!Modals
  <2>1. st.modals \in SUBSET Shared!Modals
    BY DEF SharedStore
  <2> QED
    BY <2>1
<1> HIDE DEF modals
<1> QED
  BY <1>1, <1>2 DEF SharedStore

(* One kind of calls changes.                                              *)
LEMMA SharedCallsChange ==
  ASSUME NEW w \in Shared!Watchers, NEW S, SharedCalls, calls' = [calls EXCEPT ![w] = S],
         AtMostOne(S), S \subseteq SharedAbout[w]
  PROVE  /\ SharedCalls' /\ calls'[w] = S
         /\ \A v \in Shared!Watchers \ {w} : calls'[v] = calls[v]
<1>1. /\ calls' = [v \in Shared!Watchers |-> calls'[v]] /\ calls'[w] = S
      /\ \A v \in Shared!Watchers \ {w} : calls'[v] = calls[v]
  BY DEF SharedCalls
<1> QED
  BY <1>1 DEF SharedCalls

\* A call is answered, and the calls of the other sagas stay.
LEMMA SharedCallClosed ==
  ASSUME NEW w \in Shared!Watchers, SharedCalls, calls' = [calls EXCEPT ![w] = {}]
  PROVE  /\ SharedCalls' /\ calls'[w] = {}
         /\ \A v \in Shared!Watchers \ {w} : calls'[v] = calls[v]
<1>1. AtMostOne({}) /\ {} \subseteq SharedAbout[w]
  BY DEF AtMostOne
<1> QED
  BY <1>1, SharedCallsChange

\* The pages of the workspaces are opened in their invariant.
LEMMA SharedStart == ASSUME Shared!Init PROVE SharedInv
<1>1. Shared!initialState \in SharedStore
  BY DEF Shared!initialState, SharedStore, SharedListing, SharedOperation, SharedMetadata
<1>2. /\ store \in SharedStore
      /\ store.operation = Shared!initialState.operation
      /\ store.metadata = Shared!initialState.metadata
      /\ ~store.listing.loading
  BY <1>1, SharedReducers DEF Shared!Init
<1>3. ~store.operation.loading /\ ~store.metadata.loading
  BY <1>2 DEF Shared!initialState
<1>4. ui \in SharedUi /\ ui.page = "away" /\ "away" \notin Workspaces
  BY WorkbenchAssumption DEF Shared!Init, SharedUi, Shared!PagesAssumption
<1>5. SharedCalls /\ \A w \in Shared!Watchers : calls[w] = {}
  BY DEF Shared!Init, SharedCalls, AtMostOne
<1> QED
  BY <1>2, <1>3, <1>4, <1>5
  DEF SharedInv, SharedTypes, AskedForPage, SharedSpinners, Shared!SpinnerIsServed,
      Shared!ProjectIsOfPage, Shared!Watchers

(* The listing or the metadata is told.                                    *)
LEMMA SharedReadingsTold ==
  ASSUME SharedInv, Shared!getProjectsListing \/ Shared!getMetadata
  PROVE  SharedInv'
<1>0. store \in SharedStore /\ SharedCalls /\ ui \in SharedUi
  BY DEF SharedInv, SharedTypes
<1>1. CASE Shared!getProjectsListing
  <2>1. PICK q \in calls["listing"] :
          /\ \/ store' = Shared!GET_LISTING_SUCCESS(store, q)
             \/ store' = Shared!GET_LISTING_ERROR(store)
          /\ calls' = [calls EXCEPT !["listing"] = {}]
          /\ ui' = ui
    BY <1>1 DEF Shared!getProjectsListing
  <2>2. q \in Queries
    BY <1>0 DEF SharedCalls, SharedAbout, Shared!Watchers
  <2>3. /\ store' \in SharedStore /\ store'.operation = store.operation
        /\ store'.metadata = store.metadata /\ ~store'.listing.loading
        /\ store'.listing.of = q \/ store'.listing.error
    BY <1>0, <2>1, <2>2, SharedReducers
  <2>4. /\ SharedCalls' /\ calls'["listing"] = {}
        /\ \A v \in Shared!Watchers \ {"listing"} : calls'[v] = calls[v]
    BY <1>0, <2>1, SharedCallClosed DEF Shared!Watchers
  <2>5. SharedTypes' /\ AskedForPage' /\ SharedSpinners'
    <3>1. calls'["metadata"] = calls["metadata"]
      BY <2>4 DEF Shared!Watchers
    <3>2. SharedTypes' /\ AskedForPage'
      BY <1>0, <2>1, <2>3, <2>4, <3>1 DEF SharedInv, SharedTypes, AskedForPage
    <3>3. SharedSpinners'
      BY <2>1, <2>3, <2>4, <3>1
      DEF SharedInv, SharedSpinners, Shared!SpinnerIsServed, Shared!Watchers, Changes
    <3> QED
      BY <3>2, <3>3
  <2>6. Shared!ProjectIsOfPage'
    BY <2>1, <2>3 DEF SharedInv, AskedForPage, Shared!ProjectIsOfPage, Shared!Ready
  <2> QED
    BY <2>5, <2>6 DEF SharedInv
<1>2. CASE Shared!getMetadata
  <2>1. PICK p \in calls["metadata"] :
          /\ \/ store' = Shared!GET_METADATA_SUCCESS(store, p)
             \/ store' = Shared!GET_METADATA_FAILED(store)
          /\ calls' = [calls EXCEPT !["metadata"] = calls["metadata"] \ {p}]
          /\ ui' = [ui EXCEPT !.crossed = FALSE]
    BY <1>2 DEF Shared!getMetadata
  <2>2. /\ p \in Workspaces /\ calls["metadata"] \ {p} = {}
        /\ ui.page \in Workspaces => p = ui.page
    BY <1>0 DEF SharedInv, AskedForPage, SharedCalls, SharedAbout, AtMostOne,
       Shared!Watchers
  <2>3. /\ store' \in SharedStore /\ store'.operation = store.operation
        /\ store'.listing = store.listing /\ ~store'.metadata.loading
        /\ store'.metadata.project = p \/ store'.metadata.error
    BY <1>0, <2>1, <2>2, SharedReducers
  <2>4. /\ SharedCalls' /\ calls'["metadata"] = {}
        /\ \A v \in Shared!Watchers \ {"metadata"} : calls'[v] = calls[v]
    BY <1>0, <2>1, <2>2, SharedCallClosed DEF Shared!Watchers
  <2>5. ui' \in SharedUi /\ ui'.page = ui.page /\ ui'.query = ui.query
        /\ ui'.relisted = ui.relisted
    BY <1>0, <2>1 DEF SharedUi
  <2>6. SharedTypes' /\ AskedForPage' /\ SharedSpinners'
    <3>1. calls'["listing"] = calls["listing"]
      BY <2>4 DEF Shared!Watchers
    <3>2. SharedTypes' /\ AskedForPage'
      BY <2>3, <2>4, <2>5, <3>1 DEF SharedInv, SharedTypes, AskedForPage
    <3>3. SharedSpinners'
      BY <2>3, <2>4, <3>1
      DEF SharedInv, SharedSpinners, Shared!SpinnerIsServed, Shared!Watchers, Changes
    <3> QED
      BY <3>2, <3>3
  <2>7. Shared!ProjectIsOfPage'
    BY <2>2, <2>3, <2>5 DEF SharedInv, Shared!ProjectIsOfPage, Shared!Ready
  <2> QED
    BY <2>6, <2>7 DEF SharedInv
<1> QED
  BY <1>1, <1>2

(* A change of the team or of the title is told, on whatever page.         *)
LEMMA ChangeTold ==
  ASSUME SharedInv, NEW w \in {"member", "titleDescription"}, NEW st \in SharedStore,
         st.listing = store.listing, st.operation = store.operation,
         st.metadata = store.metadata, Shared!changeTold(w, st)
  PROVE  SharedInv'
<1>0. store \in SharedStore /\ SharedCalls /\ ui \in SharedUi
  BY DEF SharedInv, SharedTypes
<1>1. PICK p \in calls[w] :
        \/ /\ p # Nothing
           /\ store' = Shared!GET_LISTING_STARTED(
                           Shared!SUCCESS(Shared!GET_METADATA_SUCCESS(st, p), w))
           /\ calls' = [[calls EXCEPT ![w] = {}] EXCEPT !["listing"] = {"all"}]
           /\ ui' = [ui EXCEPT !.crossed = p # ui.page, !.relisted = TRUE]
        \/ /\ store' = Shared!FAILED(store, w)
           /\ calls' = [calls EXCEPT ![w] = {}]
           /\ ui' = ui
  BY DEF Shared!changeTold, Shared!GET_LISTING
<1>2. p \in Workspaces \cup {Nothing} /\ w \in Shared!Watchers /\ w \in Changes
  BY <1>0 DEF SharedCalls, SharedAbout, Shared!Watchers, Changes
<1>3. CASE /\ store' = Shared!FAILED(store, w)
           /\ calls' = [calls EXCEPT ![w] = {}]
           /\ ui' = ui
  <2>1. /\ store' \in SharedStore /\ store'.listing = store.listing
        /\ store'.metadata = store.metadata /\ ~store'.operation.loading
    BY <1>0, <1>2, <1>3, OperationReducers
  <2>2. /\ SharedCalls' /\ calls'["listing"] = calls["listing"]
        /\ calls'["metadata"] = calls["metadata"]
    BY <1>0, <1>2, <1>3, SharedCallClosed DEF Shared!Watchers
  <2> QED
    BY <1>3, <2>1, <2>2
    DEF SharedInv, SharedTypes, AskedForPage, SharedSpinners, Shared!SpinnerIsServed,
        Shared!ProjectIsOfPage, Shared!Ready
<1>4. CASE /\ p # Nothing
           /\ store' = Shared!GET_LISTING_STARTED(
                           Shared!SUCCESS(Shared!GET_METADATA_SUCCESS(st, p), w))
           /\ calls' = [[calls EXCEPT ![w] = {}] EXCEPT !["listing"] = {"all"}]
           /\ ui' = [ui EXCEPT !.crossed = p # ui.page, !.relisted = TRUE]
  <2>1. p \in Workspaces
    BY <1>2, <1>4
  <2>2. LET r == Shared!GET_METADATA_SUCCESS(st, p) IN
          r \in SharedStore /\ ~r.metadata.loading /\ r.metadata.project = p
    BY <2>1, SharedReducers
  <2>3. LET r == Shared!SUCCESS(Shared!GET_METADATA_SUCCESS(st, p), w) IN
          /\ r \in SharedStore /\ ~r.metadata.loading /\ r.metadata.project = p
          /\ ~r.operation.loading
    BY <1>2, <2>2, OperationReducers
  <2>4. /\ store' \in SharedStore /\ ~store'.metadata.loading
        /\ store'.metadata.project = p /\ ~store'.operation.loading
           /\ store'.listing.loading
    BY <1>4, <2>3, SharedReducers
  <2>5. /\ calls' = [v \in Shared!Watchers |-> calls'[v]]
        /\ calls'[w] = {} /\ calls'["listing"] = {"all"}
        /\ \A v \in Shared!Watchers \ {w, "listing"} : calls'[v] = calls[v]
    BY <1>0, <1>4 DEF SharedCalls, Shared!Watchers
  <2>6. SharedCalls'
    <3>1. {"all"} \subseteq SharedAbout["listing"] /\ AtMostOne({"all"})
      BY WorkbenchAssumption DEF Shared!PagesAssumption, SharedAbout, AtMostOne
    <3> QED
      BY <1>0, <2>5, <3>1 DEF SharedCalls, AtMostOne
  <2>7. /\ ui' \in SharedUi /\ ui'.page = ui.page /\ ui'.relisted
        /\ ui'.crossed = (p # ui.page)
    BY <1>0, <1>4 DEF SharedUi
  <2>8. calls'["metadata"] = calls["metadata"]
    BY <2>5 DEF Shared!Watchers
  <2>9. SharedTypes' /\ AskedForPage' /\ SharedSpinners'
    BY <2>4, <2>5, <2>6, <2>7, <2>8
    DEF SharedInv, SharedTypes, AskedForPage, SharedSpinners, Shared!SpinnerIsServed
  <2>10. Shared!ProjectIsOfPage'
    BY <2>4, <2>7 DEF Shared!ProjectIsOfPage, Shared!Ready
  <2> QED
    BY <2>9, <2>10 DEF SharedInv
<1> QED
  BY <1>1, <1>3, <1>4

(* A page is opened, or left: what it asks for takes the place of what was *)
(* asked for before.                                                       *)
LEMMA SharedListingOpened ==
  ASSUME SharedInv, Shared!showSharedWorkspaces
  PROVE  SharedInv'
<1>0. store \in SharedStore /\ SharedCalls /\ ui \in SharedUi
  BY DEF SharedInv, SharedTypes
<1>1. PICK q \in Queries :
        /\ store' = Shared!GET_LISTING_STARTED(store)
        /\ calls' = [calls EXCEPT !["listing"] = {q}]
        /\ ui' = [ui EXCEPT !.page = "list", !.query = q, !.relisted = FALSE]
  BY DEF Shared!showSharedWorkspaces, Shared!GET_LISTING
<1>2. /\ store' \in SharedStore /\ store'.operation = store.operation
      /\ store'.metadata = store.metadata /\ store'.listing.loading
  BY <1>0, <1>1, SharedReducers
<1>3. "listing" \in Shared!Watchers /\ {q} \subseteq SharedAbout["listing"]
      /\ AtMostOne({q})
  BY DEF Shared!Watchers, SharedAbout, AtMostOne
<1>4. /\ SharedCalls' /\ calls'["listing"] = {q}
      /\ \A v \in Shared!Watchers \ {"listing"} : calls'[v] = calls[v]
  BY <1>0, <1>1, <1>3, SharedCallsChange
<1>5. calls'["metadata"] = calls["metadata"]
  BY <1>4 DEF Shared!Watchers
<1>6. /\ ui' \in SharedUi /\ ui'.page = "list" /\ ui'.query = q
      /\ "list" \notin Workspaces
  BY <1>0, <1>1, WorkbenchAssumption DEF SharedUi, Shared!PagesAssumption
<1>7. SharedTypes' /\ AskedForPage'
  BY <1>2, <1>4, <1>6 DEF SharedTypes, AskedForPage
<1>8. SharedSpinners'
  BY <1>2, <1>4, <1>5
  DEF SharedInv, SharedSpinners, Shared!SpinnerIsServed, Shared!Watchers, Changes
<1>9. Shared!ProjectIsOfPage'
  BY <1>2, <1>6 DEF Shared!ProjectIsOfPage
<1> QED
  BY <1>7, <1>8, <1>9 DEF SharedInv

\* The page of a workspace is opened: it is asked for, and no other is.
LEMMA SharedPageOpened ==
  ASSUME SharedInv, NEW p \in Workspaces, NEW st \in SharedStore,
         st.listing = store.listing,
           st.operation = store.operation \/ ~st.operation.loading,
         store' = Shared!GET_METADATA_STARTED(st),
         \/ calls' = [calls EXCEPT !["metadata"] = {p}]
         \/ /\ calls' = [[calls EXCEPT !["create"] = {}] EXCEPT !["metadata"] = {p}]
            /\ ~st.operation.loading,
         ui' = [ui EXCEPT !.page = p]
  PROVE  SharedInv'
<1>0. store \in SharedStore /\ SharedCalls /\ ui \in SharedUi
  BY DEF SharedInv, SharedTypes
<1>2. /\ store' \in SharedStore /\ store'.operation = st.operation
      /\ store'.listing = store.listing /\ store'.metadata.loading
  BY SharedReducers
<1>3. /\ calls' = [v \in Shared!Watchers |-> calls'[v]]
      /\ calls'["metadata"] = {p}
      /\ \/ calls'["create"] = calls["create"]
         \/ calls'["create"] = {} /\ ~st.operation.loading
      /\ \A v \in Shared!Watchers \ {"metadata", "create"} : calls'[v] = calls[v]
  <2>1. calls = [v \in Shared!Watchers |-> calls[v]]
    BY <1>0 DEF SharedCalls
  <2>2. CASE calls' = [calls EXCEPT !["metadata"] = {p}]
    <3>1. calls' = [v \in Shared!Watchers |-> calls'[v]] /\ calls'["metadata"] = {p}
      BY ONLY <2>1, <2>2 DEF Shared!Watchers
    <3>2. \A v \in Shared!Watchers \ {"metadata"} : calls'[v] = calls[v]
      BY ONLY <2>1, <2>2
    <3>3. calls'["create"] = calls["create"]
      BY ONLY <3>2 DEF Shared!Watchers
    <3> QED
      BY ONLY <3>1, <3>2, <3>3
  <2>3. CASE /\ calls' = [[calls EXCEPT !["create"] = {}] EXCEPT !["metadata"] = {p}]
             /\ ~st.operation.loading
    BY ONLY <2>1, <2>3 DEF Shared!Watchers
  <2> QED
    BY <2>2, <2>3
<1>4. SharedCalls'
  <2>1. {p} \subseteq SharedAbout["metadata"] /\ AtMostOne({p}) /\ AtMostOne({})
    BY DEF SharedAbout, AtMostOne
  <2>2. \A v \in Shared!Watchers :
          calls'[v] = calls[v] \/ calls'[v] = {} \/ (v = "metadata" /\ calls'[v] = {p})
    BY <1>3
  <2> QED
    BY <1>0, <1>3, <2>1, <2>2 DEF SharedCalls
<1>5. calls'["listing"] = calls["listing"]
  BY <1>3 DEF Shared!Watchers
<1>6. /\ ui' \in SharedUi /\ ui'.page = p /\ p # "list"
  BY <1>0, WorkbenchAssumption DEF SharedUi, Shared!PagesAssumption
<1>7. SharedTypes' /\ AskedForPage'
  BY <1>2, <1>3, <1>4, <1>6 DEF SharedTypes, AskedForPage
<1>8. SharedSpinners'
  BY <1>2, <1>3, <1>5
  DEF SharedInv, SharedSpinners, Shared!SpinnerIsServed, Shared!Watchers, Changes
<1>9. Shared!ProjectIsOfPage'
  BY <1>2, <1>6 DEF Shared!ProjectIsOfPage, Shared!Ready
<1> QED
  BY <1>7, <1>8, <1>9 DEF SharedInv

\* Opening and leaving a page keeps the invariant.
LEMMA SharedPagesOpened ==
  ASSUME SharedInv, Shared!DataFilesProjectFileListing \/ Shared!leave
  PROVE  SharedInv'
<1>0. store \in SharedStore /\ SharedCalls /\ ui \in SharedUi
  BY DEF SharedInv, SharedTypes
<1>1. CASE Shared!DataFilesProjectFileListing
  <2>1. PICK p \in Workspaces :
          /\ store' = Shared!GET_METADATA_STARTED(store)
          /\ calls' = [calls EXCEPT !["metadata"] = {p}]
          /\ ui' = [ui EXCEPT !.page = p]
    BY <1>1 DEF Shared!DataFilesProjectFileListing, Shared!GET_METADATA
  <2> QED
    BY <1>0, <2>1, SharedPageOpened
<1>2. CASE Shared!leave
  <2>1. store' = store /\ calls' = calls /\ ui' = [ui EXCEPT !.page = "away"]
    BY <1>2 DEF Shared!leave
  <2>2. ui' \in SharedUi /\ ui'.page = "away" /\ "away" \notin Workspaces
    BY <1>0, <2>1, WorkbenchAssumption DEF SharedUi, Shared!PagesAssumption
  <2>3. SharedTypes' /\ AskedForPage'
    BY <2>1, <2>2 DEF SharedInv, SharedTypes, AskedForPage, SharedCalls
  <2>4. SharedSpinners' /\ Shared!ProjectIsOfPage'
    BY <2>1, <2>2 DEF SharedInv, SharedSpinners, Shared!SpinnerIsServed,
       Shared!ProjectIsOfPage
  <2> QED
    BY <2>3, <2>4 DEF SharedInv
<1> QED
  BY <1>1, <1>2

(* A step that leaves the readings and the place alone.                    *)
LEMMA SharedStays ==
  ASSUME SharedInv, store' \in SharedStore, SharedCalls', ui' = ui,
         store'.listing = store.listing, store'.metadata = store.metadata,
         calls'["listing"] = calls["listing"], calls'["metadata"] = calls["metadata"],
         store'.operation.loading =>
            store'.operation.name \in Changes /\ calls'[store'.operation.name] # {}
  PROVE  SharedInv'
<1>1. SharedTypes' /\ AskedForPage'
  BY DEF SharedInv, SharedTypes, AskedForPage
<1>2. SharedSpinners'
  BY DEF SharedInv, SharedSpinners, Shared!SpinnerIsServed
<1>3. Shared!ProjectIsOfPage'
  BY DEF SharedInv, Shared!ProjectIsOfPage, Shared!Ready
<1> QED
  BY <1>1, <1>2, <1>3 DEF SharedInv

\* The answer to a new workspace, which opens its page, keeps it.
LEMMA ProjectCreated ==
  ASSUME SharedInv, Shared!createProject
  PROVE  SharedInv'
<1>0. store \in SharedStore /\ SharedCalls /\ ui \in SharedUi
  BY DEF SharedInv, SharedTypes
<1> DEFINE st == Shared!TOGGLE_MODAL(Shared!SUCCESS(store, "create"), "addproject")
<1>1. /\ st \in SharedStore /\ st.listing = store.listing
      /\ st.metadata = store.metadata /\ ~st.operation.loading
  <2>1. LET r == Shared!SUCCESS(store, "create") IN
          /\ r \in SharedStore /\ r.listing = store.listing
          /\ r.metadata = store.metadata /\ ~r.operation.loading
    BY <1>0, OperationReducers DEF Changes
  <2>2. "addproject" \in Shared!Modals
    BY DEF Shared!Modals
  <2> QED
    BY <2>1, <2>2, ModalToggled
<1>2. \/ \E p \in Workspaces :
            /\ store' = IF p = ui.page THEN st ELSE Shared!GET_METADATA_STARTED(st)
            /\ calls' = IF p = ui.page THEN [calls EXCEPT !["create"] = {}]
                        ELSE [[calls EXCEPT !["create"] = {}] EXCEPT !["metadata"] = {p}]
            /\ ui' = [ui EXCEPT !.page = p]
      \/ /\ store' = Shared!FAILED(store, "create")
         /\ calls' = [calls EXCEPT !["create"] = {}] /\ ui' = ui
  BY DEF Shared!createProject, Shared!GET_METADATA
<1> HIDE DEF st
<1>3. ASSUME calls' = [calls EXCEPT !["create"] = {}]
      PROVE  /\ SharedCalls' /\ calls'["listing"] = calls["listing"]
             /\ calls'["metadata"] = calls["metadata"]
  BY <1>0, <1>3, SharedCallClosed DEF Shared!Watchers
<1>4. CASE /\ store' = Shared!FAILED(store, "create")
           /\ calls' = [calls EXCEPT !["create"] = {}] /\ ui' = ui
  <2>1. /\ store' \in SharedStore /\ store'.listing = store.listing
        /\ store'.metadata = store.metadata /\ ~store'.operation.loading
    BY <1>0, <1>4, OperationReducers DEF Changes
  <2> QED
    BY <1>3, <1>4, <2>1, SharedStays
<1>5. ASSUME NEW p \in Workspaces,
             store' = IF p = ui.page THEN st ELSE Shared!GET_METADATA_STARTED(st),
             calls' = IF p = ui.page THEN [calls EXCEPT !["create"] = {}]
                      ELSE [[calls EXCEPT !["create"] = {}] EXCEPT !["metadata"] = {p}],
             ui' = [ui EXCEPT !.page = p]
      PROVE  SharedInv'
  <2>1. CASE p = ui.page
    <3>1. ui' = ui
      BY <1>0, <1>5, <2>1 DEF SharedUi
    <3> QED
      BY <1>1, <1>3, <1>5, <2>1, <3>1, SharedStays
  <2>2. CASE p # ui.page
    BY <1>1, <1>5, <2>2, SharedPageOpened
  <2> QED
    BY <2>1, <2>2
<1> QED
  BY <1>2, <1>4, <1>5

(* The windows are opened and closed.                                      *)
LEMMA SharedWindows ==
  ASSUME SharedInv, Shared!onEdit \/ Shared!addProjectOpen \/ Shared!toggle
  PROVE  SharedInv'
<1>0. /\ store \in SharedStore /\ SharedCalls /\ ui \in SharedUi
      /\ store.modals \subseteq Shared!Modals
  BY DEF SharedInv, SharedTypes, SharedStore
<1>1. calls' = calls /\ ui' = ui
  BY DEF Shared!onEdit, Shared!addProjectOpen, Shared!toggle
<1>2. SharedCalls'
  BY <1>0, <1>1 DEF SharedCalls
<1>3. \/ \E m \in Shared!Modals : store' = Shared!TOGGLE_MODAL(store, m)
      \/ store' = Shared!TOGGLE_MODAL(Shared!CLEAR_OPERATION(store), "addproject")
  BY <1>0 DEF Shared!onEdit, Shared!addProjectOpen, Shared!toggle, Shared!Modals
<1>4. CASE \E m \in Shared!Modals : store' = Shared!TOGGLE_MODAL(store, m)
  <2>1. /\ store' \in SharedStore /\ store'.listing = store.listing
        /\ store'.metadata = store.metadata /\ store'.operation = store.operation
    BY <1>0, <1>4, ModalToggled
  <2>2. store'.operation.loading =>
            store'.operation.name \in Changes /\ calls'[store'.operation.name] # {}
    BY <1>1, <2>1 DEF SharedInv, SharedSpinners, Shared!SpinnerIsServed
  <2> QED
    BY <1>1, <1>2, <2>1, <2>2, SharedStays
<1>5. CASE store' = Shared!TOGGLE_MODAL(Shared!CLEAR_OPERATION(store), "addproject")
  <2>1. LET r == Shared!CLEAR_OPERATION(store) IN
          /\ r \in SharedStore /\ r.listing = store.listing
          /\ r.metadata = store.metadata /\ ~r.operation.loading
    BY <1>0, OperationReducers
  <2>2. /\ store' \in SharedStore /\ store'.listing = store.listing
        /\ store'.metadata = store.metadata /\ ~store'.operation.loading
    BY <1>5, <2>1, ModalToggled DEF Shared!Modals
  <2> QED
    BY <1>1, <1>2, <2>2, SharedStays
<1> QED
  BY <1>3, <1>4, <1>5

(* A window submits.                                                       *)
LEMMA ChangeStarted ==
  ASSUME SharedInv, NEW w \in Changes, NEW p \in SharedAbout[w],
         store' = Shared!STARTED(store, w), calls' = [calls EXCEPT ![w] = {p}], ui' = ui
  PROVE  SharedInv'
<1>0. store \in SharedStore /\ SharedCalls /\ ui \in SharedUi
  BY DEF SharedInv, SharedTypes
<1>1. /\ store' \in SharedStore /\ store'.listing = store.listing
      /\ store'.metadata = store.metadata /\ store'.operation.name = w
  BY <1>0, OperationReducers
<1>2. w \in Shared!Watchers /\ {p} \subseteq SharedAbout[w] /\ AtMostOne({p})
  BY DEF AtMostOne, Changes, Shared!Watchers
<1>3. /\ SharedCalls' /\ calls'[w] = {p}
      /\ \A v \in Shared!Watchers \ {w} : calls'[v] = calls[v]
  BY <1>0, <1>2, SharedCallsChange
<1>4. calls'["listing"] = calls["listing"] /\ calls'["metadata"] = calls["metadata"]
  BY <1>3 DEF Changes, Shared!Watchers
<1> QED
  BY <1>1, <1>3, <1>4, SharedStays

\* A user who leaves a workspace is sent to the list.
LEMMA SelfRemoved ==
  ASSUME SharedInv, NEW p \in Workspaces \cup {Nothing},
         store' = Shared!STARTED(Shared!GET_LISTING_STARTED(
                      Shared!TOGGLE_MODAL(store, "manageproject")), "member"),
         calls' = [[calls EXCEPT !["listing"] = {"all"}] EXCEPT !["member"] = {p}],
         ui' = [ui EXCEPT !.page = "list", !.query = "all", !.relisted = FALSE]
  PROVE  SharedInv'
<1>0. store \in SharedStore /\ SharedCalls /\ ui \in SharedUi
  BY DEF SharedInv, SharedTypes
<1>1. "manageproject" \in Shared!Modals /\ "member" \in Changes
  BY DEF Shared!Modals, Changes
<1>2. LET r == Shared!TOGGLE_MODAL(store, "manageproject") IN
        r \in SharedStore /\ r.metadata = store.metadata
  BY <1>0, <1>1, ModalToggled
<1>3. LET r == Shared!GET_LISTING_STARTED(Shared!TOGGLE_MODAL(store, "manageproject")) IN
        r \in SharedStore /\ r.metadata = store.metadata /\ r.listing.loading
  BY <1>2, SharedReducers
<1>4. /\ store' \in SharedStore /\ store'.listing.loading
      /\ store'.metadata = store.metadata /\ store'.operation.name = "member"
  BY <1>1, <1>3, OperationReducers
<1>5. /\ calls' = [v \in Shared!Watchers |-> calls'[v]]
      /\ calls'["listing"] = {"all"} /\ calls'["member"] = {p}
      /\ calls'["metadata"] = calls["metadata"]
      /\ \A v \in Shared!Watchers \ {"listing", "member"} : calls'[v] = calls[v]
  BY <1>0 DEF SharedCalls, Shared!Watchers
<1>6. SharedCalls'
  <2>1. /\ {"all"} \subseteq SharedAbout["listing"] /\ AtMostOne({"all"})
        /\ {p} \subseteq SharedAbout["member"] /\ AtMostOne({p})
    BY WorkbenchAssumption DEF Shared!PagesAssumption, SharedAbout, AtMostOne
  <2>2. \A v \in Shared!Watchers :
          \/ calls'[v] = calls[v]
          \/ v = "listing" /\ calls'[v] = {"all"}
          \/ v = "member" /\ calls'[v] = {p}
    BY <1>5
  <2> QED
    BY <1>0, <1>5, <2>1, <2>2 DEF SharedCalls
<1>7. /\ ui' \in SharedUi /\ ui'.page = "list" /\ ui'.query = "all"
      /\ "list" \notin Workspaces
  BY <1>0, WorkbenchAssumption DEF SharedUi, Shared!PagesAssumption
<1>8. SharedTypes' /\ AskedForPage'
  BY <1>4, <1>5, <1>6, <1>7 DEF SharedTypes, AskedForPage
<1>9. SharedSpinners'
  BY <1>1, <1>4, <1>5
  DEF SharedInv, SharedSpinners, Shared!SpinnerIsServed
<1>10. Shared!ProjectIsOfPage'
  BY <1>4, <1>7 DEF Shared!ProjectIsOfPage
<1> QED
  BY <1>8, <1>9, <1>10 DEF SharedInv

\* The windows submit.
LEMMA SharedSubmits ==
  ASSUME SharedInv,
         \/ Shared!DataFilesAddProjectModal \/ Shared!DataFilesProjectEditDescriptionModal
         \/ Shared!DataFilesManageProjectModal
  PROVE  SharedInv'
<1>0. store.metadata.project \in Workspaces \cup {Nothing}
  BY DEF SharedInv, SharedTypes, SharedStore, SharedMetadata
<1>1. CASE Shared!DataFilesAddProjectModal
  <2>1. /\ store' = Shared!STARTED(store, "create")
        /\ calls' = [calls EXCEPT !["create"] = {Nothing}] /\ ui' = ui
    BY <1>1 DEF Shared!DataFilesAddProjectModal
  <2>2. "create" \in Changes /\ Nothing \in SharedAbout["create"]
    BY DEF Changes, SharedAbout
  <2> QED
    BY <2>1, <2>2, ChangeStarted
<1>2. CASE Shared!DataFilesProjectEditDescriptionModal
  <2>1. /\ store' = Shared!STARTED(store, "titleDescription")
        /\ calls' = [calls EXCEPT !["titleDescription"] = {store.metadata.project}]
        /\ ui' = ui
    BY <1>2 DEF Shared!DataFilesProjectEditDescriptionModal
  <2>2. /\ "titleDescription" \in Changes
        /\ store.metadata.project \in SharedAbout["titleDescription"]
    BY <1>0 DEF Changes, SharedAbout
  <2> QED
    BY <2>1, <2>2, ChangeStarted
<1>3. CASE Shared!DataFilesManageProjectModal
  <2>1. \/ /\ store' = Shared!STARTED(store, "member")
           /\ calls' = [calls EXCEPT !["member"] = {store.metadata.project}] /\ ui' = ui
        \/ /\ store' = Shared!STARTED(Shared!GET_LISTING_STARTED(
                           Shared!TOGGLE_MODAL(store, "manageproject")), "member")
           /\ calls' = [[calls EXCEPT !["listing"] = {"all"}]
                            EXCEPT !["member"] = {store.metadata.project}]
           /\ ui' = [ui EXCEPT !.page = "list", !.query = "all", !.relisted = FALSE]
    BY <1>3
    DEF Shared!DataFilesManageProjectModal, Shared!onAdd, Shared!onRemove,
        Shared!onTransfer, Shared!setMemberStarted, Shared!GET_LISTING
  <2>2. "member" \in Changes /\ store.metadata.project \in SharedAbout["member"]
    BY <1>0 DEF Changes, SharedAbout
  <2> QED
    BY <1>0, <2>1, <2>2, ChangeStarted, SelfRemoved
<1> QED
  BY <1>1, <1>2, <1>3

\* Every page, window and saga keeps the invariant.
LEMMA SharedStep ==
  ASSUME SharedInv, [Shared!Next]_<<store, calls, ui, alive>>
  PROVE  SharedInv'
<1>1. CASE UNCHANGED <<store, calls, ui, alive>>
  BY <1>1
  DEF SharedInv, SharedTypes, SharedCalls, AskedForPage, SharedSpinners,
      Shared!SpinnerIsServed, Shared!ProjectIsOfPage, Shared!Ready
<1>2. CASE Shared!setMember \/ Shared!setTitleDescription
  <2>0. store \in SharedStore
    BY DEF SharedInv, SharedTypes
  <2>1. CASE Shared!setMember
    BY <2>0, <2>1, ChangeTold DEF Shared!setMember
  <2>2. CASE Shared!setTitleDescription
    <3>1. "editproject" \in Shared!Modals
      BY DEF Shared!Modals
    <3>2. PICK st \in SharedStore :
            /\ st = Shared!TOGGLE_MODAL(store, "editproject")
            /\ st.listing = store.listing /\ st.operation = store.operation
            /\ st.metadata = store.metadata
      BY <2>0, <3>1, ModalToggled
    <3>3. Shared!changeTold("titleDescription", st)
      BY <2>2, <3>2 DEF Shared!setTitleDescription
    <3> QED
      BY <3>2, <3>3, ChangeTold
  <2> QED
    BY <1>2, <2>1, <2>2
<1> QED
  BY <1>1, <1>2, SharedReadingsTold, SharedListingOpened, SharedPagesOpened,
     ProjectCreated, SharedWindows, SharedSubmits
  DEF Shared!Next

\* What it says of types, spinners and the workspace of the page.
LEMMA SharedHolds ==
  ASSUME SharedInv
  PROVE  Shared!TypeOK /\ Shared!SpinnerIsServed /\ Shared!ProjectIsOfPage
<1>0. store \in SharedStore /\ SharedCalls /\ ui \in SharedUi
  BY DEF SharedInv, SharedTypes
<1>1. \A w \in Shared!Watchers : Shared!Cardinality(calls[w]) <= 1
  BY <1>0, OneAtMost DEF SharedCalls, Shared!Cardinality, Cardinality
<1>2. /\ store.listing.of \in Queries \cup {Nothing}
      /\ store.metadata.project \in Workspaces \cup {Nothing}
      /\ store.operation.name \in Shared!Watchers \cup {"none"}
      /\ store.modals \subseteq Shared!Modals
  BY <1>0
  DEF SharedStore, SharedListing, SharedMetadata, SharedOperation, Changes, Shared!Watchers
<1>3. ui.page \in Workspaces \cup {"list", "away"}
  BY <1>0 DEF SharedUi
<1> QED
  BY <1>1, <1>2, <1>3 DEF SharedInv, SharedSpinners, Shared!TypeOK
-----------------------------------------------------------------------------
(* The pages of a setup.                                                   *)

Views == {"admin", "user"}

(* The steps of the users, which events are of.                            *)
SetupRows == Users \X Steps

Seen == [Steps -> Nat]
SetupView == [user : Users \cup {NoUser}, seen : Seen, loading : BOOLEAN, error : BOOLEAN]
SetupAction ==
  [user : Users \cup {NoUser}, step : Steps \cup {NoUser}, loading : BOOLEAN,
   error : BOOLEAN]
SetupEvents == [SetupRows -> Nat]
SetupWire == SUBSET (SetupRows \X Nat)

SetupStore ==
  [admin : SetupView, user : SetupView, action : SetupAction, events : SetupEvents,
   wire : SetupWire]

SetupUi ==
  [page : Views \cup {"elsewhere"}, of : Users \cup {NoUser},
   overtaken : SUBSET (Views \X Steps)]

SetupCall ==
  [user : Users, step : Steps \cup {NoUser}, read : BOOLEAN, got : Seen]

SetupCalls ==
  /\ calls = [w \in Setup!Watchers |-> calls[w]]
  /\ \A w \in Setup!Watchers : AtMostOne(calls[w]) /\ calls[w] \subseteq SetupCall
  /\ \A c \in calls["action"] : c.step \in Steps

SetupTypes == store \in SetupStore /\ SetupCalls /\ ui \in SetupUi

(* The messages to come are of events the portal has stored.               *)
Past(wire, events) == \A e \in wire : e[2] <= events[e[1]]

(* What a view of a step has not seen is still to come.                    *)
Follows(r, n, wire, events) == \A m \in (n + 1)..events[r] : <<r, m>> \in wire

ViewsFollow ==
  \A v \in Views, s \in Steps : store[v].user \in Users =>
    /\ store[v].seen[s] <= store.events[<<store[v].user, s>>]
    /\ <<v, s>> \notin ui.overtaken =>
         Follows(<<store[v].user, s>>, store[v].seen[s], store.wire,
                 store.events)

(* An answer of a view is not of later than now.                           *)
AnswersAreOld ==
  \A v \in Views : \A c \in calls[v] : \A s \in Steps :
    c.got[s] <= store.events[<<c.user, s>>]

(* The page of a user asks for that user.                                  *)
SetupIsOfUser ==
  ui.page = "user" =>
    /\ \A c \in calls["user"] : c.user = ui.of
    /\ \/ store.user.loading \/ store.user.error
       \/ store.user.user = NoUser \/ store.user.user = ui.of

SetupInv ==
  /\ SetupTypes /\ Past(store.wire, store.events) /\ ViewsFollow /\ AnswersAreOld
  /\ SetupIsOfUser /\ Setup!SpinnerIsServed

(* A new event of a step has a message to come.                            *)
LEMMA EventComes ==
  ASSUME NEW wire \in SetupWire, NEW events \in SetupEvents, NEW u \in SetupRows,
         Past(wire, events)
  PROVE  LET ev == [events EXCEPT ![u] = events[u] + 1]
             new == wire \cup {<<u, events[u] + 1>>}
         IN  /\ ev \in SetupEvents /\ Past(new, ev) /\ new \in SetupWire
             /\ \A x \in SetupRows, n \in Nat :
                   Follows(x, n, wire, events) => Follows(x, n, new, ev)
             /\ ev[u] = events[u] + 1
             /\ \A x \in SetupRows : x # u => ev[x] = events[x]
<1> DEFINE n == events[u] + 1
           e == <<u, n>>
           ev == [events EXCEPT ![u] = n]
           new == wire \cup {e}
<1>1. n \in Nat /\ e \in SetupRows \X Nat /\ e[1] = u /\ e[2] = n /\ n - 1 = events[u]
  BY DEF SetupEvents
<1>2. /\ ev \in SetupEvents /\ ev[u] = n
      /\ \A x \in SetupRows : x # u => ev[x] = events[x]
      /\ \A x \in SetupRows : ev[x] \in Nat /\ events[x] \in Nat /\ events[x] <= ev[x]
  BY <1>1 DEF SetupEvents
<1> HIDE DEF ev, n
<1>3. ASSUME NEW x \in SetupRows, NEW m \in Nat, m \in events[x] + 1 .. ev[x]
      PROVE  x = u /\ m = n
  BY <1>1, <1>2, <1>3
<1>4. ASSUME NEW x \in SetupRows, NEW m \in Nat, Follows(x, m, wire, events)
      PROVE  Follows(x, m, new, ev)
  <2> SUFFICES ASSUME NEW l \in (m + 1)..ev[x]
               PROVE  <<x, l>> \in new
    BY DEF Follows
  <2>1. CASE l <= events[x]
    BY <1>2, <1>4, <2>1 DEF Follows
  <2>2. CASE ~(l <= events[x])
    BY <1>2, <1>3, <2>2
  <2> QED
    BY <2>1, <2>2
<1>5. Past(new, ev)
  <2>1. ASSUME NEW d \in wire
        PROVE  d[2] <= ev[d[1]]
    <3>1. d \in SetupRows \X Nat /\ d[2] <= events[d[1]]
      BY <2>1 DEF Past, SetupWire
    <3>2. d[1] \in SetupRows /\ d[2] \in Nat
      BY <3>1
    <3> QED
      BY <1>2, <3>1, <3>2
  <2>2. e[2] <= ev[e[1]]
    BY <1>1, <1>2
  <2> QED
    BY <2>1, <2>2 DEF Past
<1>6. new \in SetupWire
  BY <1>1 DEF SetupWire
<1> QED
  BY <1>1, <1>2, <1>4, <1>5, <1>6 DEF ev, n

(* A message arrives: the others are still to come.                        *)
LEMMA MessageArrives ==
  ASSUME NEW wire \in SetupWire, NEW events \in SetupEvents, NEW e \in wire,
         Past(wire, events)
  PROVE  LET w == wire \ {e}
         IN  /\ w \in SetupWire /\ Past(w, events)
             /\ e[1] \in SetupRows /\ e[2] \in Nat /\ e[2] <= events[e[1]]
             /\ \A x \in SetupRows, n \in Nat :
                   (Follows(x, n, wire, events) /\ x # e[1]) => Follows(x, n, w, events)
<1>1. e \in SetupRows \X Nat /\ e[2] <= events[e[1]] /\ wire \ {e} \in SetupWire
  BY DEF SetupWire, Past
<1>2. Past(wire \ {e}, events)
  BY DEF Past
<1>3. ASSUME NEW x \in SetupRows, NEW n \in Nat, x # e[1], Follows(x, n, wire, events)
      PROVE  Follows(x, n, wire \ {e}, events)
  BY <1>3 DEF Follows
<1> QED
  BY <1>1, <1>2, <1>3

(* What the reducers of the views make of a state.                         *)
LEMMA ViewAsked ==
  ASSUME NEW st \in SetupStore, NEW v \in Views
  PROVE  LET r == Setup!FETCH_PROCESSING(st, v) IN
           /\ r \in SetupStore /\ r.action = st.action
           /\ r.events = st.events /\ r.wire = st.wire
           /\ r[v].user = st[v].user /\ r[v].seen = st[v].seen /\ r[v].loading
           /\ \A x \in Views \ {v} : r[x] = st[x]
<1>1. CASE v = "admin"
  BY <1>1 DEF Views, SetupStore, SetupView, Setup!FETCH_PROCESSING
<1>2. CASE v = "user"
  BY <1>2 DEF Views, SetupStore, SetupView, Setup!FETCH_PROCESSING
<1> QED
  BY <1>1, <1>2 DEF Views

\* A view is given the number of events that were read for a user.
LEMMA ViewTold ==
  ASSUME NEW st \in SetupStore, NEW v \in Views, NEW u \in Users, NEW got \in Seen
  PROVE  LET r == Setup!FETCH_SUCCESS(st, v, u, got) IN
           /\ r \in SetupStore /\ r.action = st.action
           /\ r.events = st.events /\ r.wire = st.wire
           /\ r[v].user = u /\ r[v].seen = got /\ ~r[v].loading
           /\ \A x \in Views \ {v} : r[x] = st[x]
<1>1. CASE v = "admin"
  BY <1>1 DEF Views, SetupStore, SetupView, Setup!FETCH_SUCCESS
<1>2. CASE v = "user"
  BY <1>2 DEF Views, SetupStore, SetupView, Setup!FETCH_SUCCESS
<1> QED
  BY <1>1, <1>2 DEF Views

\* A view is told that reading failed.
LEMMA ViewFailed ==
  ASSUME NEW st \in SetupStore, NEW v \in Views
  PROVE  LET r == Setup!FETCH_ERROR(st, v) IN
           /\ r \in SetupStore /\ r.action = st.action
           /\ r.events = st.events /\ r.wire = st.wire
           /\ r[v].user = st[v].user /\ r[v].seen = st[v].seen
           /\ ~r[v].loading /\ r[v].error
           /\ \A x \in Views \ {v} : r[x] = st[x]
<1>1. CASE v = "admin"
  BY <1>1 DEF Views, SetupStore, SetupView, Setup!FETCH_ERROR
<1>2. CASE v = "user"
  BY <1>2 DEF Views, SetupStore, SetupView, Setup!FETCH_ERROR
<1> QED
  BY <1>1, <1>2 DEF Views

(* Those of an action.                                                     *)
LEMMA ActionReducers ==
  ASSUME NEW st \in SetupStore
  PROVE  /\ \A u \in Users, s \in Steps : LET r == Setup!ACTION_PROCESSING(st, u, s) IN
              /\ r \in SetupStore /\ r.admin = st.admin /\ r.user = st.user
              /\ r.events = st.events /\ r.wire = st.wire
         /\ LET r == Setup!ACTION_SUCCESS(st) IN
              /\ r \in SetupStore /\ r.admin = st.admin /\ r.user = st.user
              /\ r.events = st.events /\ r.wire = st.wire /\ ~r.action.loading
         /\ LET r == Setup!ACTION_ERROR(st) IN
              /\ r \in SetupStore /\ r.admin = st.admin /\ r.user = st.user
              /\ r.events = st.events /\ r.wire = st.wire /\ ~r.action.loading
BY DEF SetupStore, SetupAction, Setup!ACTION_PROCESSING, Setup!ACTION_SUCCESS,
       Setup!ACTION_ERROR

\* The pages of a setup are opened in their invariant.
LEMMA SetupStart == ASSUME Setup!Init PROVE SetupInv
<1> DEFINE view == [user |-> NoUser, seen |-> Setup!NoneSeen, loading |-> FALSE,
                    error |-> FALSE]
<1>1. store = [admin |-> view, user |-> view, action |-> Setup!initialAction,
               events |-> [r \in SetupRows |-> 0], wire |-> {}]
  BY DEF Setup!Init, Setup!initialState, Setup!Rows, SetupRows, Setup!Views
<1>2. view \in SetupView /\ Setup!initialAction \in SetupAction
  BY DEF SetupView, SetupAction, Setup!initialAction, Setup!NoneSeen, Seen
<1>3. [r \in SetupRows |-> 0] \in SetupEvents /\ {} \in SetupWire
  BY DEF SetupEvents, SetupWire
<1>4. /\ store \in SetupStore /\ store.wire = {}
      /\ \A r \in SetupRows : store.events[r] = 0
  BY <1>1, <1>2, <1>3 DEF SetupStore
<1>5. \A v \in Views : /\ store[v].user = NoUser /\ ~store[v].loading
                       /\ \A s \in Steps : store[v].seen[s] = 0
  BY <1>1 DEF Views, Setup!NoneSeen
<1>6. ~store.action.loading
  BY <1>1 DEF Setup!initialAction
<1>7. SetupCalls /\ \A w \in Setup!Watchers : calls[w] = {}
  BY DEF Setup!Init, SetupCalls, AtMostOne, Setup!Watchers, Setup!Views
<1>8. ui \in SetupUi /\ ui.page = "elsewhere" /\ ui.overtaken = {}
  BY DEF Setup!Init, SetupUi
<1>9. ViewsFollow
  <2> SUFFICES ASSUME NEW v \in Views, NEW s \in Steps, store[v].user \in Users
               PROVE  /\ store[v].seen[s] <= store.events[<<store[v].user, s>>]
                      /\ Follows(<<store[v].user, s>>, store[v].seen[s],
                                 store.wire, store.events)
    BY DEF ViewsFollow
  <2>1. <<store[v].user, s>> \in SetupRows
    BY DEF SetupRows
  <2>2. store[v].seen[s] = 0 /\ store.events[<<store[v].user, s>>] = 0
    BY <1>4, <1>5, <2>1
  <2> QED
    BY <2>2 DEF Follows
<1>10. Past(store.wire, store.events)
  BY <1>4 DEF Past
<1>12. AnswersAreOld /\ SetupIsOfUser /\ Setup!SpinnerIsServed
  BY <1>5, <1>6, <1>7, <1>8
  DEF AnswersAreOld, SetupIsOfUser, Setup!SpinnerIsServed, Views, Setup!Watchers,
    Setup!Views
<1> QED
  BY <1>4, <1>7, <1>8, <1>9, <1>10, <1>12 DEF SetupInv, SetupTypes

(* One kind of calls changes.                                              *)
LEMMA SetupCallsChange ==
  ASSUME NEW w \in Setup!Watchers, NEW S, SetupCalls, calls' = [calls EXCEPT ![w] = S],
         AtMostOne(S), S \subseteq SetupCall, w = "action" => \A c \in S : c.step \in Steps
  PROVE  /\ SetupCalls' /\ calls'[w] = S
         /\ \A v \in Setup!Watchers \ {w} : calls'[v] = calls[v]
<1>1. /\ calls' = [v \in Setup!Watchers |-> calls'[v]] /\ calls'[w] = S
      /\ \A v \in Setup!Watchers \ {w} : calls'[v] = calls[v]
  BY DEF SetupCalls
<1>2. \A c \in calls'["action"] : c.step \in Steps
  BY <1>1 DEF SetupCalls, Setup!Watchers, Setup!Views
<1> QED
  BY <1>1, <1>2 DEF SetupCalls

(* An event happens on the portal, with or without an action of a page.    *)
LEMMA EventHappens ==
  ASSUME SetupInv, NEW u \in SetupRows, Setup!Happens(u), SetupCalls', ui' = ui,
         \A v \in Views : calls'[v] = calls[v],
         calls["action"] # {} => calls'["action"] # {}
  PROVE  SetupInv'
<1> DEFINE k == store.events[u] + 1
           ev == [store.events EXCEPT ![u] = k]
           w == store.wire \cup {<<u, k>>}
<1>0. /\ store \in SetupStore /\ ui \in SetupUi
      /\ store.events \in SetupEvents /\ store.wire \in SetupWire
      /\ Past(store.wire, store.events)
  BY DEF SetupInv, SetupTypes, SetupStore
<1>1. /\ ev \in SetupEvents /\ w \in SetupWire /\ Past(w, ev)
      /\ \A x \in SetupRows, m \in Nat :
            Follows(x, m, store.wire, store.events) => Follows(x, m, w, ev)
      /\ ev[u] = store.events[u] + 1
      /\ \A x \in SetupRows : x # u => ev[x] = store.events[x]
  <2>1. ev \in SetupEvents /\ w \in SetupWire /\ Past(w, ev)
    BY <1>0, EventComes
  <2>2. \A x \in SetupRows, m \in Nat :
            Follows(x, m, store.wire, store.events) => Follows(x, m, w, ev)
    BY <1>0, EventComes
  <2>3. /\ ev[u] = store.events[u] + 1
        /\ \A x \in SetupRows : x # u => ev[x] = store.events[x]
    BY <1>0 DEF SetupEvents
  <2> QED
    BY <2>1, <2>2, <2>3
<1>2. store' = [store EXCEPT !.events = ev, !.wire = w]
  BY DEF Setup!Happens, Setup!Event
<1> HIDE DEF ev, w
<1>3. /\ store' \in SetupStore /\ store'.events = ev /\ store'.wire = w
      /\ store'.admin = store.admin /\ store'.user = store.user
      /\ store'.action = store.action
  BY <1>0, <1>1, <1>2 DEF SetupStore
<1>5. \A x \in SetupRows : store.events[x] \in Nat /\ ev[x] \in Nat
      /\ ev[x] >= store.events[x]
  BY <1>0, <1>1 DEF SetupEvents
<1>6. \A v \in Views : store'[v] = store[v] /\ store[v].seen \in Seen
  BY <1>0, <1>3 DEF Views, SetupStore, SetupView
<1>7. ViewsFollow'
  <2> SUFFICES ASSUME NEW v \in Views, NEW s \in Steps, store[v].user \in Users
               PROVE  LET r == <<store[v].user, s>>
                          n == store[v].seen[s]
                      IN  /\ n <= ev[r]
                          /\ <<v, s>> \notin ui.overtaken => Follows(r, n, w, ev)
    BY <1>3, <1>6 DEF ViewsFollow
  <2> DEFINE r == <<store[v].user, s>>
             n == store[v].seen[s]
  <2>1. r \in SetupRows /\ n \in Nat
    BY <1>6 DEF SetupRows, Seen
  <2>2. /\ n <= store.events[r]
        /\ <<v, s>> \notin ui.overtaken => Follows(r, n, store.wire, store.events)
    BY DEF SetupInv, ViewsFollow
  <2> HIDE DEF r, n
  <2>3. n <= ev[r]
    BY <1>5, <2>1, <2>2
  <2>4. <<v, s>> \notin ui.overtaken => Follows(r, n, w, ev)
    BY <1>1, <2>1, <2>2
  <2> QED
    BY <2>3, <2>4 DEF r, n
<1>8. AnswersAreOld'
  <2> SUFFICES ASSUME NEW v \in Views, NEW c \in calls[v], NEW s \in Steps
               PROVE  c.got[s] <= ev[<<c.user, s>>]
    BY <1>3 DEF AnswersAreOld
  <2>1. v \in Setup!Watchers
    BY DEF Views, Setup!Watchers, Setup!Views
  <2>2. <<c.user, s>> \in SetupRows /\ c.got[s] \in Nat
    BY <2>1 DEF SetupInv, SetupTypes, SetupCalls, SetupCall, SetupRows, Seen
  <2>3. c.got[s] <= store.events[<<c.user, s>>]
    BY DEF SetupInv, AnswersAreOld
  <2> QED
    BY <1>5, <2>2, <2>3
<1>9. SetupIsOfUser'
  BY <1>3 DEF SetupInv, SetupIsOfUser, Views
<1>11. Setup!SpinnerIsServed'
  BY <1>3 DEF SetupInv, Setup!SpinnerIsServed, Views
<1> QED
  BY <1>0, <1>1, <1>3, <1>7, <1>8, <1>9, <1>11 DEF SetupInv, SetupTypes

(* What is to come and the events are left by a step of the browser.       *)
LEMMA PortalStays ==
  ASSUME SetupInv, store'.wire = store.wire, store'.events = store.events
  PROVE  Past(store.wire, store.events)'
BY DEF SetupInv, Past

(* A view is read for its answer.                                          *)
LEMMA ViewRead ==
  ASSUME SetupInv, Setup!viewRead
  PROVE  SetupInv'
<1>0. store \in SetupStore /\ ui \in SetupUi /\ SetupCalls
  BY DEF SetupInv, SetupTypes
<1>1. PICK v \in Views : \E c \in calls[v] :
        /\ calls' = [calls EXCEPT ![v] =
             {[c EXCEPT !.read = TRUE,
                        !.got = [s \in Steps |-> store.events[<<c.user, s>>]]]}]
        /\ store' = store /\ ui' = ui
  BY DEF Setup!viewRead, Views, Setup!Views
<1>2. PICK c \in calls[v] :
        /\ calls' = [calls EXCEPT ![v] =
             {[c EXCEPT !.read = TRUE,
                        !.got = [s \in Steps |-> store.events[<<c.user, s>>]]]}]
        /\ store' = store /\ ui' = ui
  BY <1>1
<1> DEFINE now == [s \in Steps |-> store.events[<<c.user, s>>]]
           d == [c EXCEPT !.read = TRUE, !.got = now]
<1>3. v \in Setup!Watchers /\ v # "action" /\ c \in SetupCall
  BY <1>0, <1>2 DEF Views, Setup!Watchers, Setup!Views, SetupCalls
<1>4. now \in Seen /\ \A s \in Steps : now[s] = store.events[<<c.user, s>>]
      /\ now[s] \in Nat
  <2>1. \A s \in Steps : <<c.user, s>> \in SetupRows
    BY <1>3 DEF SetupCall, SetupRows
  <2>2. \A s \in Steps : store.events[<<c.user, s>>] \in Nat
    BY <1>0, <2>1 DEF SetupStore, SetupEvents
  <2> QED
    BY <2>2 DEF Seen
<1>5. d \in SetupCall /\ d.user = c.user /\ d.got = now
  <2> HIDE DEF now
  <2> QED
    BY <1>3, <1>4 DEF SetupCall
<1> HIDE DEF d
<1>6. calls' = [calls EXCEPT ![v] = {d}] /\ AtMostOne({d})
  BY <1>2 DEF d, AtMostOne
<1>7. /\ SetupCalls' /\ calls'[v] = {d}
      /\ \A x \in Setup!Watchers \ {v} : calls'[x] = calls[x]
  BY <1>0, <1>3, <1>5, <1>6, SetupCallsChange
<1> HIDE DEF now
<1>8. AnswersAreOld'
  <2> SUFFICES ASSUME NEW x \in Views, NEW a \in calls'[x], NEW s \in Steps
               PROVE  a.got[s] <= store.events[<<a.user, s>>]
    BY <1>2 DEF AnswersAreOld
  <2>1. CASE x = v
    BY <1>4, <1>5, <1>7, <2>1
  <2>2. CASE x # v
    <3>1. x \in Setup!Watchers \ {v}
      BY <2>2 DEF Views, Setup!Watchers, Setup!Views
    <3> QED
      BY <1>7, <3>1 DEF SetupInv, AnswersAreOld
  <2> QED
    BY <2>1, <2>2
<1>9. SetupIsOfUser'
  <2> SUFFICES ASSUME ui.page = "user", NEW a \in calls'["user"]
               PROVE  a.user = ui.of
    BY <1>2 DEF SetupInv, SetupIsOfUser
  <2>1. "user" \in Setup!Watchers
    BY DEF Setup!Watchers, Setup!Views
  <2> QED
    BY <1>2, <1>5, <1>7, <2>1 DEF SetupInv, SetupIsOfUser
<1>10. Setup!SpinnerIsServed'
  <2>1. \A x \in Setup!Watchers : calls[x] # {} => calls'[x] # {}
    BY <1>7
  <2> QED
    BY <1>2, <2>1 DEF SetupInv, Setup!SpinnerIsServed, Setup!Watchers, Setup!Views
<1>11. ViewsFollow'
  BY <1>2 DEF SetupInv, ViewsFollow
<1> QED
  BY <1>0, <1>2, <1>7, <1>8, <1>9, <1>10, <1>11, PortalStays DEF SetupInv, SetupTypes

(* A message arrives, for whichever view is of its user.                   *)
LEMMA SocketHandled ==
  ASSUME SetupInv, Setup!handleSocket
  PROVE  SetupInv'
<1>p. PICK e \in store.wire :
        /\ store' = [Setup!ONBOARDING_EVENT(store, e) EXCEPT !.wire = @ \ {e}]
        /\ ui' = [ui EXCEPT !.overtaken =
               {p \in ui.overtaken : <<store[p[1]].user, p[2]>> # e[1]} \cup
               Setup!Overtaken(store', e)]
        /\ calls' = calls
  BY DEF Setup!handleSocket
<1> DEFINE w == store.wire \ {e}
           over == Setup!Overtaken(store', e)
           told(view) == Setup!updateUserFromEvent(view, e)
<1>0. /\ store \in SetupStore /\ ui \in SetupUi /\ SetupCalls
      /\ store.events \in SetupEvents /\ store.wire \in SetupWire
      /\ Past(store.wire, store.events) 
      /\ store.admin \in SetupView /\ store.user \in SetupView
  BY DEF SetupInv, SetupTypes, SetupStore
<1>1. /\ w \in SetupWire /\ Past(w, store.events)
      /\ e[1] \in SetupRows /\ e[2] \in Nat /\ e[2] <= store.events[e[1]]
      /\ \A x \in SetupRows, n \in Nat :
            (Follows(x, n, store.wire, store.events) /\ x # e[1])
                => Follows(x, n, w, store.events)
  BY <1>0, MessageArrives
<1>2. /\ store' = [store EXCEPT !.admin = told(store.admin), !.user = told(store.user),
                                !.wire = w]
      /\ ui' = [ui EXCEPT !.overtaken =
                   {p \in ui.overtaken : <<store[p[1]].user, p[2]>> # e[1]} \cup over]
      /\ calls' = calls
  BY <1>0, <1>p DEF Setup!ONBOARDING_EVENT, SetupStore
<1> HIDE DEF w, over
<1>r. PICK eu \in Users, es \in Steps : e[1] = <<eu, es>>
  BY <1>1 DEF SetupRows
<1>3. ASSUME NEW view \in SetupView
      PROVE  /\ told(view) \in SetupView /\ told(view).user = view.user
             /\ told(view).loading = view.loading /\ told(view).error = view.error
             /\ \A s \in Steps :
                  told(view).seen[s] =
                     IF <<view.user, s>> = e[1] THEN e[2] ELSE view.seen[s]
  <2> DEFINE y == [view.seen EXCEPT ![es] = e[2]]
  <2>1. y \in Seen /\ \A s \in Steps : y[s] = IF s = es THEN e[2] ELSE view.seen[s]
    BY <1>1 DEF SetupView, Seen
  <2>2. told(view) = IF view.user = eu THEN [view EXCEPT !.seen = y] ELSE view
    BY <1>r DEF Setup!updateUserFromEvent
  <2> HIDE DEF y
  <2>3. CASE view.user = eu
    BY <1>r, <2>1, <2>2, <2>3 DEF SetupView
  <2>4. CASE view.user # eu
    BY <1>r, <2>2, <2>4 DEF SetupView
  <2> QED
    BY <2>3, <2>4
<1> HIDE DEF told
<1>4. /\ store' \in SetupStore /\ store'.events = store.events /\ store'.wire = w
     
      /\ store'.admin = told(store.admin) /\ store'.user = told(store.user)
      /\ store'.action = store.action
  BY <1>0, <1>1, <1>2, <1>3 DEF SetupStore
<1>6. \A v \in Views :
        /\ store[v] \in SetupView /\ store'[v].user = store[v].user
        /\ store'[v].loading = store[v].loading /\ store'[v].error = store[v].error
        /\ \A s \in Steps :
             store'[v].seen[s] =
                IF <<store[v].user, s>> = e[1] THEN e[2] ELSE store[v].seen[s]
  BY <1>0, <1>3, <1>4 DEF Views
<1>o. /\ over \subseteq Views \X Steps
      /\ \A v \in Views, s \in Steps : (<<store[v].user, s>> = e[1]
         /\ <<v, s>> \notin over) =>
            Follows(e[1], e[2], w, store.events)
  <2>1. over = {v \in Views : store'[v].user = e[1][1] /\ Setup!Missed(store', e[1], e[2])}
                 \X {e[1][2]}
    BY DEF over, Setup!Overtaken, Views, Setup!Views
  <2>2. over \subseteq Views \X Steps
    BY <1>r, <2>1
  <2>3. ASSUME NEW v \in Views, NEW s \in Steps, <<store[v].user, s>> = e[1],
               <<v, s>> \notin over
        PROVE  Follows(e[1], e[2], w, store.events)
    <3>1. e[1][1] = store[v].user /\ e[1][2] = s
      BY <2>3
    <3>2. ~Setup!Missed(store', e[1], e[2])
      BY <1>6, <2>1, <2>3, <3>1
    <3> QED
      BY <1>4, <3>2 DEF Setup!Missed, Follows
  <2> QED
    BY <2>2, <2>3
<1>5. /\ ui' \in SetupUi /\ ui'.page = ui.page /\ ui'.of = ui.of
      /\ \A v \in Views, s \in Steps : <<v, s>> \notin ui'.overtaken =>
            <<v, s>> \notin over
            /\ (<<v, s>> \in ui.overtaken => <<store[v].user, s>> = e[1])
  <2> DEFINE kept == {p \in ui.overtaken : <<store[p[1]].user, p[2]>> # e[1]}
             all == kept \cup over
  <2>1. all \subseteq Views \X Steps
    BY <1>0, <1>o DEF SetupUi
  <2>2. \A v \in Views, s \in Steps : (<<v, s>> \in ui.overtaken /\ <<v, s>> \notin all) =>
           <<store[v].user, s>> = e[1]
    OBVIOUS
  <2>3. \A v \in Views, s \in Steps : <<v, s>> \notin all => <<v, s>> \notin over
    OBVIOUS
  <2>4. ui' = [ui EXCEPT !.overtaken = all]
    BY <1>2
  <2> HIDE DEF all
  <2>5. ui' \in SetupUi /\ ui'.page = ui.page /\ ui'.of = ui.of /\ ui'.overtaken = all
    BY <1>0, <2>1, <2>4 DEF SetupUi
  <2> QED
    BY <1>6, <2>2, <2>3, <2>5
<1>7. ViewsFollow'
  <2> SUFFICES ASSUME NEW v \in Views, NEW s \in Steps, store[v].user \in Users
               PROVE  LET r == <<store[v].user, s>>
                          n == store'[v].seen[s]
                      IN  /\ n <= store.events[r]
                          /\ <<v, s>> \notin ui'.overtaken => Follows(r, n, w, store.events)
    BY <1>4, <1>6 DEF ViewsFollow
  <2> DEFINE r == <<store[v].user, s>>
             n == store'[v].seen[s]
             o == store[v].seen[s]
  <2>1. r \in SetupRows /\ o \in Nat
    BY <1>6 DEF SetupRows, SetupView, Seen
  <2>2. n = IF r = e[1] THEN e[2] ELSE o
    BY <1>6
  <2>3. <<v, s>> \notin ui'.overtaken =>
           <<v, s>> \notin over /\ (<<v, s>> \in ui.overtaken => r = e[1])
    BY <1>5
  <2>4. /\ o <= store.events[r]
        /\ <<v, s>> \notin ui.overtaken => Follows(r, o, store.wire, store.events)
    BY DEF SetupInv, ViewsFollow
  <2> HIDE DEF r, n, o
  <2>5. CASE r = e[1]
    BY <1>1, <1>o, <2>2, <2>3, <2>5 DEF r, n
  <2>6. CASE r # e[1]
    <3>1. n = o
      BY <2>2, <2>6
    <3>2. <<v, s>> \notin ui'.overtaken => Follows(r, n, w, store.events)
      BY <1>1, <2>1, <2>3, <2>4, <2>6, <3>1
    <3> QED
      BY <2>4, <3>1, <3>2 DEF r, n
  <2> QED
    BY <2>5, <2>6
<1>8. AnswersAreOld'
  BY <1>2, <1>4 DEF SetupInv, AnswersAreOld
<1>9. SetupIsOfUser'
  BY <1>2, <1>5, <1>6 DEF SetupInv, SetupIsOfUser, Views
<1>10. Setup!SpinnerIsServed'
  BY <1>2, <1>4, <1>6 DEF SetupInv, Setup!SpinnerIsServed, Views
<1>11. SetupCalls'
  BY <1>0, <1>2 DEF SetupCalls
<1> QED
  BY <1>1, <1>4, <1>5, <1>7, <1>8, <1>9, <1>10, <1>11 DEF SetupInv, SetupTypes

(* A view takes its answer, or the failure of it.                          *)
LEMMA ViewFetched ==
  ASSUME SetupInv, NEW v \in Views, Setup!fetched(v)
  PROVE  SetupInv'
<1>0. store \in SetupStore /\ ui \in SetupUi /\ SetupCalls
  BY DEF SetupInv, SetupTypes
<1>1. v \in Setup!Watchers /\ AtMostOne({}) /\ {} \subseteq SetupCall
  BY DEF Views, Setup!Watchers, Setup!Views, AtMostOne
<1>2. calls' = [calls EXCEPT ![v] = {}]
  BY DEF Setup!fetched
<1>3. /\ SetupCalls' /\ calls'[v] = {}
      /\ \A x \in Setup!Watchers \ {v} : calls'[x] = calls[x]
  BY <1>0, <1>1, <1>2, SetupCallsChange
<1>4. \A x \in Views : x \in Setup!Watchers
  BY DEF Views, Setup!Watchers, Setup!Views
<1>5. \A x \in Views : store[x].user \in Users \cup {NoUser} /\ store[x].seen \in Seen
  BY <1>0 DEF Views, SetupStore, SetupView
<1>6. ASSUME store'.events = store.events
      PROVE  AnswersAreOld'
  BY <1>3, <1>4, <1>6 DEF SetupInv, AnswersAreOld
<1>7. ASSUME ~store'[v].loading, store'.action = store.action,
             \A x \in Views \ {v} : store'[x] = store[x]
      PROVE  Setup!SpinnerIsServed'
  BY <1>3, <1>7 DEF SetupInv, Setup!SpinnerIsServed, Views, Setup!Watchers, Setup!Views
<1>8. CASE store' = Setup!FETCH_ERROR(store, v) /\ ui' = ui
  <2>1. /\ store' \in SetupStore /\ store'.action = store.action
        /\ store'.events = store.events /\ store'.wire = store.wire
        /\ store'[v].user = store[v].user /\ store'[v].seen = store[v].seen
        /\ ~store'[v].loading /\ store'[v].error
        /\ \A x \in Views \ {v} : store'[x] = store[x]
    BY <1>0, <1>8, ViewFailed
  <2>2. ViewsFollow'
    <3>1. \A x \in Views : store'[x].user = store[x].user /\ store'[x].seen = store[x].seen
      BY <2>1
    <3> QED
      BY <1>8, <2>1, <3>1, PortalStays DEF SetupInv, ViewsFollow
  <2>3. SetupIsOfUser'
    <3>1. CASE v = "user"
      BY <1>3, <2>1, <3>1 DEF SetupIsOfUser
    <3>2. CASE v = "admin"
      BY <1>3, <1>4, <1>8, <2>1, <3>2 DEF SetupInv, SetupIsOfUser, Views
    <3> QED
      BY <3>1, <3>2 DEF Views
  <2> QED
    BY <1>0, <1>3, <1>6, <1>7, <1>8, <2>1, <2>2, <2>3, PortalStays DEF SetupInv, SetupTypes
<1>9. ASSUME NEW c \in calls[v],
             store' = Setup!FETCH_SUCCESS(store, v, c.user, c.got),
             ui' = [ui EXCEPT !.overtaken =
                     {p \in ui.overtaken : p[1] # v} \cup
                     {<<v, s>> : s \in {x \in Steps :
                                          Setup!Missed(store, <<c.user, x>>, c.got[x])}}]
      PROVE  SetupInv'
  <2>0. c.user \in Users /\ c.got \in Seen
    BY <1>0, <1>1 DEF SetupCalls, SetupCall
  <2>1. /\ store' \in SetupStore /\ store'.action = store.action
        /\ store'.events = store.events /\ store'.wire = store.wire
        /\ store'[v].user = c.user /\ store'[v].seen = c.got /\ ~store'[v].loading
        /\ \A x \in Views \ {v} : store'[x] = store[x]
    BY <1>0, <1>9, <2>0, ViewTold
  <2>2. \A s \in Steps : c.got[s] <= store.events[<<c.user, s>>]
    BY <1>9 DEF SetupInv, AnswersAreOld
  <2>3. /\ ui' \in SetupUi /\ ui'.page = ui.page /\ ui'.of = ui.of
        /\ \A x \in Views \ {v}, s \in Steps :
              <<x, s>> \in ui'.overtaken <=> <<x, s>> \in ui.overtaken
        /\ \A s \in Steps : <<v, s>> \notin ui'.overtaken =>
              Follows(<<c.user, s>>, c.got[s], store.wire, store.events)
    <3> DEFINE Late == {x \in Steps : Setup!Missed(store, <<c.user, x>>, c.got[x])}
               o == {p \in ui.overtaken : p[1] # v} \cup {<<v, s>> : s \in Late}
    <3>1. ui' = [ui EXCEPT !.overtaken = o]
      BY <1>9
    <3>2. \A s \in Steps \ Late :
            Follows(<<c.user, s>>, c.got[s], store.wire, store.events)
      BY DEF Follows, Setup!Missed
    <3> HIDE DEF Late
    <3>3. o \subseteq Views \X Steps
      <4>1. {p \in ui.overtaken : p[1] # v} \subseteq Views \X Steps
        BY <1>0 DEF SetupUi
      <4>2. Late \subseteq Steps
        BY DEF Late
      <4>3. {<<v, s>> : s \in Late} \subseteq Views \X Steps
        BY <4>2
      <4> QED
        BY <4>1, <4>3
    <3>4. \A s \in Steps : <<v, s>> \notin o => s \notin Late
      OBVIOUS
    <3>5. \A x \in Views \ {v}, s \in Steps : <<x, s>> \in o <=> <<x, s>> \in ui.overtaken
      OBVIOUS
    <3> HIDE DEF o
    <3>6. ui' \in SetupUi /\ ui'.page = ui.page /\ ui'.of = ui.of /\ ui'.overtaken = o
      BY <1>0, <3>1, <3>3 DEF SetupUi
    <3> QED
      BY <3>2, <3>4, <3>5, <3>6
  <2>4. ViewsFollow'
    <3> SUFFICES ASSUME NEW x \in Views, NEW s \in Steps, store'[x].user \in Users
                 PROVE  /\ store'[x].seen[s] <= store.events[<<store'[x].user, s>>]
                        /\ <<x, s>> \notin ui'.overtaken =>
                             Follows(<<store'[x].user, s>>, store'[x].seen[s],
                                     store.wire, store.events)
      BY <2>1, PortalStays DEF ViewsFollow
    <3>1. CASE x = v
      BY <2>1, <2>2, <2>3, <3>1
    <3>2. CASE x # v
      BY <2>1, <2>3, <3>2 DEF SetupInv, ViewsFollow
    <3> QED
      BY <3>1, <3>2
  <2>5. SetupIsOfUser'
    <3>1. CASE v = "user"
      BY <1>3, <1>9, <2>1, <2>3, <3>1 DEF SetupInv, SetupIsOfUser
    <3>2. CASE v = "admin"
      BY <1>3, <1>4, <2>1, <2>3, <3>2 DEF SetupInv, SetupIsOfUser, Views
    <3> QED
      BY <3>1, <3>2 DEF Views
  <2> QED
    BY <1>0, <1>3, <1>6, <1>7, <2>1, <2>3, <2>4, <2>5, PortalStays DEF SetupInv, SetupTypes
<1> QED
  BY <1>8, <1>9 DEF Setup!fetched

(* A step that leaves the views and the portal alone.                      *)
LEMMA ViewsStay ==
  ASSUME SetupInv, store' \in SetupStore, SetupCalls', ui' = ui,
         store'.admin = store.admin, store'.user = store.user,
         store'.events = store.events, store'.wire = store.wire,
         calls'["admin"] = calls["admin"], calls'["user"] = calls["user"],
         store'.action.loading => calls'["action"] # {}
  PROVE  SetupInv'
<1>1. \A v \in Views : store'[v] = store[v] /\ calls'[v] = calls[v]
  BY DEF Views
<1>2. ViewsFollow' /\ AnswersAreOld'
  <2>1. ViewsFollow'
    BY <1>1, PortalStays DEF SetupInv, ViewsFollow
  <2>2. AnswersAreOld'
    BY <1>1 DEF SetupInv, AnswersAreOld
  <2> QED
    BY <2>1, <2>2
<1>3. SetupIsOfUser' /\ Setup!SpinnerIsServed'
  BY DEF SetupInv, SetupIsOfUser, Setup!SpinnerIsServed
<1> QED
  BY <1>2, <1>3, PortalStays DEF SetupInv, SetupTypes

(* An action is done, is told, and is posted.                              *)
LEMMA ActionDone ==
  ASSUME SetupInv, Setup!actionDone
  PROVE  SetupInv'
<1>0. SetupCalls /\ "action" \in Setup!Watchers
  BY DEF SetupInv, SetupTypes, Setup!Watchers, Setup!Views
<1>1. PICK c \in calls["action"] :
        /\ Setup!Happens(<<c.user, c.step>>)
        /\ calls' = [calls EXCEPT !["action"] = {[c EXCEPT !.read = TRUE]}]
        /\ ui' = ui
  BY DEF Setup!actionDone
<1> DEFINE d == [c EXCEPT !.read = TRUE]
<1>2. <<c.user, c.step>> \in SetupRows /\ d \in SetupCall /\ d.step \in Steps
  BY <1>0, <1>1 DEF SetupCalls, SetupCall, SetupInv, SetupRows
<1> HIDE DEF d
<1>3. calls' = [calls EXCEPT !["action"] = {d}] /\ AtMostOne({d}) /\ {d} \subseteq SetupCall
  BY <1>1, <1>2 DEF d, AtMostOne
<1>4. /\ SetupCalls' /\ calls'["action"] = {d}
      /\ \A x \in Setup!Watchers \ {"action"} : calls'[x] = calls[x]
  BY <1>0, <1>2, <1>3, SetupCallsChange
<1>5. \A v \in Views : calls'[v] = calls[v]
  BY <1>4 DEF Views, Setup!Watchers, Setup!Views
<1> QED
  BY <1>1, <1>2, <1>4, <1>5, EventHappens

\* The answer to an action of the staff or of the user keeps it.
LEMMA ActionTold ==
  ASSUME SetupInv, Setup!postOnboardingAction
  PROVE  SetupInv'
<1>0. store \in SetupStore /\ SetupCalls /\ "action" \in Setup!Watchers
  BY DEF SetupInv, SetupTypes, Setup!Watchers, Setup!Views
<1>1. /\ store' = Setup!ACTION_SUCCESS(store) \/ store' = Setup!ACTION_ERROR(store)
      /\ calls' = [calls EXCEPT !["action"] = {}] /\ ui' = ui
  BY DEF Setup!postOnboardingAction
<1>2. /\ store' \in SetupStore /\ store'.admin = store.admin /\ store'.user = store.user
      /\ store'.events = store.events /\ store'.wire = store.wire
      /\ ~store'.action.loading
  BY <1>0, <1>1, ActionReducers
<1>3. AtMostOne({}) /\ {} \subseteq SetupCall
  BY DEF AtMostOne
<1>4. SetupCalls' /\ \A x \in Setup!Watchers \ {"action"} : calls'[x] = calls[x]
  BY <1>0, <1>1, <1>3, SetupCallsChange
<1>5. calls'["admin"] = calls["admin"] /\ calls'["user"] = calls["user"]
  BY <1>4 DEF Setup!Watchers, Setup!Views
<1> QED
  BY <1>1, <1>2, <1>4, <1>5, ViewsStay

\* A call that is opened is one, and has read nothing yet.
LEMMA NewCall ==
  ASSUME NEW u \in Users, NEW s \in Steps \cup {NoUser}
  PROVE  /\ AtMostOne(Setup!Call(u, s)) /\ Setup!Call(u, s) \subseteq SetupCall
         /\ Setup!Call(u, s) # {}
         /\ \A c \in Setup!Call(u, s) :
              c.user = u /\ c.step = s /\ \A x \in Steps : c.got[x] = 0
<1>1. Setup!NoneSeen \in Seen /\ \A x \in Steps : Setup!NoneSeen[x] = 0
  BY DEF Setup!NoneSeen, Seen
<1> QED
  BY <1>1 DEF AtMostOne, SetupCall, Setup!Call

\* An action is posted.
LEMMA ActionPosted ==
  ASSUME SetupInv, NEW u \in Users, NEW s \in Steps, Setup!post(u, s)
  PROVE  SetupInv'
<1>0. store \in SetupStore /\ SetupCalls /\ "action" \in Setup!Watchers
  BY DEF SetupInv, SetupTypes, Setup!Watchers, Setup!Views
<1>1. /\ store' = Setup!ACTION_PROCESSING(store, u, s)
      /\ calls' = [calls EXCEPT !["action"] = Setup!Call(u, s)] /\ ui' = ui
  BY DEF Setup!post
<1>2. /\ store' \in SetupStore /\ store'.admin = store.admin /\ store'.user = store.user
      /\ store'.events = store.events /\ store'.wire = store.wire
  BY <1>0, <1>1, ActionReducers
<1>3. /\ AtMostOne(Setup!Call(u, s)) /\ Setup!Call(u, s) \subseteq SetupCall
      /\ Setup!Call(u, s) # {} /\ \A c \in Setup!Call(u, s) : c.step \in Steps
  BY NewCall
<1>4. /\ SetupCalls' /\ calls'["action"] = Setup!Call(u, s)
      /\ \A x \in Setup!Watchers \ {"action"} : calls'[x] = calls[x]
  BY <1>0, <1>1, <1>3, SetupCallsChange
<1>5. calls'["admin"] = calls["admin"] /\ calls'["user"] = calls["user"]
  BY <1>4 DEF Setup!Watchers, Setup!Views
<1> QED
  BY <1>1, <1>2, <1>3, <1>4, <1>5, ViewsStay

(* A page is opened and asks for its view.                                 *)
LEMMA SetupOpened ==
  ASSUME SetupInv, NEW v \in Views, NEW u \in Users, Setup!fetch(v, u)
  PROVE  SetupInv'
<1>0. store \in SetupStore /\ ui \in SetupUi /\ SetupCalls
  BY DEF SetupInv, SetupTypes
<1>1. /\ store' = Setup!FETCH_PROCESSING(store, v)
      /\ calls' = [calls EXCEPT ![v] = Setup!Call(u, NoUser)]
      /\ ui' = [ui EXCEPT !.page = v, !.of = u]
  BY DEF Setup!fetch
<1>2. /\ store' \in SetupStore /\ store'.action = store.action
      /\ store'.events = store.events /\ store'.wire = store.wire
      /\ store'[v].user = store[v].user /\ store'[v].seen = store[v].seen
      /\ store'[v].loading
      /\ \A x \in Views \ {v} : store'[x] = store[x]
  BY <1>0, <1>1, ViewAsked
<1> DEFINE S == Setup!Call(u, NoUser)
<1>3. /\ AtMostOne(S) /\ S \subseteq SetupCall /\ S # {}
      /\ \A c \in S : c.user = u /\ \A x \in Steps : c.got[x] = 0
  BY NewCall
<1> HIDE DEF S
<1>4. calls' = [calls EXCEPT ![v] = S] /\ v \in Setup!Watchers /\ v # "action"
  BY <1>1 DEF S, Views, Setup!Watchers, Setup!Views
<1>5. /\ SetupCalls' /\ calls'[v] = S
      /\ \A x \in Setup!Watchers \ {v} : calls'[x] = calls[x]
  BY <1>0, <1>3, <1>4, SetupCallsChange
<1>6. \A x \in Views : x \in Setup!Watchers
  BY DEF Views, Setup!Watchers, Setup!Views
<1>7. ui' \in SetupUi /\ ui'.page = v /\ ui'.of = u /\ ui'.overtaken = ui.overtaken
  BY <1>0, <1>1 DEF SetupUi
<1>8. ViewsFollow'
  <2>1. \A x \in Views : store'[x].user = store[x].user /\ store'[x].seen = store[x].seen
    BY <1>2
  <2> QED
    BY <1>2, <1>7, <2>1, PortalStays DEF SetupInv, ViewsFollow
<1>9. AnswersAreOld'
  <2> SUFFICES ASSUME NEW x \in Views, NEW c \in calls'[x], NEW s \in Steps
               PROVE  c.got[s] <= store.events[<<c.user, s>>]
    BY <1>2 DEF AnswersAreOld
  <2>1. CASE x = v
    <3>1. c.user = u /\ c.got[s] = 0 /\ <<u, s>> \in SetupRows
      BY <1>3, <1>5, <2>1 DEF SetupRows
    <3>2. store.events[<<u, s>>] \in Nat
      BY <1>0, <3>1 DEF SetupStore, SetupEvents
    <3> QED
      BY <3>1, <3>2
  <2>2. CASE x # v
    BY <1>5, <1>6, <2>2 DEF SetupInv, AnswersAreOld
  <2> QED
    BY <2>1, <2>2
<1>10. SetupIsOfUser'
  BY <1>2, <1>3, <1>5, <1>7 DEF SetupIsOfUser
<1>11. Setup!SpinnerIsServed'
  <2>1. CASE v = "user"
    BY <1>2, <1>3, <1>5, <2>1 DEF SetupInv, Setup!SpinnerIsServed, Views, Setup!Watchers,
       Setup!Views
  <2>2. CASE v = "admin"
    BY <1>2, <1>3, <1>5, <2>2 DEF SetupInv, Setup!SpinnerIsServed, Views, Setup!Watchers,
       Setup!Views
  <2> QED
    BY <2>1, <2>2 DEF Views
<1> QED
  BY <1>2, <1>5, <1>7, <1>8, <1>9, <1>10, <1>11, PortalStays DEF SetupInv, SetupTypes

\* Every page, saga, event and message keeps the invariant.
LEMMA SetupStep ==
  ASSUME SetupInv, [Setup!Next]_<<store, calls, ui, alive>>
  PROVE  SetupInv'
<1>0. store \in SetupStore /\ ui \in SetupUi /\ SetupCalls
  BY DEF SetupInv, SetupTypes
<1>1. CASE UNCHANGED <<store, calls, ui, alive>>
  <2>1. SetupCalls'
    BY <1>0, <1>1 DEF SetupCalls
  <2> QED
    BY <1>0, <1>1, <2>1, ViewsStay DEF SetupInv, Setup!SpinnerIsServed
<1>2. CASE Setup!queueRuns
  <2>1. PICK r \in SetupRows : Setup!Happens(r) /\ calls' = calls /\ ui' = ui
    BY <1>2 DEF Setup!queueRuns, Setup!Rows, SetupRows
  <2>2. SetupCalls'
    BY <1>0, <2>1 DEF SetupCalls
  <2> QED
    BY <2>1, <2>2, EventHappens
<1>3. CASE Setup!getOnboardingAdminList \/ Setup!getOnboardingAdminIndividualUser
  BY <1>3, ViewFetched
  DEF Setup!getOnboardingAdminList, Setup!getOnboardingAdminIndividualUser, Views
<1>4. CASE Setup!OnboardingUser \/ Setup!OnboardingAdmin
  BY <1>4, SetupOpened DEF Setup!OnboardingUser, Setup!OnboardingAdmin, Views
<1>5. CASE Setup!OnboardingAdminListUser
  <2>1. PICK s \in Steps : Setup!Shown("admin") /\ Setup!post(store.admin.user, s)
    BY <1>5 DEF Setup!OnboardingAdminListUser
  <2>2. store.admin.user \in Users
    BY <1>0, <2>1 DEF Setup!Shown, SetupStore, SetupView
  <2> QED
    BY <2>1, <2>2, ActionPosted
<1>6. CASE Setup!OnboardingActions
  <2>1. PICK s \in Steps : Setup!Shown("user") /\ Setup!post(ui.of, s)
    BY <1>6 DEF Setup!OnboardingActions
  <2>2. store.user.user \in Users /\ ui.of = store.user.user
    BY <1>0, <2>1 DEF SetupInv, SetupIsOfUser, Setup!Shown, SetupStore, SetupView
  <2> QED
    BY <2>1, <2>2, ActionPosted
<1> QED
  BY <1>1, <1>2, <1>3, <1>4, <1>5, <1>6, ActionDone, ViewRead, SocketHandled, ActionTold
  DEF Setup!Next

\* What it says of types, spinners and the last event.
LEMMA SetupHolds ==
  ASSUME SetupInv
  PROVE  Setup!TypeOK /\ Setup!SpinnerIsServed /\ Setup!StateIsCurrent
<1>0. store \in SetupStore /\ ui \in SetupUi /\ SetupCalls
  BY DEF SetupInv, SetupTypes
<1>1. \A w \in Setup!Watchers : Setup!Cardinality(calls[w]) <= 1
  BY <1>0, OneAtMost DEF SetupCalls, Setup!Cardinality, Cardinality
<1>2. \A r \in SetupRows : store.events[r] \in Nat
  BY <1>0 DEF SetupStore, SetupEvents
<1>3. \A v \in Views : store[v].user \in Users \cup {NoUser} /\ store[v].seen \in Seen
  BY <1>0 DEF Views, SetupStore, SetupView
<1>4. \A v \in Views, s \in Steps : store[v].user # NoUser =>
        /\ store[v].user \in Users /\ <<store[v].user, s>> \in SetupRows
        /\ store[v].seen[s] \in 0..store.events[<<store[v].user, s>>]
  <2> SUFFICES ASSUME NEW v \in Views, NEW s \in Steps, store[v].user # NoUser
               PROVE  /\ store[v].user \in Users /\ <<store[v].user, s>> \in SetupRows
                      /\ store[v].seen[s] \in 0..store.events[<<store[v].user, s>>]
    OBVIOUS
  <2>1. store[v].user \in Users /\ <<store[v].user, s>> \in SetupRows
        /\ store[v].seen[s] \in Nat
    BY <1>3 DEF SetupRows, Seen
  <2>2. store[v].seen[s] <= store.events[<<store[v].user, s>>]
    BY <2>1 DEF SetupInv, ViewsFollow
  <2> QED
    BY <1>2, <2>1, <2>2
<1>5. Setup!TypeOK
  BY ONLY <1>1, <1>2, <1>3, <1>4
  DEF Setup!TypeOK, Views, Setup!Views, Setup!Rows, SetupRows
<1>6. Setup!Shown("user") => store.user.user = ui.of
  BY DEF SetupInv, SetupIsOfUser, Setup!Shown
<1>7. ASSUME NEW v \in Views, NEW s \in Steps, Setup!Shown(v),
             <<v, s>> \notin ui.overtaken, ~Setup!InTransit(<<store[v].user, s>>)
      PROVE  store[v].seen[s] = store.events[<<store[v].user, s>>]
  <2> DEFINE r == <<store[v].user, s>>
             n == store[v].seen[s]
  <2>1. r \in SetupRows /\ n \in 0..store.events[r]
        /\ Follows(r, n, store.wire, store.events)
    BY <1>4, <1>7 DEF SetupInv, ViewsFollow, Setup!Shown
  <2>2. \A m : <<r, m>> \notin store.wire
    BY <1>7 DEF Setup!InTransit
  <2> HIDE DEF r, n
  <2>3. \A m \in (n + 1)..store.events[r] : FALSE
    BY <2>1, <2>2 DEF Follows
  <2>4. n = store.events[r]
    BY <1>2, <2>1, <2>3
  <2> QED
    BY <2>4 DEF r, n
<1> QED
  BY <1>5, <1>6, <1>7 DEF SetupInv, Setup!StateIsCurrent, Views, Setup!Views

-----------------------------------------------------------------------------
(* Finite sets of integers, and the sum of a finite family of them.        *)

\* Among sets of finite subsets there is one none of whose parts is another.
LEMMA LeastSubset ==
  ASSUME NEW S, IsFiniteSet(S), NEW B, B \subseteq SUBSET S, B # {}
  PROVE  \E U \in B : \A V \in B : V \subseteq U => V = U
<1> DEFINE R == StrictSubsetOrdering(S)
<1>1. IsWellFoundedOn(R, SUBSET S)
  BY FS_StrictSubsetOrderingWellFounded, FS_FiniteSubsetsOfFinite
<1>2. PICK U \in B : \A V \in B : ~(<<V, U>> \in R)
  <2> HIDE DEF R
  <2> QED
    BY <1>1, WFMin
<1>3. ASSUME NEW V \in B, V \subseteq U
      PROVE  V = U
  BY <1>2, <1>3 DEF StrictSubsetOrdering
<1> QED
  BY <1>2, <1>3

\* A finite set of integers has a least and a greatest element.
LEMMA Extremal ==
  ASSUME NEW S, IsFiniteSet(S), S # {}, S \subseteq Int
  PROVE  /\ \E x \in S : \A y \in S : x <= y
         /\ \E x \in S : \A y \in S : x >= y
<1> DEFINE Low(U) == \E x \in U : \A y \in U : x <= y
           High(U) == \E x \in U : \A y \in U : x >= y
           Bad == {U \in SUBSET S : U # {} /\ ~(Low(U) /\ High(U))}
<1>0. IsFiniteSet(S) /\ Bad \subseteq SUBSET S
  OBVIOUS
<1>1. ASSUME Bad # {}
      PROVE  FALSE
  <2>1. PICK U \in Bad : \A V \in Bad : V \subseteq U => V = U
    <3> HIDE DEF Bad
    <3> QED
      BY ONLY <1>0, <1>1, LeastSubset
  <2>2. PICK x \in U : TRUE
    OBVIOUS
  <2> DEFINE V == U \ {x}
  <2>3. V \notin Bad
    BY <2>1, <2>2
  <2>4. CASE V = {}
    <3>1. U = {x} /\ x \in Int
      BY <2>2, <2>4
    <3>2. Low(U) /\ High(U)
      BY <3>1
    <3> QED
      BY <3>2
  <2>5. CASE V # {}
    <3>1. PICK l \in V : \A y \in V : l <= y
      BY <2>3, <2>5
    <3>2. PICK h \in V : \A y \in V : h >= y
      BY <2>3, <2>5
    <3>3. U = V \cup {x} /\ x \in Int /\ l \in Int /\ h \in Int /\ V \subseteq Int
      BY <2>2, <3>1, <3>2
    <3> HIDE DEF V
    <3>4. Low(U)
      <4>1. CASE x <= l
        <5>1. \A y \in U : x <= y
          BY <3>1, <3>3, <4>1
        <5> QED
          BY <5>1, <2>2
      <4>2. CASE l <= x
        <5>1. \A y \in U : l <= y
          BY <3>1, <3>3, <4>2
        <5> QED
          BY <5>1, <3>3
      <4> QED
        BY <3>3, <4>1, <4>2
    <3>5. High(U)
      <4>1. CASE x >= h
        <5>1. \A y \in U : x >= y
          BY <3>2, <3>3, <4>1
        <5> QED
          BY <5>1, <2>2
      <4>2. CASE h >= x
        <5>1. \A y \in U : h >= y
          BY <3>2, <3>3, <4>2
        <5> QED
          BY <5>1, <3>3
      <4> QED
        BY <3>3, <4>1, <4>2
    <3> QED
      BY <3>4, <3>5
  <2> QED
    BY <2>4, <2>5
<1> QED
  BY <1>1

\* How a sum over the subsets of S is taken, one element at a time.
SumsUp(f, U, w) ==
  \A s \in SUBSET U :
     f[s] = IF s = {} THEN 0
            ELSE w[CHOOSE x \in s : TRUE] + f[s \ {CHOOSE x \in s : TRUE}]

\* A recursive sum is that of the rest and of the member taken out.
LEMMA SumStep ==
  ASSUME NEW U, NEW w, NEW f, SumsUp(f, U, w), NEW s \in SUBSET U, s # {},
         NEW d, d = CHOOSE x \in s : TRUE
  PROVE  f[s] = w[d] + f[s \ {d}]
  BY DEF SumsUp

\* The recursion over a set holds over each of its parts.
LEMMA SumsOfPart ==
  ASSUME NEW U, NEW w, NEW f, SumsUp(f, U, w), NEW s \in SUBSET U
  PROVE  SumsUp(f, s, w)
  BY DEF SumsUp

\* Two functions that sum up the same family agree.
LEMMA SumsAgree ==
  ASSUME NEW S, IsFiniteSet(S), NEW w, NEW f, NEW g, SumsUp(f, S, w), SumsUp(g, S, w)
  PROVE  \A s \in SUBSET S : f[s] = g[s]
<1> DEFINE Bad == {s \in SUBSET S : f[s] # g[s]}
<1>1. ASSUME Bad # {}
      PROVE  FALSE
  <2>1. PICK U \in Bad : \A V \in Bad : V \subseteq U => V = U
    <3>1. Bad \subseteq SUBSET S
      OBVIOUS
    <3> HIDE DEF Bad
    <3> QED
      BY <1>1, <3>1, LeastSubset
  <2>2. U # {} /\ U \in SUBSET S /\ f[U] # g[U]
    BY <2>1 DEF SumsUp
  <2>3. PICK c : c = CHOOSE x \in U : TRUE
    OBVIOUS
  <2>4. c \in U
    BY <2>2, <2>3
  <2>5. f[U] = w[c] + f[U \ {c}] /\ g[U] = w[c] + g[U \ {c}]
    BY <2>2, <2>3 DEF SumsUp
  <2>6. f[U \ {c}] = g[U \ {c}]
    BY <2>1, <2>2, <2>4
  <2> QED
    BY <2>2, <2>5, <2>6
<1> QED
  BY <1>1

\* A finite family of integers can be summed up.
LEMMA SumsExist ==
  ASSUME NEW S, IsFiniteSet(S), NEW w, \A x \in S : w[x] \in Int
  PROVE  \E f \in [SUBSET S -> Int] : SumsUp(f, S, w)
<1> DEFINE Good(U) == \E f \in [SUBSET U -> Int] : SumsUp(f, U, w)
           Bad == {U \in SUBSET S : ~Good(U)}
<1>1. ASSUME Bad # {}
      PROVE  FALSE
  <2>1. PICK U \in Bad : \A V \in Bad : V \subseteq U => V = U
    <3>1. Bad \subseteq SUBSET S
      OBVIOUS
    <3> HIDE DEF Bad
    <3> QED
      BY <1>1, <3>1, LeastSubset
  <2>2. \A V \in SUBSET U : V # U => Good(V)
    BY <2>1
  <2>u. U \in SUBSET S /\ ~Good(U)
    BY <2>1
  <2> DEFINE F(V) == CHOOSE f \in [SUBSET V -> Int] : SumsUp(f, V, w)
             c == CHOOSE x \in U : TRUE
             g == [s \in SUBSET U |->
                     IF s # U THEN F(s)[s]
                     ELSE IF U = {} THEN 0 ELSE w[c] + F(U \ {c})[U \ {c}]]
  <2>3. ASSUME NEW V \in SUBSET U, V # U
        PROVE  F(V) \in [SUBSET V -> Int] /\ SumsUp(F(V), V, w)
    BY <2>2, <2>3
  <2> HIDE DEF F
  <2>4. ASSUME U # {}
        PROVE  c \in U /\ w[c] \in Int /\ U \ {c} # U /\ U \ {c} \in SUBSET U
    BY <2>4, <2>u
  <2>5. g \in [SUBSET U -> Int]
    <3>1. ASSUME NEW s \in SUBSET U
          PROVE  (IF s # U THEN F(s)[s]
                  ELSE IF U = {} THEN 0 ELSE w[c] + F(U \ {c})[U \ {c}]) \in Int
      <4>1. CASE s # U
        <5>1. F(s) \in [SUBSET s -> Int] /\ s \in SUBSET s
          BY <2>3, <4>1
        <5>2. F(s)[s] \in Int
          BY ONLY <5>1
        <5> QED
          BY <4>1, <5>2
      <4>2. CASE s = U /\ U # {}
        <5> DEFINE V == U \ {c}
        <5>1. F(V) \in [SUBSET V -> Int] /\ V \in SUBSET V /\ w[c] \in Int
          BY <2>3, <2>4, <4>2
        <5>2. F(V)[V] \in Int
          <6> HIDE DEF V
          <6> QED
            BY ONLY <5>1
        <5> QED
          BY <4>2, <5>1, <5>2
      <4> QED
        BY <4>1, <4>2
    <3> QED
      BY <3>1
  <2>6. ASSUME NEW s \in SUBSET U, s # {}, NEW d, d = CHOOSE x \in s : TRUE
        PROVE  g[s] = w[d] + g[s \ {d}]
    <3>1. d \in s /\ s \ {d} \in SUBSET U /\ s \ {d} # U /\ s \ {d} \in SUBSET s
      BY <2>6
    <3>2. g[s \ {d}] = F(s \ {d})[s \ {d}]
      BY <3>1
    <3>3. CASE s = U
      BY <2>6, <3>2, <3>3
    <3>4. CASE s # U
      <4>1. g[s] = F(s)[s]
        BY <3>4
      <4>2. F(s)[s] = w[d] + F(s)[s \ {d}]
        <5>0. PICK f : f = F(s)
          OBVIOUS
        <5>1. SumsUp(f, s, w) /\ s \in SUBSET s /\ s # {}
          BY <2>3, <2>6, <3>4, <5>0
        <5>2. f[s] = w[d] + f[s \ {d}]
          BY ONLY <5>1, d = CHOOSE x \in s : TRUE DEF SumsUp
        <5> QED
          BY <5>0, <5>2
      <4>3. SumsUp(F(s), s \ {d}, w)
        <5>1. SumsUp(F(s), s, w)
          BY <2>3, <3>4
        <5> QED
          BY ONLY <5>1, <3>1, SumsOfPart
      <4>4. SumsUp(F(s \ {d}), s \ {d}, w)
        BY <2>3, <3>1
      <4>5. IsFiniteSet(s \ {d})
        BY <2>u, <3>1, FS_Subset
      <4>6. F(s)[s \ {d}] = F(s \ {d})[s \ {d}]
        BY <4>3, <4>4, <4>5, SumsAgree
      <4> QED
        BY <3>2, <4>1, <4>2, <4>6
    <3> QED
      BY <3>3, <3>4
  <2>7. g[{}] = 0
    <3>1. CASE U = {}
      BY <3>1
    <3>2. CASE U # {}
      <4>1. g[{}] = F({})[{}]
        BY <3>2
      <4> QED
        BY <2>3, <3>2, <4>1 DEF SumsUp
    <3> QED
      BY <3>1, <3>2
  <2> HIDE DEF g
  <2>8. SumsUp(g, U, w)
    BY <2>6, <2>7 DEF SumsUp
  <2> QED
    BY <2>5, <2>8, <2>u
<1> QED
  BY <1>1

\* The sum of a finite family of integers is an integer.
LEMMA SumTyped ==
  ASSUME NEW S, IsFiniteSet(S), NEW w, \A x \in S : w[x] \in Int,
         NEW iter, SumsUp(iter, S, w)
  PROVE  iter[S] \in Int
<1>1. PICK f \in [SUBSET S -> Int] : SumsUp(f, S, w)
  BY SumsExist
<1>2. S \in SUBSET S
  OBVIOUS
<1>3. iter[S] = f[S]
  BY ONLY <1>1, <1>2, SumsAgree, IsFiniteSet(S), SumsUp(iter, S, w)
<1>4. f[S] \in Int
  BY ONLY <1>1, <1>2
<1> QED
  BY <1>3, <1>4

-----------------------------------------------------------------------------
(* The colours of the county map.                                          *)

\* The whole part of a quotient.
LEMMA Quotient ==
    ASSUME NEW a \in Int, NEW d \in Int, d > 0
    PROVE  /\ a \div d \in Int
           /\ (a \div d) * d <= a
           /\ a < (a \div d) * d + d
  BY Z3

\* A multiple of d is told by the two multiples it lies between.
LEMMA SameMultiple ==
    ASSUME NEW i \in Int, NEW j \in Int, NEW d \in Int, d > 0,
           i * d <= j * d, j * d < i * d + d
    PROVE  i = j
<1>1. CASE i < j
  <2>1. i + 1 <= j
    BY <1>1
  <2>2. (i + 1) * d <= j * d
    BY <2>1, Z3
  <2>3. (i + 1) * d = i * d + d
    BY Z3
  <2> QED
    BY <2>2, <2>3
<1>2. CASE j < i
  <2>1. j + 1 <= i
    BY <1>2
  <2>2. (j + 1) * d <= i * d
    BY <2>1, Z3
  <2>3. (j + 1) * d = j * d + d
    BY Z3
  <2> QED
    BY <2>2, <2>3
<1> QED
  BY <1>1, <1>2

\* A whole value is a multiple of One.
LEMMA Multiple ==
    ASSUME One \in Int, One > 0, NEW v \in Int, Board!Whole(v)
    PROVE  \E k \in Int : v = k * One
<1>1. v = One * (v \div One) + (v % One) /\ v \div One \in Int
  BY Z3
<1> QED
  BY <1>1 DEF Board!Whole

\* When few whole numbers are possible, all of them lie n - 1 ones apart.
LEMMA FewWholes ==
    ASSUME One \in Int, One > 0,
           NEW m, m.min \in Int, m.max \in Int, m.min < m.max,
           Board!singleValueClasses(m)
    PROVE  /\ Board!numberIntervals(m) \in 2..6
           /\ m.max - m.min = (Board!numberIntervals(m) - 1) * One
<1>1. Board!Whole(m.min) /\ Board!Whole(m.max) /\ Board!numberPossibleClasses(m) <= 6
  BY DEF Board!singleValueClasses
<1>2. PICK a \in Int, b \in Int : m.min = a * One /\ m.max = b * One
  BY <1>1, Multiple
<1>3. m.max - m.min = (b - a) * One
  BY <1>2, Z3
<1> DEFINE p == (m.max - m.min) \div One
<1>4. /\ p \in Int /\ p * One <= m.max - m.min
      /\ m.max - m.min < p * One + One
  BY Quotient
<1> HIDE DEF p
<1>5. p = b - a
  BY <1>3, <1>4, SameMultiple
<1>6. p > 0
  <2>1. CASE p <= 0
    <3>1. p * One <= 0
      BY <2>1, <1>4, Z3
    <3> QED
      BY <3>1, <1>3, <1>5, <1>2
  <2> QED
    BY <2>1, <1>4
<1>7. Board!numberIntervals(m) = p + 1 /\ p + 1 <= 6
  BY <1>1 DEF Board!numberIntervals, Board!numberPossibleClasses, p
<1> QED
  BY <1>3, <1>4, <1>5, <1>6, <1>7

\* The bin a value falls in, before the last one is made the limit.
LEMMA Bin ==
    ASSUME NEW n \in Int, NEW x \in Int, NEW d \in Int, d > 0, 0 <= x, n > 0,
           NEW b, b = (n * x) \div d
    PROVE  b \in Nat /\ b * d <= n * x /\ n * x < b * d + d
<1>1. b \in Int /\ b * d <= n * x /\ n * x < b * d + d
  <2>1. n * x \in Int
    OBVIOUS
  <2> QED
    BY <2>1, Quotient
<1>2. n * x >= 0
  BY Z3
<1>3. b >= 0
  <2>1. CASE b <= -1
    <3>1. b * d <= (-1) * d
      BY <2>1, <1>1, Z3
    <3> QED
      BY <3>1, <1>1, <1>2
  <2> QED
    BY <2>1, <1>1
<1> QED
  BY <1>1, <1>3

\* One number only: one class.
LEMMA OneNumber ==
    ASSUME One \in Int, One > 0,
           NEW m, m.min \in Int, m.max = m.min
    PROVE  /\ Board!singleValueClasses(m) /\ Board!numberIntervals(m) = 1
           /\ Board!getColor(m, m.min) = 0 /\ Board!InClass(m, m.min, 0)
<1>1. (m.max - m.min) \div One = 0
  <2>1. m.max - m.min = 0
    OBVIOUS
  <2>2. 0 \div One = 0
    BY Z3
  <2> QED
    BY <2>1, <2>2
<1>2. Board!singleValueClasses(m) /\ Board!numberIntervals(m) = 1
  BY <1>1 DEF Board!singleValueClasses, Board!numberIntervals, Board!numberPossibleClasses
<1>3. Board!intervalLabel(m, 0) = m.min
  BY DEF Board!intervalLabel
<1> QED
  BY <1>2, <1>3 DEF Board!getColor, Board!InClass

\* Classes that are numbers: x parts above the least value.
LEMMA NumberOfWholes ==
    ASSUME One \in Int, One > 0,
           NEW n \in 2..6, NEW x \in Int, 0 <= x, x <= (n - 1) * One,
           NEW b \in Nat, NEW i \in Int,
           b * ((n - 1) * One) <= n * x,
           n * x < b * ((n - 1) * One) + (n - 1) * One,
           i = IF b < n - 1 THEN b ELSE n - 1
    PROVE  /\ i \in 0..(n - 1)
           /\ x < i * One + One /\ i * One < x + One
           /\ \A k \in 0..5 : x = k * One => x = i * One
<1>1. CASE n = 2
  BY <1>1, Z3
<1>2. CASE n = 3
  BY <1>2, Z3
<1>3. CASE n = 4
  BY <1>3, Z3
<1>4. CASE n = 5
  BY <1>4, Z3
<1>5. CASE n = 6
  BY <1>5, Z3
<1> QED
  BY <1>1, <1>2, <1>3, <1>4, <1>5

\* Six intervals of d between them.
LEMMA SixIntervals ==
    ASSUME NEW d \in Int, d > 0, NEW x \in Int, 0 <= x, x <= d,
           NEW b \in Nat, NEW i \in Int,
           b * d <= 6 * x, 6 * x < b * d + d,
           i = IF b < 5 THEN b ELSE 5
    PROVE  i \in 0..5 /\ i * d <= 6 * x /\ 6 * x <= (i + 1) * d
<1>1. CASE b < 5
  <2>1. (b + 1) * d = b * d + d
    BY Z3
  <2> QED
    BY <1>1, <2>1
<1>2. CASE b >= 5
  <2>1. 5 * d <= b * d
    BY <1>2, Z3
  <2> QED
    BY <1>2, <2>1
<1> QED
  BY <1>1, <1>2

\* Every value from the least to the greatest gets one of the colours that are
\* there, and the line of the legend with that colour is right about it
\* (getColor against the interval labels, for counts and for rates).
THEOREM ValueIsInItsClass ==
    ASSUME One \in Int, One > 0,
           NEW m, m.min \in Int, m.max \in Int, NEW v \in Int,
           m.min <= v, v <= m.max
    PROVE  Board!getColor(m, v) \in Board!Legend(m)
      /\ Board!InClass(m, v, Board!getColor(m, v))
<1>1. CASE m.min = m.max
  BY <1>1, OneNumber DEF Board!Legend
<1>2. CASE m.min < m.max
  <2> DEFINE x == v - m.min
             d == m.max - m.min
             n == Board!numberIntervals(m)
             b == (n * x) \div d
             i == Board!getColor(m, v)
  <2>1. x \in Int /\ 0 <= x /\ x <= d /\ d \in Int /\ d > 0 /\ v = m.min + x
    BY <1>2
  <2>2. CASE Board!singleValueClasses(m)
    <3>1. n \in 2..6 /\ d = (n - 1) * One
      BY <1>2, <2>2, FewWholes
    <3>2. b \in Nat /\ b * d <= n * x /\ n * x < b * d + d
      <4>1. b = (n * x) \div d
        OBVIOUS
      <4> HIDE DEF n, x, d, b
      <4> QED
        BY <2>1, <3>1, <4>1, Bin
    <3>3. i = IF b < n - 1 THEN b ELSE n - 1
      BY <3>1 DEF Board!getColor
    <3>4. i \in Int
      BY <3>1, <3>2, <3>3
    <3> HIDE DEF n, x, d, b, i
    <3>5. /\ i \in 0..(n - 1)
          /\ x < i * One + One /\ i * One < x + One
          /\ \A k \in 0..5 : x = k * One => x = i * One
      BY <2>1, <3>1, <3>2, <3>3, <3>4, NumberOfWholes
    <3>6. i \in Board!Legend(m)
      BY <3>1, <3>5 DEF Board!Legend, n
    <3>7. \A k \in Int : Board!intervalLabel(m, k) = m.min + k * One
      BY DEF Board!intervalLabel
    <3>8. /\ v < Board!intervalLabel(m, i) + One
          /\ Board!intervalLabel(m, i) < v + One
      BY <2>1, <3>4, <3>5, <3>7
    <3>9. ASSUME NEW k \in 0..5, v = Board!intervalLabel(m, k)
          PROVE  v = Board!intervalLabel(m, i)
      <4>1. v = m.min + k * One /\ k * One \in Int /\ i * One \in Int
        BY <3>4, <3>7, <3>9
      <4>2. x = k * One
        BY <2>1, <4>1
      <4> QED
        BY <2>1, <3>4, <3>5, <3>7, <4>2
    <3>10. Board!InClass(m, v, i)
      BY <2>2, <3>8, <3>9 DEF Board!InClass
    <3> QED
      BY <3>6, <3>10 DEF i
  <2>3. CASE ~Board!singleValueClasses(m)
    <3>1. n = 6
      BY <2>3 DEF Board!numberIntervals
    <3>2. b \in Nat /\ b * d <= 6 * x /\ 6 * x < b * d + d
      <4>1. b = (n * x) \div d
        OBVIOUS
      <4> HIDE DEF n, x, d, b
      <4> QED
        BY <2>1, <3>1, <4>1, Bin
    <3>3. i = IF b < 5 THEN b ELSE 5
      BY <3>1, <3>2 DEF Board!getColor
    <3>4. i \in Int
      BY <3>2, <3>3
    <3> HIDE DEF n, b, i
    <3>5. i \in 0..5 /\ i * d <= 6 * x /\ 6 * x <= (i + 1) * d
      BY <2>1, <3>2, <3>3, <3>4, SixIntervals
    <3>6. Board!InClass(m, v, i)
      BY <2>3, <3>1, <3>5 DEF Board!InClass, n
    <3> QED
      BY <3>1, <3>5, <3>6 DEF Board!Legend, n, i
  <2> QED
    BY <2>2, <2>3
<1> QED
  BY <1>1, <1>2

-----------------------------------------------------------------------------
(* The dashboards: the values of the map and their extremes.               *)

\* The image of a finite set is finite.
LEMMA ImageFinite ==
  ASSUME NEW S, IsFiniteSet(S), NEW f
  PROVE  IsFiniteSet({f[x] : x \in S})
<1> DEFINE T == {f[x] : x \in S}
           g == [x \in S |-> f[x]]
<1>1. g \in Surjection(S, T)
  BY DEF Surjection
<1> QED
  BY <1>1, FS_Surjection

\* The portal's whole number of parts of a value.
LEMMA DictTyped ==
  ASSUME One \in Nat \ {0}, NEW v \in Int, NEW r \in BOOLEAN
  PROVE  Board!create_dict(v, r) \in Int
<1>1. v % One \in Int
  OBVIOUS
<1> QED
  BY <1>1 DEF Board!create_dict

\* Each value lies between the extremes of a finite set.
LEMMA ExtremesFit ==
  ASSUME NEW S, IsFiniteSet(S), S \subseteq Int, NEW v \in S
  PROVE  \E m \in Board!Extremes(S) :
            m.min \in Int /\ m.max \in Int /\ m.min <= v /\ v <= m.max
<1>1. (\E x \in S : \A y \in S : x <= y) /\ (\E x \in S : \A y \in S : x >= y)
  BY Extremal
<1>2. PICK a : a = CHOOSE x \in S : \A y \in S : x <= y
  OBVIOUS
<1>3. PICK b : b = CHOOSE x \in S : \A y \in S : x >= y
  OBVIOUS
<1>4. a \in S /\ a <= v
  BY <1>1, <1>2
<1>5. b \in S /\ b >= v
  BY <1>1, <1>3
<1>6. Board!Extremes(S) = {[min |-> a, max |-> b]}
  BY <1>2, <1>3 DEF Board!Extremes, Board!Min, Board!Max
<1> QED
  BY <1>4, <1>5, <1>6

\* What is picked on the page.
Selections ==
  [route : Board!Routes, open : BOOLEAN, types : SUBSET Types, feature : Features,
   year : Years, county : Counties \cup {NoCounty}, showRate : BOOLEAN,
   zoomed : BOOLEAN, forgotten : BOOLEAN]

\* The values of all selected types together are an integer.
LEMMA AggregateTyped ==
  ASSUME Board!BoardAssumption, NEW u \in Selections, NEW c \in Counties
  PROVE  Board!getMaltreatmentAggregatedValue(u, c) \in Int
<1>0. PICK w : w = Board!getMaltreatmentSelectedValues(u, c)
  OBVIOUS
<1>1. IsFiniteSet(u.types)
  <2>1. IsFiniteSet(Types)
    BY DEF Board!BoardAssumption, Board!IsFiniteSet, IsFiniteSet
  <2>2. u.types \in SUBSET Types
    BY DEF Selections
  <2> QED
    BY ONLY <2>1, <2>2, FS_Subset
<1>2. ASSUME NEW t \in u.types
      PROVE  w[t] \in Int
  <2>1. Maltreated[t][u.year][u.showRate][c] \in Int
    BY DEF Selections, Board!BoardAssumption
  <2>2. w[t] = Board!create_dict(Maltreated[t][u.year][u.showRate][c], u.showRate)
    BY <1>0 DEF Board!getMaltreatmentSelectedValues
  <2>3. u.showRate \in BOOLEAN /\ One \in Nat \ {0}
    BY DEF Selections, Board!BoardAssumption
  <2> QED
    BY <2>1, <2>2, <2>3, DictTyped
<1>3. PICK S : S = u.types
  OBVIOUS
<1>4. IsFiniteSet(S) /\ \A x \in S : w[x] \in Int
  BY <1>1, <1>2, <1>3
<1> DEFINE Sums(f) == f = [s \in SUBSET S |->
                             IF s = {} THEN 0
                             ELSE LET x == CHOOSE x \in s : TRUE
                                  IN w[x] + f[s \ {x}]]
           iter == CHOOSE f : Sums(f)
<1>5. SumsUp(iter, S, w)
  <2>1. PICK f \in [SUBSET S -> Int] : SumsUp(f, S, w)
    BY <1>4, SumsExist
  <2>2. Sums(f)
    BY <2>1 DEF SumsUp
  <2>3. Sums(iter)
    <3> HIDE DEF Sums
    <3> QED
      BY <2>2
  <2> HIDE DEF iter
  <2> QED
    BY <2>3 DEF SumsUp
<1>6. iter[S] \in Int
  <2> HIDE DEF iter
  <2> QED
    BY ONLY <1>4, <1>5, SumTyped
<1>7. Board!getMaltreatmentAggregatedValue(u, c) = iter[S]
  BY <1>0, <1>3 DEF Board!getMaltreatmentAggregatedValue,
        Board!MapThenSumSet, Board!MapThenFoldSet
<1> QED
  BY <1>6, <1>7

\* A value that is coloured lies between the extremes of what is selected.
LEMMA ValueFits ==
  ASSUME Board!BoardAssumption, NEW u \in Selections, NEW c \in Counties,
         Board!Value(u, c) # 0
  PROVE  /\ Board!Value(u, c) \in Int
         /\ \E m \in Board!getMetaData(u) :
               /\ m.min \in Int /\ m.max \in Int
               /\ m.min <= Board!Value(u, c) /\ Board!Value(u, c) <= m.max
<1>1. IsFiniteSet(Counties) /\ One \in Nat \ {0}
  BY DEF Board!BoardAssumption, Board!IsFiniteSet, IsFiniteSet
<1>2. CASE u.route = "maltreatment"
  <2> DEFINE f == [d \in Counties |-> Board!getMaltreatmentAggregatedValue(u, d)]
             S == {f[d] : d \in Counties} \ {0}
  <2>1. \A d \in Counties : f[d] \in Int
    BY AggregateTyped
  <2>2. S = {Board!getMaltreatmentAggregatedValue(u, d) : d \in Counties} \ {0}
    OBVIOUS
  <2>3. Board!getMetaData(u) = Board!Extremes(S)
    BY <1>2, <2>2 DEF Board!getMetaData, Board!getMaltreatmentMetaData
  <2>4. Board!Value(u, c) = f[c]
    BY <1>2 DEF Board!Value
  <2> HIDE DEF f
  <2>5. IsFiniteSet(S)
    <3>1. IsFiniteSet({f[d] : d \in Counties})
      BY <1>1, ImageFinite
    <3>2. S \subseteq {f[d] : d \in Counties}
      OBVIOUS
    <3> QED
      BY <3>1, <3>2, FS_Subset
  <2>6. S \subseteq Int /\ Board!Value(u, c) \in S
    BY <2>1, <2>4
  <2> HIDE DEF S
  <2> QED
    BY <2>3, <2>5, <2>6, ExtremesFit
<1>3. CASE u.route # "maltreatment"
  <2> DEFINE rows == Observed[u.feature][u.showRate]
             f == [d \in DOMAIN rows |-> Board!create_dict(rows[d], u.showRate)]
             S == {f[d] : d \in DOMAIN rows}
  <2>0. u.showRate \in BOOLEAN /\ u.feature \in Features
    BY DEF Selections
  <2>1. DOMAIN rows \subseteq Counties /\ \A d \in DOMAIN rows : rows[d] \in Int
    BY <2>0 DEF Board!BoardAssumption
  <2>2. S = {Board!create_dict(rows[d], u.showRate) : d \in DOMAIN rows}
    OBVIOUS
  <2>3. Board!getMetaData(u) = Board!Extremes(S)
    BY <1>3, <2>2 DEF Board!getMetaData, Board!getObservedFeaturesMetaData
  <2>4. c \in DOMAIN rows /\ Board!Value(u, c) = f[c]
    BY <1>3 DEF Board!Value, Board!getObservedFeatureValue
  <2>5. \A d \in DOMAIN rows : f[d] \in Int
    BY <1>1, <2>0, <2>1, DictTyped
  <2> HIDE DEF f
  <2>6. IsFiniteSet(S)
    <3>1. IsFiniteSet(DOMAIN rows)
      BY <1>1, <2>1, FS_Subset
    <3> QED
      BY <3>1, ImageFinite
  <2>7. S \subseteq Int /\ Board!Value(u, c) \in S
    BY <2>4, <2>5
  <2> HIDE DEF S
  <2> QED
    BY <2>3, <2>6, <2>7, ExtremesFit
<1> QED
  BY <1>2, <1>3

\* Every county with a value is coloured, and its colour stands for the value.
LEMMA ColourFits ==
  ASSUME Board!BoardAssumption, NEW u \in Selections, NEW c \in Counties,
         Board!Value(u, c) # 0
  PROVE  \E m \in Board!getMetaData(u) : \E i \in Board!getFeatureStyle(u, c) :
            i \in Board!Legend(m) /\ Board!InClass(m, Board!Value(u, c), i)
<1>1. PICK v : v = Board!Value(u, c)
  OBVIOUS
<1>2. PICK m \in Board!getMetaData(u) :
         m.min \in Int /\ m.max \in Int /\ m.min <= v /\ v <= m.max
  BY <1>1, ValueFits
<1>3. v \in Int /\ One \in Int /\ One > 0
  BY <1>1, ValueFits DEF Board!BoardAssumption
<1>4. Board!getColor(m, v) \in Board!Legend(m)
      /\ Board!InClass(m, v, Board!getColor(m, v))
  BY ONLY <1>2, <1>3, ValueIsInItsClass
<1>5. Board!getColor(m, v) \in Board!getFeatureStyle(u, c)
  BY <1>1, <1>2 DEF Board!getFeatureStyle
<1> QED
  BY <1>1, <1>2, <1>4, <1>5

-----------------------------------------------------------------------------
(* The dashboards: the chart.                                              *)

ChartQuestions ==
  [county : Counties, feature : Features, rate : BOOLEAN]
AnyQuestions ==
  [county : Counties \cup {NoCounty}, feature : Features, rate : BOOLEAN]
ChartStates == [loading : BOOLEAN, error : BOOLEAN, of : AnyQuestions]
BoardStores ==
  [protx : [loading : BOOLEAN, error : BOOLEAN], distribution : ChartStates,
   setupComplete : BOOLEAN]

\* Whether a chart is on the page.
Charted(u) == u.route = "demographics" /\ u.county # NoCounty

\* The chart of u is being fetched, or it is there; or it was forgotten.
\* d is the state of the chart and open the open calls for one.
ChartIsOf(d, open, u) ==
  /\ AtMostOne(open)
  /\ open # {} => d.loading /\ ~d.error
  /\ Charted(u) /\ d.loading /\ ~d.error => open # {}
  /\ Charted(u) /\ ~u.forgotten =>
        /\ \A q \in open : q = Board!Question(u)
        /\ ~d.loading => d.of = Board!Question(u)

BoardInv ==
  /\ store \in BoardStores
  /\ ui \in Selections
  /\ calls \in [protx : SUBSET {"all"}, distribution : SUBSET ChartQuestions]
  /\ ui.county # NoCounty => ui.zoomed /\ ui.open
  /\ ui.open /\ store.protx.loading /\ ~store.protx.error => calls.protx # {}
  /\ ChartIsOf(store.distribution, calls.distribution, ui)

\* The question of a selection is a question, and one for the chart when a
\* county is selected.
LEMMA QuestionTyped ==
  ASSUME NEW u \in Selections
  PROVE  /\ Board!Question(u) \in AnyQuestions
         /\ u.county # NoCounty => Board!Question(u) \in ChartQuestions
  BY DEF Selections, AnyQuestions, ChartQuestions, Board!Question

\* A dashboard is opened in its invariant.
LEMMA BoardStart ==
  ASSUME Board!BoardAssumption, Board!Init
  PROVE  BoardInv
<1>1. PICK r \in Board!Routes :
        ui = [route |-> r, open |-> FALSE, types |-> {InitialType},
              feature |-> InitialFeature, year |-> Latest, county |-> NoCounty,
              showRate |-> TRUE, zoomed |-> FALSE, forgotten |-> FALSE]
  BY DEF Board!Init
<1>2. InitialType \in Types /\ InitialFeature \in Features /\ Latest \in Years
  BY DEF Board!BoardAssumption
<1>3. ui \in Selections
  BY <1>1, <1>2 DEF Selections
<1>4. store \in BoardStores
  BY <1>2 DEF Board!Init, Board!initialState, Board!initialDistribution,
              Board!NoQuestion, BoardStores, ChartStates, AnyQuestions
<1>5. calls = [protx |-> {}, distribution |-> {}]
  BY DEF Board!Init
<1>6. ChartIsOf(store.distribution, calls.distribution, ui)
  BY <1>1, <1>5 DEF ChartIsOf, Charted, AtMostOne
<1> QED
  BY <1>1, <1>3, <1>4, <1>5, <1>6 DEF BoardInv

\* A choice on the page, and what becomes of the chart.
LEMMA BoardChange ==
  ASSUME Board!BoardAssumption, BoardInv, NEW u, u \in Selections, u.route = ui.route,
    u.open = ui.open,
         u.forgotten = ui.forgotten, u.county # NoCounty => u.zoomed /\ u.open,
         Board!Change(u)
  PROVE  BoardInv'
<1> DEFINE q == Board!Question(u)
           open == Board!takeLeading(calls.distribution, q)
<1>0. /\ store \in BoardStores /\ ui \in Selections
      /\ calls \in [protx : SUBSET {"all"}, distribution : SUBSET ChartQuestions]
      /\ ui.open /\ store.protx.loading /\ ~store.protx.error => calls.protx # {}
      /\ ChartIsOf(store.distribution, calls.distribution, ui)
  BY DEF BoardInv
<1>1. CASE Charted(u) /\ q # Board!Question(ui)
  <2>1. /\ calls' = [calls EXCEPT !.distribution = open]
        /\ IF open = calls.distribution THEN UNCHANGED store
           ELSE store' = Board!DISTRIBUTION_INIT(store)
        /\ ui' = [u EXCEPT !.forgotten = q \notin open]
    BY <1>1 DEF Charted, Board!Change, Board!ObservedFeaturesChart
  <2>2. q \in ChartQuestions
    BY <1>1, QuestionTyped DEF Charted
  <2>3. /\ ui' \in Selections /\ ui'.county = u.county /\ ui'.zoomed = u.zoomed
        /\ ui'.open = ui.open /\ ui'.forgotten = (q \notin open)
        /\ ui'.route = u.route /\ ui'.feature = u.feature
        /\ ui'.showRate = u.showRate
    BY <2>1 DEF Selections
  <2>4. Board!Question(ui') = q
    BY <2>3 DEF Board!Question
  <2>c. /\ calls'.protx = calls.protx /\ calls'.distribution = open
        /\ calls' \in [protx : SUBSET {"all"}, distribution : SUBSET ChartQuestions]
    BY <1>0, <2>1, <2>2 DEF Board!takeLeading
  <2> HIDE DEF q
  <2>5. CASE calls.distribution = {}
    <3>1. open = {q} /\ open # calls.distribution
      BY <2>5 DEF Board!takeLeading
    <3>2. store' = Board!DISTRIBUTION_INIT(store)
      BY <2>1, <3>1
    <3>3. /\ Board!initialDistribution \in ChartStates
          /\ Board!initialDistribution.loading /\ ~Board!initialDistribution.error
      BY DEF Board!BoardAssumption, Board!initialDistribution, Board!NoQuestion,
             ChartStates, AnyQuestions
    <3>4. /\ store'.distribution = Board!initialDistribution
          /\ store'.protx = store.protx /\ store' \in BoardStores
      BY <1>0, <3>2, <3>3 DEF BoardStores, Board!DISTRIBUTION_INIT
    <3>5. ChartIsOf(store'.distribution, calls'.distribution, ui')
      <4>1. store'.distribution.loading /\ ~store'.distribution.error
        BY <3>3, <3>4
      <4>2. calls'.distribution = {q}
        BY <2>c, <3>1
      <4> QED
        BY <2>4, <4>1, <4>2 DEF ChartIsOf, AtMostOne
    <3> QED
      BY <1>0, <2>c, <2>3, <3>4, <3>5 DEF BoardInv
  <2>6. CASE calls.distribution # {}
    <3>1. open = calls.distribution /\ store' = store
      BY <2>1, <2>6 DEF Board!takeLeading
    <3>2. ChartIsOf(store'.distribution, calls'.distribution, ui')
      BY <1>0, <2>c, <2>3, <2>4, <2>6, <3>1 DEF ChartIsOf, AtMostOne
    <3> QED
      BY <1>0, <2>c, <2>3, <3>1, <3>2 DEF BoardInv
  <2> QED
    BY <2>5, <2>6
<1>2. CASE ~(Charted(u) /\ q # Board!Question(ui))
  <2>1. ui' = u /\ store' = store /\ calls' = calls
    BY <1>2 DEF Charted, Board!Change, Board!ObservedFeaturesChart
  <2>2. Charted(u) => Board!Question(u) = Board!Question(ui) /\ Charted(ui)
    BY <1>2 DEF Charted, Board!Question
  <2>3. ChartIsOf(store.distribution, calls.distribution, u)
    BY <1>0, <2>2 DEF ChartIsOf
  <2> QED
    BY <1>0, <2>1, <2>3 DEF BoardInv
<1> QED
  BY <1>1, <1>2

\* Every selection, request and answer keeps it.
LEMMA BoardStep ==
  ASSUME Board!BoardAssumption, BoardInv,
         [Board!Next]_<<store, calls, ui, alive>>
  PROVE  BoardInv'
<1>0. /\ store \in BoardStores /\ ui \in Selections
      /\ calls \in [protx : SUBSET {"all"}, distribution : SUBSET ChartQuestions]
      /\ ui.county # NoCounty => ui.zoomed /\ ui.open
      /\ ui.open /\ store.protx.loading /\ ~store.protx.error => calls.protx # {}
      /\ ChartIsOf(store.distribution, calls.distribution, ui)
  BY DEF BoardInv
<1>1. CASE Board!fetchProtx
  <2>1. /\ store'.distribution = store.distribution /\ store' \in BoardStores
        /\ store'.protx.loading => store'.protx.error
    <3>1. CASE store' = Board!PROTX_SUCCESS(store)
      BY <1>0, <3>1 DEF BoardStores, Board!PROTX_SUCCESS
    <3>2. CASE store' = Board!PROTX_FAILURE(store)
      BY <1>0, <3>2 DEF BoardStores, Board!PROTX_FAILURE, Board!initialState
    <3> QED
      BY <1>1, <3>1, <3>2 DEF Board!fetchProtx
  <2>2. /\ ui' = ui /\ calls'.distribution = calls.distribution
        /\ calls' \in [protx : SUBSET {"all"}, distribution : SUBSET ChartQuestions]
    BY <1>0, <1>1 DEF Board!fetchProtx
  <2> QED
    BY <1>0, <2>1, <2>2 DEF BoardInv
<1>2. CASE Board!fetchProtxDemographicDistribution
  <2>1. PICK q \in calls.distribution :
          /\ \/ store' = Board!DISTRIBUTION_SUCCESS(store, q)
             \/ store' = Board!DISTRIBUTION_FAILURE(store)
          /\ calls' = [calls EXCEPT !.distribution = @ \ {q}]
          /\ UNCHANGED <<ui, alive>>
    BY <1>2 DEF Board!fetchProtxDemographicDistribution
  <2>2. q \in ChartQuestions /\ q \in AnyQuestions
    BY <1>0, <2>1 DEF ChartQuestions, AnyQuestions
  <2>3. /\ calls'.distribution = {} /\ calls'.protx = calls.protx
        /\ calls' \in [protx : SUBSET {"all"}, distribution : SUBSET ChartQuestions]
    BY <1>0, <2>1 DEF ChartIsOf, AtMostOne
  <2>4. /\ store'.protx = store.protx /\ store' \in BoardStores
        /\ \/ ~store'.distribution.loading /\ store'.distribution.of = q
           \/ store'.distribution.loading /\ store'.distribution.error
    <3>1. CASE store' = Board!DISTRIBUTION_SUCCESS(store, q)
      BY <1>0, <2>2, <3>1 DEF BoardStores, ChartStates, Board!DISTRIBUTION_SUCCESS
    <3>2. CASE store' = Board!DISTRIBUTION_FAILURE(store)
      <4>1. Board!NoQuestion \in AnyQuestions
        BY DEF Board!BoardAssumption, Board!NoQuestion, AnyQuestions
      <4> QED
        BY <1>0, <3>2, <4>1 DEF BoardStores, ChartStates,
              Board!DISTRIBUTION_FAILURE, Board!initialDistribution
    <3> QED
      BY <2>1, <3>1, <3>2
  <2>5. ChartIsOf(store'.distribution, calls'.distribution, ui')
    BY <1>0, <2>1, <2>3, <2>4 DEF ChartIsOf, AtMostOne
  <2> QED
    BY <1>0, <2>1, <2>3, <2>4, <2>5 DEF BoardInv
<1>3. CASE Board!DashboardDisplay
  <2>1. /\ ui' = [ui EXCEPT !.open = TRUE, !.showRate = ui.route # "analytics"]
        /\ store' = Board!PROTX_INIT(store)
        /\ calls' = [calls EXCEPT !.protx = {"all"}]
    BY <1>3 DEF Board!DashboardDisplay
  <2>2. /\ ui' \in Selections /\ ui'.county = ui.county /\ ui'.zoomed = ui.zoomed
        /\ ui.county = NoCounty /\ ui'.open
    BY <1>0, <1>3, <2>1 DEF Selections, Board!DashboardDisplay
  <2>3. store' \in BoardStores /\ store'.distribution = store.distribution
    BY <1>0, <2>1 DEF BoardStores, Board!PROTX_INIT, Board!initialState
  <2>4. /\ calls'.protx # {} /\ calls'.distribution = calls.distribution
        /\ calls' \in [protx : SUBSET {"all"}, distribution : SUBSET ChartQuestions]
    BY <1>0, <2>1
  <2>5. ChartIsOf(store'.distribution, calls'.distribution, ui')
    BY <1>0, <2>2, <2>3, <2>4 DEF ChartIsOf, Charted
  <2> QED
    BY <1>0, <2>2, <2>3, <2>4, <2>5 DEF BoardInv
<1>4. CASE Board!MaltreatmentSelector
  <2>1. PICK t \in Types : Board!Change([ui EXCEPT
          !.types = IF t \in @ THEN @ \ {t} ELSE @ \cup {t}])
    BY <1>4 DEF Board!MaltreatmentSelector
  <2>0. ui.open
    BY <2>1 DEF Board!Change, Board!Shown
  <2>2. PICK u : u = [ui EXCEPT !.types = IF t \in @ THEN @ \ {t} ELSE @ \cup {t}]
    OBVIOUS
  <2>3. /\ u \in Selections /\ u.route = ui.route /\ u.open = ui.open
        /\ u.forgotten = ui.forgotten /\ (u.county # NoCounty => u.zoomed /\ u.open)
    BY <1>0, <2>0, <2>2 DEF Selections
  <2> QED
    BY <2>1, <2>2, <2>3, BoardChange
<1>5. CASE Board!setYear
  <2>1. PICK y \in Years : Board!Change([ui EXCEPT !.year = y])
    BY <1>5 DEF Board!setYear
  <2>0. ui.open
    BY <2>1 DEF Board!Change, Board!Shown
  <2>2. PICK u : u = [ui EXCEPT !.year = y]
    OBVIOUS
  <2>3. /\ u \in Selections /\ u.route = ui.route /\ u.open = ui.open
        /\ u.forgotten = ui.forgotten /\ (u.county # NoCounty => u.zoomed /\ u.open)
    BY <1>0, <2>0, <2>2 DEF Selections
  <2> QED
    BY <2>1, <2>2, <2>3, BoardChange
<1>6. CASE Board!setObservedFeature
  <2>1. PICK f \in Features : Board!Change([ui EXCEPT !.feature = f])
    BY <1>6 DEF Board!setObservedFeature
  <2>0. ui.open
    BY <2>1 DEF Board!Change, Board!Shown
  <2>2. PICK u : u = [ui EXCEPT !.feature = f]
    OBVIOUS
  <2>3. /\ u \in Selections /\ u.route = ui.route /\ u.open = ui.open
        /\ u.forgotten = ui.forgotten /\ (u.county # NoCounty => u.zoomed /\ u.open)
    BY <1>0, <2>0, <2>2 DEF Selections
  <2> QED
    BY <2>1, <2>2, <2>3, BoardChange
<1>7. CASE Board!changeShowRate
  <2>1. Board!Change([ui EXCEPT !.showRate = ~@])
    BY <1>7 DEF Board!changeShowRate
  <2>0. ui.open
    BY <2>1 DEF Board!Change, Board!Shown
  <2>2. PICK u : u = [ui EXCEPT !.showRate = ~@]
    OBVIOUS
  <2>3. /\ u \in Selections /\ u.route = ui.route /\ u.open = ui.open
        /\ u.forgotten = ui.forgotten /\ (u.county # NoCounty => u.zoomed /\ u.open)
    BY <1>0, <2>0, <2>2 DEF Selections
  <2> QED
    BY <2>1, <2>2, <2>3, BoardChange
<1>8. CASE Board!click
  <2>1. PICK c \in Counties :
          IF c = ui.county THEN Board!Change([ui EXCEPT !.county = NoCounty])
          ELSE Board!Change([ui EXCEPT !.county = c, !.zoomed = TRUE])
    BY <1>8 DEF Board!click
  <2>0. ui.open
    BY <2>1 DEF Board!Change, Board!Shown
  <2>2. PICK u : u = IF c = ui.county THEN [ui EXCEPT !.county = NoCounty]
                     ELSE [ui EXCEPT !.county = c, !.zoomed = TRUE]
    OBVIOUS
  <2>3. /\ u \in Selections /\ u.route = ui.route /\ u.open = ui.open
        /\ u.forgotten = ui.forgotten /\ (u.county # NoCounty => u.zoomed /\ u.open)
    BY <1>0, <2>0, <2>2 DEF Selections
  <2>4. Board!Change(u)
    BY <2>1, <2>2
  <2> QED
    BY <2>3, <2>4, BoardChange
<1>9. CASE Board!handleZoom
  <2>1. Board!Change([ui EXCEPT !.zoomed = ~@,
                                !.county = IF ui.zoomed THEN NoCounty ELSE @])
    BY <1>9 DEF Board!handleZoom
  <2>0. ui.open
    BY <2>1 DEF Board!Change, Board!Shown
  <2>2. PICK u : u = [ui EXCEPT !.zoomed = ~@,
                                !.county = IF ui.zoomed THEN NoCounty ELSE @]
    OBVIOUS
  <2>3. /\ u \in Selections /\ u.route = ui.route /\ u.open = ui.open
        /\ u.forgotten = ui.forgotten /\ (u.county # NoCounty => u.zoomed /\ u.open)
    BY <1>0, <2>0, <2>2 DEF Selections
  <2> QED
    BY <2>1, <2>2, <2>3, BoardChange
<1>10. CASE UNCHANGED <<store, calls, ui, alive>>
  BY <1>0, <1>10 DEF BoardInv
<1> QED
  BY <1>1, <1>2, <1>3, <1>4, <1>5, <1>6, <1>7, <1>8, <1>9, <1>10 DEF Board!Next

\* What it says, with the values of the map, of types, spinners, the chart and
\* the colours.
LEMMA BoardHolds ==
  ASSUME Board!BoardAssumption, BoardInv
  PROVE  /\ Board!TypeOK /\ Board!SpinnerIsServed /\ Board!PlotIsOfSelection
         /\ Board!ColourIsInClass
<1>0. /\ store \in BoardStores /\ ui \in Selections
      /\ calls \in [protx : SUBSET {"all"}, distribution : SUBSET ChartQuestions]
      /\ ui.county # NoCounty => ui.zoomed /\ ui.open
      /\ ui.open /\ store.protx.loading /\ ~store.protx.error => calls.protx # {}
      /\ ChartIsOf(store.distribution, calls.distribution, ui)
  BY DEF BoardInv
<1>1. Board!TypeOK
  BY <1>0 DEF Board!TypeOK, Selections, ChartQuestions
<1>2. Board!SpinnerIsServed
  BY <1>0 DEF Board!SpinnerIsServed, ChartIsOf, Charted
<1>3. Board!PlotIsOfSelection
  BY <1>0 DEF Board!PlotIsOfSelection, ChartIsOf, Charted
<1>4. Board!ColourIsInClass
  BY <1>0, ColourFits DEF Board!ColourIsInClass
<1> QED
  BY <1>1, <1>2, <1>3, <1>4
-----------------------------------------------------------------------------
(* All pages together: the invariant of the one that is open.  No step     *)
(* leaves a page, so each is inductive on its own.                         *)
WorkbenchInv ==
  /\ page = "listings" => FilesNow
  /\ page = "operations" => OpsNow
  /\ page = "form" => FormInv
  /\ page = "allocations" => AllocationInv
  /\ page = "tickets" => DeskInv
  /\ page = "account" => AccountInv
  /\ page = "projects" => SharedInv
  /\ page = "setup" => SetupInv
  /\ page = "dashboard" => BoardInv
  /\ page = "data" => CacheInv
  /\ page = "keys" => KeysNow
  /\ page = "token" => TokenInv

\* Every page is opened in a state of its invariant.
LEMMA WorkbenchStart == ASSUME Init PROVE WorkbenchInv
<1>1. ASSUME page = "listings" PROVE FilesNow
  <2>1. FileList!Init
    BY <1>1 DEF Init
  <2> QED
    BY ONLY <2>1, FilesStart
<1>2. ASSUME page = "operations" PROVE OpsNow
  <2>1. FileOps!Init
    BY <1>2 DEF Init
  <2> QED
    BY ONLY <2>1, OpsStart
<1>3. ASSUME page = "form" PROVE FormInv
  <2>1. Form!Init
    BY <1>3 DEF Init
  <2> QED
    BY ONLY <2>1, FormStart
<1>4. ASSUME page = "allocations" PROVE AllocationInv
  <2>1. Allocations!Init
    BY <1>4 DEF Init
  <2> QED
    BY ONLY <2>1, AllocationStart
<1>5. ASSUME page = "tickets" PROVE DeskInv
  <2>1. Desk!Init
    BY <1>5 DEF Init
  <2> QED
    BY ONLY <2>1, DeskStart
<1>6. ASSUME page = "account" PROVE AccountInv
  <2>1. Account!Init
    BY <1>6 DEF Init
  <2> QED
    BY ONLY <2>1, AccountStart
<1>7. ASSUME page = "projects" PROVE SharedInv
  <2>1. Shared!Init
    BY <1>7 DEF Init
  <2> QED
    BY ONLY <2>1, SharedStart
<1>8. ASSUME page = "setup" PROVE SetupInv
  <2>1. Setup!Init
    BY <1>8 DEF Init
  <2> QED
    BY ONLY <2>1, SetupStart
<1>9. ASSUME page = "dashboard" PROVE BoardInv
  <2>1. Board!Init
    BY <1>9 DEF Init
  <2> QED
    BY ONLY WorkbenchAssumption, <2>1, BoardStart
<1>10. ASSUME page = "data" PROVE CacheInv
  <2>1. Data!Init
    BY <1>10 DEF Init
  <2> QED
    BY ONLY WorkbenchAssumption, <2>1, CacheStart
<1>11. ASSUME page = "keys" PROVE KeysNow
  <2>1. Keys!Init
    BY <1>11 DEF Init
  <2> QED
    BY ONLY <2>1, KeysStart
<1>12. ASSUME page = "token" PROVE TokenInv
  <2>1. Token!Init
    BY <1>12 DEF Init
  <2> QED
    BY ONLY <2>1, TokenStart
<1> QED
  BY <1>1, <1>2, <1>3, <1>4, <1>5, <1>6, <1>7, <1>8, <1>9, <1>10, <1>11, <1>12
     DEF WorkbenchInv

\* A step of the workbench is one of the page that is open, or none of it.
LEMMA WorkbenchStep == ASSUME WorkbenchInv, [Next]_vars PROVE WorkbenchInv'
<1>0. page' = page
  BY DEF Next, vars
<1>1. ASSUME page' = "listings" PROVE FilesNow'
  <2>1. page = "listings"
    BY <1>0, <1>1
  <2>2. FilesNow
    BY <2>1 DEF WorkbenchInv
  <2>3. [FileList!Next]_<<store, calls, ui, alive>>
    BY <2>1 DEF Next, vars
  <2> QED
    BY ONLY <2>2, <2>3, FilesStep
<1>2. ASSUME page' = "operations" PROVE OpsNow'
  <2>1. page = "operations"
    BY <1>0, <1>2
  <2>2. OpsNow
    BY <2>1 DEF WorkbenchInv
  <2>3. [FileOps!Next]_<<store, calls, ui, alive>>
    BY <2>1 DEF Next, vars
  <2> QED
    BY ONLY <2>2, <2>3, OpsStep
<1>3. ASSUME page' = "form" PROVE FormInv'
  <2>1. page = "form"
    BY <1>0, <1>3
  <2>2. FormInv
    BY <2>1 DEF WorkbenchInv
  <2>3. [Form!Next]_<<store, calls, ui, alive>>
    BY <2>1 DEF Next, vars
  <2> QED
    BY ONLY <2>2, <2>3, FormStep
<1>4. ASSUME page' = "allocations" PROVE AllocationInv'
  <2>1. page = "allocations"
    BY <1>0, <1>4
  <2>2. AllocationInv
    BY <2>1 DEF WorkbenchInv
  <2>3. [Allocations!Next]_<<store, calls, ui, alive>>
    BY <2>1 DEF Next, vars
  <2> QED
    BY ONLY <2>2, <2>3, AllocationStep
<1>5. ASSUME page' = "tickets" PROVE DeskInv'
  <2>1. page = "tickets"
    BY <1>0, <1>5
  <2>2. DeskInv
    BY <2>1 DEF WorkbenchInv
  <2>3. [Desk!Next]_<<store, calls, ui, alive>>
    BY <2>1 DEF Next, vars
  <2> QED
    BY ONLY <2>2, <2>3, DeskStep
<1>6. ASSUME page' = "account" PROVE AccountInv'
  <2>1. page = "account"
    BY <1>0, <1>6
  <2>2. AccountInv
    BY <2>1 DEF WorkbenchInv
  <2>3. [Account!Next]_<<store, calls, ui, alive>>
    BY <2>1 DEF Next, vars
  <2> QED
    BY ONLY <2>2, <2>3, AccountStep
<1>7. ASSUME page' = "projects" PROVE SharedInv'
  <2>1. page = "projects"
    BY <1>0, <1>7
  <2>2. SharedInv
    BY <2>1 DEF WorkbenchInv
  <2>3. [Shared!Next]_<<store, calls, ui, alive>>
    BY <2>1 DEF Next, vars
  <2> QED
    BY ONLY <2>2, <2>3, SharedStep
<1>8. ASSUME page' = "setup" PROVE SetupInv'
  <2>1. page = "setup"
    BY <1>0, <1>8
  <2>2. SetupInv
    BY <2>1 DEF WorkbenchInv
  <2>3. [Setup!Next]_<<store, calls, ui, alive>>
    BY <2>1 DEF Next, vars
  <2> QED
    BY ONLY <2>2, <2>3, SetupStep
<1>9. ASSUME page' = "dashboard" PROVE BoardInv'
  <2>1. page = "dashboard"
    BY <1>0, <1>9
  <2>2. BoardInv
    BY <2>1 DEF WorkbenchInv
  <2>3. [Board!Next]_<<store, calls, ui, alive>>
    BY <2>1 DEF Next, vars
  <2> QED
    BY ONLY WorkbenchAssumption, <2>2, <2>3, BoardStep
<1>10. ASSUME page' = "data" PROVE CacheInv'
  <2>1. page = "data"
    BY <1>0, <1>10
  <2>2. CacheInv
    BY <2>1 DEF WorkbenchInv
  <2>3. [Data!Next]_<<store, calls, ui, alive>>
    BY <2>1 DEF Next, vars
  <2> QED
    BY ONLY WorkbenchAssumption, <2>2, <2>3, CacheStep
<1>11. ASSUME page' = "keys" PROVE KeysNow'
  <2>1. page = "keys"
    BY <1>0, <1>11
  <2>2. KeysNow
    BY <2>1 DEF WorkbenchInv
  <2>3. [Keys!Next]_<<store, calls, ui, alive>>
    BY <2>1 DEF Next, vars
  <2> QED
    BY ONLY <2>2, <2>3, KeysStep
<1>12. ASSUME page' = "token" PROVE TokenInv'
  <2>1. page = "token"
    BY <1>0, <1>12
  <2>2. TokenInv
    BY <2>1 DEF WorkbenchInv
  <2>3. [Token!Next]_<<store, calls, ui, alive>>
    BY <2>1 DEF Next, vars
  <2> QED
    BY ONLY <2>2, <2>3, TokenStep
<1> QED
  BY <1>1, <1>2, <1>3, <1>4, <1>5, <1>6, <1>7, <1>8, <1>9, <1>10, <1>11, <1>12
     DEF WorkbenchInv

\* Hence the invariant holds always.
LEMMA WorkbenchAlways == Spec => []WorkbenchInv
<1>1. Init => WorkbenchInv
  BY WorkbenchStart
<1>2. WorkbenchInv /\ [Next]_vars => WorkbenchInv'
  BY WorkbenchStep
<1> QED
  BY <1>1, <1>2, PTL DEF Spec

-----------------------------------------------------------------------------
(* What the invariant says of the browser, for every value of the          *)
(* constants that fits WorkbenchAssumption.                                *)

\* Whatever page is open, its part of the store, its open calls and its
\* components keep their types, for any folders, files, applications, teams,
\* tickets, workspaces, users, counties, systems and requests.
THEOREM WorkbenchTypes == Spec => []TypeOK
<1>1. WorkbenchInv => TypeOK
  <2>0. SUFFICES ASSUME WorkbenchInv PROVE TypeOK
    OBVIOUS
  <2>1. ASSUME page = "listings" PROVE FileList!TypeOK
    <3>1. FilesNow
      BY <2>0, <2>1 DEF WorkbenchInv
    <3> QED
      BY ONLY <3>1, FilesHold
  <2>2. ASSUME page = "operations" PROVE FileOps!TypeOK
    <3>1. OpsNow
      BY <2>0, <2>2 DEF WorkbenchInv
    <3> QED
      BY ONLY <3>1, OpsHold
  <2>3. ASSUME page = "form" PROVE Form!TypeOK
    <3>1. FormInv
      BY <2>0, <2>3 DEF WorkbenchInv
    <3> QED
      BY ONLY <3>1, FormHolds
  <2>4. ASSUME page = "allocations" PROVE Allocations!TypeOK
    <3>1. AllocationInv
      BY <2>0, <2>4 DEF WorkbenchInv
    <3> QED
      BY ONLY <3>1, AllocationHolds
  <2>5. ASSUME page = "tickets" PROVE Desk!TypeOK
    <3>1. DeskInv
      BY <2>0, <2>5 DEF WorkbenchInv
    <3> QED
      BY ONLY <3>1, DeskHolds
  <2>6. ASSUME page = "account" PROVE Account!TypeOK
    <3>1. AccountInv
      BY <2>0, <2>6 DEF WorkbenchInv
    <3> QED
      BY ONLY <3>1, AccountHolds
  <2>7. ASSUME page = "projects" PROVE Shared!TypeOK
    <3>1. SharedInv
      BY <2>0, <2>7 DEF WorkbenchInv
    <3> QED
      BY ONLY <3>1, SharedHolds
  <2>8. ASSUME page = "setup" PROVE Setup!TypeOK
    <3>1. SetupInv
      BY <2>0, <2>8 DEF WorkbenchInv
    <3> QED
      BY ONLY <3>1, SetupHolds
  <2>9. ASSUME page = "dashboard" PROVE Board!TypeOK
    <3>1. BoardInv
      BY <2>0, <2>9 DEF WorkbenchInv
    <3> QED
      BY ONLY <3>1, WorkbenchAssumption, BoardHolds
  <2>10. ASSUME page = "data" PROVE Data!TypeOK
    <3>1. CacheInv
      BY <2>0, <2>10 DEF WorkbenchInv
    <3> QED
      BY ONLY <3>1, CacheHolds
  <2>11. ASSUME page = "keys" PROVE Keys!TypeOK
    <3>1. KeysNow
      BY <2>0, <2>11 DEF WorkbenchInv
    <3> QED
      BY ONLY <3>1, KeysHold
  <2>12. ASSUME page = "token" PROVE Token!TypeOK
    <3>1. TokenInv
      BY <2>0, <2>12 DEF WorkbenchInv
    <3> QED
      BY ONLY <3>1, TokenHolds
  <2> QED
    BY <2>1, <2>2, <2>3, <2>4, <2>5, <2>6, <2>7, <2>8, <2>9, <2>10, <2>11, <2>12 DEF TypeOK
<1> QED
  BY <1>1, WorkbenchAlways, PTL

\* While a page shows a spinner, the call that takes it away is open, but for
\* the exceptions each page names, of which a failed scroll is one.
THEOREM SpinnersAreServed == Spec => []SpinnerIsServed
<1>1. WorkbenchInv => SpinnerIsServed
  <2>0. SUFFICES ASSUME WorkbenchInv PROVE SpinnerIsServed
    OBVIOUS
  <2>1. ASSUME page = "listings" PROVE FileList!SpinnerIsServed
    <3>1. FilesNow
      BY <2>0, <2>1 DEF WorkbenchInv
    <3> QED
      BY ONLY <3>1, FilesHold
  <2>2. ASSUME page = "operations" PROVE FileOps!SpinnerIsServed
    <3>1. OpsNow
      BY <2>0, <2>2 DEF WorkbenchInv
    <3> QED
      BY ONLY <3>1, OpsHold
  <2>3. ASSUME page = "form" PROVE Form!SpinnerIsServed
    <3>1. FormInv
      BY <2>0, <2>3 DEF WorkbenchInv
    <3> QED
      BY ONLY <3>1, FormHolds
  <2>4. ASSUME page = "allocations" PROVE Allocations!SpinnerIsServed
    <3>1. AllocationInv
      BY <2>0, <2>4 DEF WorkbenchInv
    <3> QED
      BY ONLY <3>1, AllocationHolds
  <2>5. ASSUME page = "tickets" PROVE Desk!SpinnerIsServed
    <3>1. DeskInv
      BY <2>0, <2>5 DEF WorkbenchInv
    <3> QED
      BY ONLY <3>1, DeskHolds
  <2>6. ASSUME page = "account" PROVE Account!SpinnerIsServed
    <3>1. AccountInv
      BY <2>0, <2>6 DEF WorkbenchInv
    <3> QED
      BY ONLY <3>1, AccountHolds
  <2>7. ASSUME page = "projects" PROVE Shared!SpinnerIsServed
    <3>1. SharedInv
      BY <2>0, <2>7 DEF WorkbenchInv
    <3> QED
      BY ONLY <3>1, SharedHolds
  <2>8. ASSUME page = "setup" PROVE Setup!SpinnerIsServed
    <3>1. SetupInv
      BY <2>0, <2>8 DEF WorkbenchInv
    <3> QED
      BY ONLY <3>1, SetupHolds
  <2>9. ASSUME page = "dashboard" PROVE Board!SpinnerIsServed
    <3>1. BoardInv
      BY <2>0, <2>9 DEF WorkbenchInv
    <3> QED
      BY ONLY <3>1, WorkbenchAssumption, BoardHolds
  <2> QED
    BY <2>1, <2>2, <2>3, <2>4, <2>5, <2>6, <2>7, <2>8, <2>9 DEF SpinnerIsServed
<1> QED
  BY <1>1, WorkbenchAlways, PTL

\* However many listings and scrolls of however many folders cross, no first
\* page of a folder comes up under the name of another, and the rows are the
\* first ones of the folder, each once and in order, unless a scroll outlived
\* its listing.
THEOREM ListingsAreOfTheirFolder == Spec => []ListingIsOfFolder
<1>1. WorkbenchInv => ListingIsOfFolder
  BY FilesHold DEF WorkbenchInv, ListingIsOfFolder
<1> QED
  BY <1>1, WorkbenchAlways, PTL

\* Whatever opens and closes while calls are open, the preview and the link a
\* window shows are of the file it names, but for two things: a window of a
\* preview that is still opening may show what was asked for the one before,
\* and a link is another's when the request for it was forgotten.
THEOREM WindowsAreOfTheirFile == Spec => []WindowIsOfFile
<1>1. WorkbenchInv => WindowIsOfFile
  BY OpsHold DEF WorkbenchInv, WindowIsOfFile
<1> QED
  BY <1>1, WorkbenchAlways, PTL

\* What the address names is what its page shows, edits and submits, whichever
\* answers of earlier addresses arrive in between.
THEOREM PagesAreOfTheirRoute == Spec => []PageIsOfRoute
<1>1. WorkbenchInv => PageIsOfRoute
  <2>0. SUFFICES ASSUME WorkbenchInv PROVE PageIsOfRoute
    OBVIOUS
  <2>1. ASSUME page = "form" PROVE Form!FormIsOfRoute
    <3>1. FormInv
      BY <2>0, <2>1 DEF WorkbenchInv
    <3> QED
      BY ONLY <3>1, FormHolds
  <2>2. ASSUME page = "projects" PROVE Shared!ProjectIsOfPage
    <3>1. SharedInv
      BY <2>0, <2>2 DEF WorkbenchInv
    <3> QED
      BY ONLY <3>1, SharedHolds
  <2> QED
    BY <2>1, <2>2 DEF PageIsOfRoute
<1> QED
  BY <1>1, WorkbenchAlways, PTL

\* No job that was sent, or sent again, asks for more time than its queue
\* allows, as far as the last six digits of what was entered go and if the
\* queue allows any time.
THEOREM RunTimesFit == Spec => []RunTimeFits
<1>1. WorkbenchInv => RunTimeFits
  BY FormHolds DEF WorkbenchInv, RunTimeFits
<1> QED
  BY <1>1, WorkbenchAlways, PTL

\* The thread on show is of the ticket in the title, in order and without an
\* entry twice, unless a reply of a closed window was told since; and a ticket
\* called created is in every listing that did not fail.
THEOREM DesksAreCurrent == Spec => []DeskIsCurrent
<1>1. WorkbenchInv => DeskIsCurrent
  BY DeskHolds DEF WorkbenchInv, DeskIsCurrent
<1> QED
  BY <1>1, WorkbenchAlways, PTL

\* The required form and the password form never tell of a success and of an
\* error at once, however submissions and windows overlap.
THEOREM VerdictsAreOne == Spec => []OneVerdict
<1>1. WorkbenchInv => OneVerdict
  BY AccountHolds DEF WorkbenchInv, OneVerdict
<1> QED
  BY <1>1, WorkbenchAlways, PTL

\* The page of a user is of the user asked for last and, like the listing,
\* shows the last event of a step once no message of that step is to come,
\* unless an answer or a message came later than another message of the step
\* that tells of a later event; and that stays so, whatever other steps tell,
\* until the step has another event or the page is fetched again.
THEOREM StatesAreCurrent == Spec => []StateIsCurrent
<1>1. WorkbenchInv => StateIsCurrent
  BY SetupHolds DEF WorkbenchInv, StateIsCurrent
<1> QED
  BY <1>1, WorkbenchAlways, PTL

\* The demographic chart is of the county, the feature and the unit above it,
\* unless they changed back to what they are while another one was fetched.
THEOREM PlotsAreOfTheirSelection == Spec => []PlotIsOfSelection
<1>1. WorkbenchInv => PlotIsOfSelection
  BY WorkbenchAssumption, BoardHolds DEF WorkbenchInv, PlotIsOfSelection
<1> QED
  BY <1>1, WorkbenchAlways, PTL

\* Whatever is selected of any counties and values, a county with a value has
\* a colour, it is one of the legend's, and it stands for the class the value
\* lies in.
THEOREM ColoursAreInTheirClass == Spec => []ColourIsInClass
<1>1. WorkbenchInv => ColourIsInClass
  BY WorkbenchAssumption, BoardHolds DEF WorkbenchInv, ColourIsInClass
<1> QED
  BY <1>1, WorkbenchAlways, PTL

\* An answer from the cache is not older than its file was when it was asked
\* for, unless the entry came late.
THEOREM CachedAnswersAreCurrent == Spec => []AnswerIsCurrent
<1>1. WorkbenchInv => AnswerIsCurrent
  BY CacheHolds DEF WorkbenchInv, AnswerIsCurrent
<1> QED
  BY <1>1, WorkbenchAlways, PTL

\* Once a request about a system has ended well and none was open meanwhile,
\* Tapis, the portal and the host hold the same key pair, for any systems,
\* hosts and callers; and the portal can renew the token it has, unless an
\* answer was lost or a renewal without the lock crossed another one.
THEOREM CredentialsAreAgreed == Spec => []CredentialsAgree
<1>1. WorkbenchInv => CredentialsAgree
  <2>0. SUFFICES ASSUME WorkbenchInv PROVE CredentialsAgree
    OBVIOUS
  <2>1. ASSUME page = "keys" PROVE Keys!KeysAgree
    <3>1. KeysNow
      BY <2>0, <2>1 DEF WorkbenchInv
    <3> QED
      BY ONLY <3>1, KeysHold
  <2>2. ASSUME page = "token" PROVE Token!TokenIsLast
    <3>1. TokenInv
      BY <2>0, <2>2 DEF WorkbenchInv
    <3> QED
      BY ONLY <3>1, TokenHolds
  <2> QED
    BY <2>1, <2>2 DEF CredentialsAgree
<1> QED
  BY <1>1, WorkbenchAlways, PTL
=============================================================================
