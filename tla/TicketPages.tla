----------------------------- MODULE TicketPages -----------------------------
(***************************************************************************)
(* The tickets of the dashboard: the listing, the window of one ticket     *)
(* with its thread and the reply, the form for a new one, and the feedback *)
(* form, which is a new ticket too.                                        *)
(*                                                                         *)
(* Every saga keeps the latest call of its kind only.  The windows share   *)
(* their slices of the store with whatever was opened before them, and a   *)
(* reply or a new ticket is still told after its window has gone.          *)
(***************************************************************************)
EXTENDS Naturals, Sequences, FiniteSets

CONSTANTS
    Tickets,      \* the tickets there may ever be
    NoTicket,     \* the absence of one
    MaxEntries    \* bound: the entries of each thread

\* What the constants are (the composing module assumes it).
DeskAssumption == MaxEntries \in [Tickets -> Nat \ {0}]

VARIABLES store, calls, ui, alive

vars == <<store, calls, ui, alive>>

Watchers == {"LIST", "SUBJECT", "HISTORY", "REPLY", "CREATE"}

----------------------------------------------------------------------------
(* The reducers.  An entry of a thread is its ticket and its place there;  *)
(* which entries are unfolded is left out.                                 *)

initialTicketList == [content |-> {}, loading |-> FALSE, loadingError |-> FALSE]

initialDetailedTicketView ==
    [ticketId |-> NoTicket, subject |-> NoTicket, subjectLoading |-> FALSE,
     content |-> <<>>, loading |-> FALSE, loadingError |-> FALSE,
     replying |-> FALSE]

initialTicketCreateState ==
    [creating |-> FALSE, creatingError |-> FALSE, creatingSuccess |-> FALSE,
     createdTicketId |-> NoTicket]

LIST_FETCH_STARTED(st) ==
    [st EXCEPT !.list = [initialTicketList EXCEPT !.loading = TRUE]]
LIST_FETCH_SUCCESS(st, c) ==
    [st EXCEPT !.list = [initialTicketList EXCEPT !.content = c]]
LIST_FETCH_ERROR(st) ==
    [st EXCEPT !.list = [initialTicketList EXCEPT !.loadingError = TRUE]]

(* Faulty: the window keeps the thread it showed last. *)
INIT_MODALKeeping(st, t) == [st EXCEPT !.view.ticketId = t]
INIT_MODAL(st, t) ==
    [st EXCEPT !.view = [initialDetailedTicketView EXCEPT !.ticketId = t]]
FETCH_STARTED(st) ==
    [st EXCEPT !.view.loading = TRUE, !.view.loadingError = FALSE,
               !.view.subjectLoading = TRUE]
FETCH_SUBJECT_DONE(st, t) ==
    [st EXCEPT !.view.subject = t, !.view.subjectLoading = FALSE]
FETCH_HISTORY_SUCCESS(st, thread) ==
    [st EXCEPT !.view.content = thread, !.view.loading = FALSE,
               !.view.loadingError = FALSE]
FETCH_HISTORY_ERROR(st) ==
    [st EXCEPT !.view.loading = FALSE, !.view.loadingError = TRUE]
REPLY_STARTED(st) == [st EXCEPT !.view.replying = TRUE]
REPLY_SUCCESS(st, e) ==
    [st EXCEPT !.view.replying = FALSE, !.view.content = Append(@, e)]
REPLY_FAILED(st) == [st EXCEPT !.view.replying = FALSE]

CREATE_INIT(st) == [st EXCEPT !.create = initialTicketCreateState]
CREATE_STARTED(st) == [st EXCEPT !.create.creating = TRUE]
CREATE_FAILED(st) ==
    [st EXCEPT !.create.creating = FALSE, !.create.creatingError = TRUE]
CREATE_SUCCESS(st, t) ==
    [st EXCEPT !.create.creating = FALSE, !.create.creatingSuccess = TRUE,
               !.create.createdTicketId = t]

----------------------------------------------------------------------------
(* The portal and the sagas.  store.threads is what the ticket system has, *)
(* which staff may add to.  A call is sent, handled there, then told.      *)

Thread(t) == [k \in 1..store.threads[t] |-> <<t, k>>]
Exists == {t \in Tickets : store.threads[t] > 0}

Call(t) == [ticket |-> t, mine |-> TRUE, got |-> <<>>, done |-> FALSE]
Sent(w, t) == [calls EXCEPT ![w] = {Call(t)}]

\* The ticket system handles a call, and its answer is on its way.
Handled(w, c, got) ==
    calls' = [calls EXCEPT ![w] = {[c EXCEPT !.got = got, !.done = TRUE]}]

Told(w) == [calls EXCEPT ![w] = {}]

\* An entry or a ticket of somebody else, or of a call nobody waits for now.
othersWrite == \E t \in Tickets :
    /\ store.threads[t] < MaxEntries[t]
    /\ store' = [store EXCEPT !.threads[t] = @ + 1]
    /\ UNCHANGED <<calls, ui, alive>>

listRead == \E c \in calls["LIST"] :
    /\ ~c.done
    /\ Handled("LIST", c, Exists)
    /\ UNCHANGED <<store, ui, alive>>

historyRead == \E c \in calls["HISTORY"] :
    /\ ~c.done
    /\ Handled("HISTORY", c, Thread(c.ticket))
    /\ UNCHANGED <<store, ui, alive>>

replyAdded == \E c \in calls["REPLY"] :
    /\ ~c.done /\ store.threads[c.ticket] < MaxEntries[c.ticket]
    /\ store' = [store EXCEPT !.threads[c.ticket] = @ + 1]
    /\ Handled("REPLY", c, <<c.ticket, store.threads[c.ticket] + 1>>)
    /\ UNCHANGED <<ui, alive>>

ticketAdded == \E c \in calls["CREATE"] : \E t \in Tickets \ Exists :
    /\ ~c.done
    /\ store' = [store EXCEPT !.threads[t] = 1]
    /\ Handled("CREATE", [c EXCEPT !.ticket = t], <<t, 1>>)
    /\ UNCHANGED <<ui, alive>>

\* The listing is asked for, by a handler that leaves st and c.
LIST_FETCH(st, c) ==
    /\ store' = LIST_FETCH_STARTED(st)
    /\ calls' = [c EXCEPT !["LIST"] = {Call(NoTicket)}]

fetchTickets == \E c \in calls["LIST"] :
    /\ \/ c.done /\ store' = LIST_FETCH_SUCCESS(store, c.got)
       \/ store' = LIST_FETCH_ERROR(store)
    /\ calls' = Told("LIST")
    /\ UNCHANGED <<ui, alive>>

fetchTicketSubject == \E c \in calls["SUBJECT"] :
    /\ \E t \in {c.ticket, NoTicket} : store' = FETCH_SUBJECT_DONE(store, t)
    /\ calls' = Told("SUBJECT")
    /\ UNCHANGED <<ui, alive>>

fetchTicketHistory == \E c \in calls["HISTORY"] :
    /\ \/ /\ c.done
          /\ store' = FETCH_HISTORY_SUCCESS(store, c.got)
          /\ ui' = [ui EXCEPT !.stray = FALSE]
       \/ store' = FETCH_HISTORY_ERROR(store) /\ UNCHANGED ui
    /\ calls' = Told("HISTORY")
    /\ UNCHANGED alive

\* A reply is told to whatever the window shows by then; only the form that
\* sent it is reset.
postTicketReply == \E c \in calls["REPLY"] :
    /\ \/ /\ c.done
          /\ LIST_FETCH(REPLY_SUCCESS(store, c.got), Told("REPLY"))
          /\ ui' = [ui EXCEPT !.reply = IF c.mine THEN "clean" ELSE @,
                              !.stray = @ \/ ~c.mine]
       \/ /\ store' = REPLY_FAILED(store)
          /\ calls' = Told("REPLY")
          /\ UNCHANGED ui
    /\ UNCHANGED alive

\* The success of any new ticket closes the feedback window, when it is the
\* first since the form for tickets was opened last.
FeedbackButton(u) ==
    IF u.window = "feedback" /\ ~store.create.creatingSuccess
    THEN [u EXCEPT !.window = "none", !.form = "clean"] ELSE u

postTicketCreate == \E c \in calls["CREATE"] :
    /\ \/ /\ c.done
          /\ LIST_FETCH(CREATE_SUCCESS(store, c.ticket), Told("CREATE"))
          /\ ui' = FeedbackButton(
                [ui EXCEPT !.form = IF c.mine THEN "clean" ELSE @])
       \/ /\ store' = CREATE_FAILED(store)
          /\ calls' = Told("CREATE")
          /\ UNCHANGED ui
    /\ UNCHANGED alive

----------------------------------------------------------------------------
(* The pages.  A form that was submitted stays so until its reset.         *)

Forget(w) == {[c EXCEPT !.mine = FALSE] : c \in calls[w]}

TicketsView ==
    /\ ui.ticket = NoTicket /\ ui.window = "none"
    /\ LIST_FETCH(store, calls)
    /\ UNCHANGED <<ui, alive>>

\* A row of the listing, or the link to the ticket just created.
showDetailedView == \E t \in Tickets :
    /\ ui.ticket = NoTicket
    /\ \/ ui.window = "none" /\ t \in store.list.content
       \/ ui.window = "create" /\ t = store.create.createdTicketId
    /\ store' = FETCH_STARTED(INIT_MODAL(store, t))
    /\ calls' = [calls EXCEPT !["SUBJECT"] = {Call(t)}, !["HISTORY"] = {Call(t)}]
    /\ ui' = [ui EXCEPT !.ticket = t, !.reply = "clean", !.stray = FALSE]
    /\ UNCHANGED alive

TicketModalClose ==
    /\ ui.ticket # NoTicket
    /\ ui' = [ui EXCEPT !.ticket = NoTicket]
    /\ calls' = [calls EXCEPT !["REPLY"] = Forget("REPLY")]
    /\ UNCHANGED <<store, alive>>

ReplyDisabled ==
    ui.reply = "submitting" \/ store.view.replying \/ store.view.loading
    \/ store.view.loadingError

TicketHistoryReply ==
    /\ ui.ticket # NoTicket /\ ~ReplyDisabled
    /\ store' = REPLY_STARTED(store)
    /\ calls' = Sent("REPLY", ui.ticket)
    /\ ui' = [ui EXCEPT !.reply = "submitting"]
    /\ UNCHANGED alive

\* Opening the form for a ticket clears what was said of the last one, and
\* may be done from the feedback window; opening that window does not.
openTicketModal ==
    /\ ui.ticket = NoTicket /\ ui.window # "create"
    /\ store' = CREATE_INIT(store)
    /\ ui' = [ui EXCEPT !.window = "create", !.form = "clean"]
    /\ calls' = [calls EXCEPT !["CREATE"] = Forget("CREATE")]
    /\ UNCHANGED alive

FeedbackModal ==
    /\ ui.ticket = NoTicket /\ ui.window = "none"
    /\ ui' = [ui EXCEPT !.window = "feedback", !.form = "clean"]
    /\ UNCHANGED <<store, calls, alive>>

closeTicketModal ==
    /\ ui.ticket = NoTicket /\ ui.window # "none"
    /\ ui' = [ui EXCEPT !.window = "none", !.form = "clean"]
    /\ calls' = [calls EXCEPT !["CREATE"] = Forget("CREATE")]
    /\ UNCHANGED <<store, alive>>

\* "Add Ticket" and "Submit".  A call still open is not waited for any more.
TicketCreateForm ==
    /\ ui.window # "none" /\ ui.ticket = NoTicket
    /\ ui.form = "clean" /\ ~store.create.creating
    /\ store' = CREATE_STARTED(store)
    /\ calls' = Sent("CREATE", NoTicket)
    /\ ui' = [ui EXCEPT !.form = "submitting"]
    /\ UNCHANGED alive

----------------------------------------------------------------------------
Init ==
    /\ \E T \in SUBSET Tickets :
          store = [list |-> initialTicketList, view |-> initialDetailedTicketView,
                   create |-> initialTicketCreateState,
                   threads |-> [t \in Tickets |-> IF t \in T THEN 1 ELSE 0]]
    /\ calls = [w \in Watchers |-> {}]
    /\ ui = [ticket |-> NoTicket, window |-> "none", reply |-> "clean",
             form |-> "clean", stray |-> FALSE]
    /\ alive = TRUE

Next ==
    \/ othersWrite \/ listRead \/ historyRead \/ replyAdded \/ ticketAdded
    \/ fetchTickets \/ fetchTicketSubject \/ fetchTicketHistory
    \/ postTicketReply \/ postTicketCreate
    \/ TicketsView \/ showDetailedView \/ TicketModalClose
    \/ TicketHistoryReply \/ openTicketModal \/ FeedbackModal
    \/ closeTicketModal \/ TicketCreateForm

Spec == Init /\ [][Next]_vars

----------------------------------------------------------------------------
(* Properties.                                                             *)

TypeOK ==
    /\ \A t \in Tickets : store.threads[t] \in 0..MaxEntries[t]
    /\ store.list.content \subseteq Exists
    /\ store.view.ticketId \in Tickets \cup {NoTicket}
    /\ store.view.subject \in Tickets \cup {NoTicket}
    /\ ui.ticket # NoTicket => store.view.ticketId = ui.ticket
    /\ \A w \in Watchers : Cardinality(calls[w]) <= 1

\* Every spinner of the listing, the thread, the subject and the two forms
\* waits for an open call.
SpinnerIsServed ==
    /\ store.list.loading => calls["LIST"] # {}
    /\ store.view.loading => calls["HISTORY"] # {}
    /\ store.view.subjectLoading => calls["SUBJECT"] # {}
    /\ store.view.replying => calls["REPLY"] # {}
    /\ store.create.creating => calls["CREATE"] # {}

\* The thread on show is of the ticket in the title, in order and without an
\* entry twice, unless a reply of a window closed before was told since.
ThreadIsOfTicket ==
    (ui.ticket # NoTicket /\ ~ui.stray) =>
        LET c == store.view.content IN
        /\ \A i \in DOMAIN c : c[i][1] = ui.ticket
        /\ \A i, j \in DOMAIN c : i < j => c[i][2] < c[j][2]

\* A ticket the form has called created is in the listing, whenever one is
\* on show that did not fail.
CreatedIsListed ==
    (store.create.creatingSuccess /\ ~store.list.loading /\ ~store.list.loadingError)
        => store.create.createdTicketId \in store.list.content
=============================================================================
