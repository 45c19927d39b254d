--------------------------- MODULE OnboardingPages ---------------------------
(***************************************************************************)
(* Onboarding in the browser: the steps of one user, and the listing staff *)
(* administer them from.  A button posts an action; what comes of it is    *)
(* only shown when the portal announces the event by the socket, or with   *)
(* the next answer to a request for the page.                              *)
(*                                                                         *)
(* The events of each step of a user are counted, and a view has, for each *)
(* step of its user, the number of the last one it shows: an event changes *)
(* the step it names and no other.  The listing has one user on a page.    *)
(* An event is stored before its message is sent, so that the messages of  *)
(* two actors may be sent, and arrive, in either order; none is lost.  The *)
(* end of a setup is announced and kept as a step is, and is left out.     *)
(***************************************************************************)
EXTENDS Naturals, FiniteSets, FiniteSetsExt

CONSTANTS
    Users, NoUser,    \* who is being set up, and nobody
    Steps,            \* the steps of a setup
    MaxEvents         \* bound: the events of each user's setup

\* What the constants are (the composing module assumes it).
OnboardingAssumption == MaxEvents \in [Users -> Nat]

Rows == Users \X Steps

VARIABLES store, calls, ui, alive

vars == <<store, calls, ui, alive>>

Views == {"admin", "user"}
Watchers == Views \cup {"action"}
NoneSeen == [s \in Steps |-> 0]

----------------------------------------------------------------------------
(* The reducer.  admin and user are views; the portal's are the number of  *)
(* events of every row, and the messages that have yet to arrive.          *)

initialState ==
    [v \in Views |->
        [user |-> NoUser, seen |-> NoneSeen, loading |-> FALSE, error |-> FALSE]]

initialAction == [user |-> NoUser, step |-> NoUser, loading |-> FALSE, error |-> FALSE]

FETCH_PROCESSING(st, v) ==
    [st EXCEPT ![v].loading = TRUE, ![v].error = IF v = "user" THEN FALSE ELSE @]
FETCH_SUCCESS(st, v, u, got) ==
    [st EXCEPT ![v] = [user |-> u, seen |-> got, loading |-> FALSE, error |-> FALSE]]
FETCH_ERROR(st, v) == [st EXCEPT ![v].error = TRUE, ![v].loading = FALSE]
ACTION_PROCESSING(st, u, s) ==
    [st EXCEPT !.action = [user |-> u, step |-> s, loading |-> TRUE, error |-> FALSE]]
ACTION_SUCCESS(st) == [st EXCEPT !.action.loading = FALSE, !.action.error = FALSE]
ACTION_ERROR(st) == [st EXCEPT !.action.loading = FALSE, !.action.error = TRUE]

\* Of the user of the event only the step it names is changed.
updateUserFromEvent(view, e) ==
    IF view.user = e[1][1] THEN [view EXCEPT !.seen[e[1][2]] = e[2]] ELSE view

(* Faulty: only the listing learns of the event. *)
ONBOARDING_EVENTListing(st, e) == [st EXCEPT !.admin = updateUserFromEvent(@, e)]
ONBOARDING_EVENT(st, e) ==
    [st EXCEPT !.admin = updateUserFromEvent(@, e),
               !.user = updateUserFromEvent(@, e)]

----------------------------------------------------------------------------
(* The portal, the socket and the sagas.                                   *)

Call(u, s) == {[user |-> u, step |-> s, read |-> FALSE, got |-> NoneSeen]}
Event(r) == <<r, store.events[r] + 1>>

InTransit(r) == \E e \in store.wire : e[1] = r

\* A message of the step has arrived that its number n does not count.
Missed(st, r, n) == \E m \in (n + 1)..st.events[r] : <<r, m>> \notin st.wire

EventsOf(u) == MapThenSumSet(LAMBDA s : store.events[<<u, s>>], Steps)

\* The event is stored; its message is sent sooner or later than another's.
Happens(r) ==
    /\ EventsOf(r[1]) < MaxEvents[r[1]]
    /\ store' = [store EXCEPT !.events[r] = @ + 1, !.wire = @ \cup {Event(r)}]

\* A task of the queue, or an action nobody waits for any more.
queueRuns == \E r \in Rows : Happens(r) /\ UNCHANGED <<calls, ui, alive>>

actionDone == \E c \in calls["action"] :
    /\ ~c.read
    /\ Happens(<<c.user, c.step>>)
    /\ calls' = [calls EXCEPT !["action"] = {[c EXCEPT !.read = TRUE]}]
    /\ UNCHANGED <<ui, alive>>

viewRead == \E v \in Views : \E c \in calls[v] :
    /\ ~c.read
    /\ calls' = [calls EXCEPT ![v] =
                    {[c EXCEPT !.read = TRUE,
                               !.got = [s \in Steps |-> store.events[<<c.user, s>>]]]}]
    /\ UNCHANGED <<store, ui, alive>>

\* The views of the user of the event whose step it leaves older than it was.
Overtaken(st, e) ==
    {v \in Views : st[v].user = e[1][1] /\ Missed(st, e[1], e[2])} \X {e[1][2]}

\* What the event mends is the step it names, in the views of its user.
handleSocket == \E e \in store.wire :
    /\ store' = [ONBOARDING_EVENT(store, e) EXCEPT !.wire = @ \ {e}]
    /\ ui' = [ui EXCEPT !.overtaken =
           {p \in @ : <<store[p[1]].user, p[2]>> # e[1]} \cup Overtaken(store', e)]
    /\ UNCHANGED <<calls, alive>>

\* The answer may be older than a message that has arrived since.
fetched(v) == \E c \in calls[v] :
    /\ \/ /\ c.read
          /\ store' = FETCH_SUCCESS(store, v, c.user, c.got)
          /\ ui' = [ui EXCEPT !.overtaken =
                      {p \in @ : p[1] # v} \cup
                      {<<v, s>> : s \in {x \in Steps :
                                             Missed(store, <<c.user, x>>, c.got[x])}}]
       \/ store' = FETCH_ERROR(store, v) /\ UNCHANGED ui
    /\ calls' = [calls EXCEPT ![v] = {}]
    /\ UNCHANGED alive

getOnboardingAdminList == fetched("admin")
getOnboardingAdminIndividualUser == fetched("user")

postOnboardingAction == \E c \in calls["action"] :
    /\ \/ c.read /\ store' = ACTION_SUCCESS(store)
       \/ store' = ACTION_ERROR(store)
    /\ calls' = [calls EXCEPT !["action"] = {}]
    /\ UNCHANGED <<ui, alive>>

----------------------------------------------------------------------------
(* The pages.                                                              *)

fetch(v, u) ==
    /\ store' = FETCH_PROCESSING(store, v)
    /\ calls' = [calls EXCEPT ![v] = Call(u, NoUser)]
    /\ ui' = [ui EXCEPT !.page = v, !.of = u]
    /\ UNCHANGED alive

\* The page of a user's setup.
OnboardingUser == \E u \in Users : ui.of # u /\ fetch("user", u)

\* The listing is opened, or the paginator or a search gives another page of
\* it; a page that is loading, or failed, has neither.
OnboardingAdmin == \E u \in Users :
    /\ ui.page = "admin" => ~store.admin.loading /\ ~store.admin.error
    /\ fetch("admin", u)

Shown(v) ==
    ui.page = v /\ ~store[v].loading /\ ~store[v].error /\ store[v].user # NoUser

post(u, s) ==
    /\ store' = ACTION_PROCESSING(store, u, s)
    /\ calls' = [calls EXCEPT !["action"] = Call(u, s)]
    /\ UNCHANGED <<ui, alive>>

\* In the listing every button is disabled by an open action.
OnboardingAdminListUser == \E s \in Steps :
    Shown("admin") /\ ~store.action.loading /\ post(store.admin.user, s)

\* On the page of a user, the buttons of a step give way to the failure of an
\* action on it, whosever step that was, and are disabled while one is open.
OnboardingActions == \E s \in Steps :
    /\ Shown("user")
    /\ ~(store.action.step = s /\ (store.action.loading \/ store.action.error))
    /\ post(ui.of, s)

----------------------------------------------------------------------------
Init ==
    /\ store = [admin |-> initialState["admin"], user |-> initialState["user"],
                action |-> initialAction, events |-> [r \in Rows |-> 0],
                wire |-> {}]
    /\ calls = [w \in Watchers |-> {}]
    /\ ui = [page |-> "elsewhere", of |-> NoUser, overtaken |-> {}]
    /\ alive = TRUE

Next ==
    \/ queueRuns \/ actionDone \/ viewRead \/ handleSocket
    \/ getOnboardingAdminList \/ getOnboardingAdminIndividualUser
    \/ postOnboardingAction \/ OnboardingUser \/ OnboardingAdmin
    \/ OnboardingAdminListUser \/ OnboardingActions

Spec == Init /\ [][Next]_vars

----------------------------------------------------------------------------
(* Properties.                                                             *)

TypeOK ==
    /\ \A v \in Views :
          /\ store[v].user \in Users \cup {NoUser}
          /\ store[v].user # NoUser => \A s \in Steps :
                store[v].seen[s] \in 0..store.events[<<store[v].user, s>>]
    /\ \A r \in Rows : store.events[r] \in Nat
    /\ \A w \in Watchers : Cardinality(calls[w]) <= 1

\* The spinners of both pages and of the action wait for an open call.
SpinnerIsServed ==
    /\ store.admin.loading => calls["admin"] # {}
    /\ store.user.loading => calls["user"] # {}
    /\ store.action.loading => calls["action"] # {}

\* The page of a user is of the user asked for last.  Of every step it shows
\* the last event of the portal when no message of that step is to come,
\* unless a message of the step arrived before an answer read earlier, or
\* before a message of an earlier event: what it told stays lost, whatever is
\* announced of other steps, until the step has another event or the page is
\* fetched again.  The listing too.
StateIsCurrent ==
    /\ Shown("user") => store.user.user = ui.of
    /\ \A v \in Views, s \in Steps :
          LET r == <<store[v].user, s>> IN
          (Shown(v) /\ <<v, s>> \notin ui.overtaken /\ ~InTransit(r))
              => store[v].seen[s] = store.events[r]
=============================================================================
