------------------------------ MODULE JobFeed ------------------------------
(***************************************************************************)
(* The jobs table and the notifications of one browser, fed by the server  *)
(* of JobNotifications.                                                    *)
(*                                                                         *)
(* Four sagas write the same two pieces of the store: the socket, whose    *)
(* messages are taken one at a time; the listing of notifications, the     *)
(* listing of jobs and the details of one job, each a request of which     *)
(* only the latest counts (takeLatest).  A request is answered with what   *)
(* server or Tapis hold at one moment and applied at a later one.  What a  *)
(* saga does between two awaited calls is one step.                        *)
(*                                                                         *)
(* All jobs fit on the first page of the listing.                          *)
(***************************************************************************)
EXTENDS JobNotifications

CONSTANTS
  Visits  \* what the user does on the pages (bounds their number)

VARIABLES
  notifs,   \* notifications.list.notifs, newest first
  table,    \* jobs.list: the status shown for every job listed
  ntfFetch, \* the latest FETCH_NOTIFICATIONS
  jobFetch, \* the latest GET_JOBS
  detFetch, \* the latest GET_JOB_DETAILS
  visited,  \* the visits made
  gone,     \* history: rows inserted and rolled back
  behind,   \* history: jobs of which the browser missed a row, was told last
            \* of one that is not the newest, or had one that was rolled back
  aside     \* history: jobs whose row and newest notification were last
            \* written apart

browser == <<notifs, table, ntfFetch, jobFetch, detFetch, visited>>

vars == <<server, browser, gone, behind, aside>>

Absent == "absent"

Table == [Jobs -> Statuses \cup {Absent}]

Empty == [j \in Jobs |-> Absent]

(* A fetch that is not sent, sent, or answered and not applied yet. *)
Idle == [pc |-> "idle"]
Sent == [pc |-> "sent"]
Got(v) == [pc |-> "answered", got |-> v]

(* Mounting the workbench dispatches FETCH_NOTIFICATIONS and GET_JOBS. *)
FeedInit ==
  /\ Init
  /\ notifs = <<>>
  /\ table = Empty
  /\ ntfFetch = Sent
  /\ jobFetch = Sent
  /\ detFetch = Idle
  /\ visited = {}
  /\ gone = {}
  /\ behind = {}
  /\ aside = {}

(* The first event of a list that is about a job. *)
About(events, j) == {i \in DOMAIN events : events[i].job = j}

First(events, j) ==
  events[CHOOSE i \in About(events, j) : \A k \in About(events, j) : i <= k]

(* UPDATE_JOBS_FROM_NOTIFICATIONS *)
Told(t, events) ==
  [j \in Jobs |-> IF t[j] # Absent /\ About(events, j) # {}
                  THEN First(events, j).status ELSE t[j]]

Updated(t, events) == {j \in Jobs : t[j] # Absent /\ About(events, j) # {}}

-----------------------------------------------------------------------------
Elements(s) == {s[i] : i \in DOMAIN s}

(* Rows inserted by a post that is still served, and those of them whose   *)
(* message is still to leave.                                              *)
Pending == {RowOf(h) : h \in {g \in Hooks : hook[g].pc \in {"send", "index", "commit"}}}

Unsent == {RowOf(h) : h \in {g \in Hooks : At(g, "send")}}

(* NEW_NOTIFICATION *)
NewNotification(m) == notifs' = <<m>> \o notifs

(* A message that is the last word on its job brings the browser up to     *)
(* date on it; one that another post has overtaken does the opposite.      *)
BehindWith(m) ==
  IF /\ \A r \in rows \cup Pending : r.job = m.job => r.at <= m.at
     /\ \A r \in gone \cap Elements(wire) : r.job # m.job
  THEN behind \ {m.job} ELSE behind \cup {m.job}

(* handleSocket: a change of a listed job updates its row. *)
ReceiveListed ==
  LET m == Head(wire) IN
  /\ Taken
  /\ m.kind = "job" /\ table[m.job] # Absent
  /\ table' = Told(table, <<m>>)
  /\ NewNotification(m)
  /\ behind' = BehindWith(m)
  /\ aside' = aside \ {m.job}
  /\ UNCHANGED <<ntfFetch, jobFetch, detFetch, visited, gone>>

(* GET_JOBS with offset 0 empties the table first. *)
GetJobs ==
  /\ table' = Empty
  /\ jobFetch' = Sent

ReceiveUnlisted ==
  LET m == Head(wire) IN
  /\ Taken
  /\ m.kind = "job" /\ table[m.job] = Absent
  /\ GetJobs
  /\ NewNotification(m)
  /\ behind' = BehindWith(m)
  /\ UNCHANGED <<ntfFetch, detFetch, visited, gone, aside>>

ReceiveSession ==
  LET m == Head(wire) IN
  /\ Taken
  /\ m.kind = "session"
  /\ NewNotification(m)
  /\ behind' = BehindWith(m)
  /\ aside' = aside \cup {m.job}
  /\ UNCHANGED <<table, ntfFetch, jobFetch, detFetch, visited, gone>>

Lose ==
  /\ Taken
  /\ behind' = behind \cup {Head(wire).job}
  /\ UNCHANGED <<browser, gone, aside>>

-----------------------------------------------------------------------------
(* fetchNotifications, getJobs, getJobDetails *)

(* ManageNotificationsView.get: every row of the user, by "-datetime". *)
Listing ==
  CHOOSE s \in [1..Cardinality(rows) -> rows] :
    \A a, b \in DOMAIN s : a < b => s[a].at > s[b].at

OnlyBrowser == UNCHANGED <<server, visited, gone>>

AnswerNotifications ==
  /\ ntfFetch.pc = "sent"
  /\ ntfFetch' = Got(Listing)
  /\ UNCHANGED <<notifs, table, jobFetch, detFetch, behind, aside>> /\ OnlyBrowser

(* The browser is behind on a job when a row of it is neither listed nor   *)
(* on its way, or one that was rolled back is.                             *)
BehindAfter(got) ==
  {r.job : r \in (rows \cup Pending) \ (Elements(got) \cup Elements(wire) \cup Unsent)}
    \cup {r.job : r \in gone \cap Elements(wire)}

(* NOTIFICATIONS_LIST_FETCH_SUCCESS replaces the list, then the table is   *)
(* updated from it.                                                        *)
ApplyNotifications ==
  /\ ntfFetch.pc = "answered"
  /\ notifs' = ntfFetch.got
  /\ table' = Told(table, ntfFetch.got)
  /\ ntfFetch' = Idle
  /\ behind' = BehindAfter(ntfFetch.got)
  /\ aside' = aside \ Updated(table, ntfFetch.got)
  /\ UNCHANGED <<jobFetch, detFetch>> /\ OnlyBrowser

NotificationsFail ==
  /\ ntfFetch.pc = "sent"
  /\ ntfFetch' = Idle
  /\ UNCHANGED <<notifs, table, jobFetch, detFetch, behind, aside>> /\ OnlyBrowser

(* JobsView.get: the recorded jobs, as Tapis shows them now. *)
AnswerJobs ==
  /\ jobFetch.pc = "sent"
  /\ jobFetch' = Got([j \in Jobs |-> IF j \in recorded THEN Status(j) ELSE Absent])
  /\ UNCHANGED <<notifs, table, ntfFetch, detFetch, behind, aside>> /\ OnlyBrowser

(* Faulty: the list is shown as it came. *)
ApplyJobsOnly ==
  /\ jobFetch.pc = "answered"
  /\ table' = jobFetch.got
  /\ jobFetch' = Idle
  /\ aside' = aside \ Updated(jobFetch.got, notifs)
  /\ UNCHANGED <<notifs, ntfFetch, detFetch, behind>> /\ OnlyBrowser

(* JOBS_LIST, then what the notifications at hand say of the jobs. *)
ApplyJobs ==
  /\ jobFetch.pc = "answered"
  /\ table' = Told(jobFetch.got, notifs)
  /\ jobFetch' = Idle
  /\ aside' = aside \ Updated(jobFetch.got, notifs)
  /\ UNCHANGED <<notifs, ntfFetch, detFetch, behind>> /\ OnlyBrowser

JobsFail ==
  /\ jobFetch.pc = "sent"
  /\ jobFetch' = Idle
  /\ UNCHANGED <<notifs, table, ntfFetch, detFetch, behind, aside>> /\ OnlyBrowser

AnswerDetails ==
  /\ detFetch.pc = "sent"
  /\ detFetch' = [detFetch EXCEPT !.pc = "answered", !.got = Status(detFetch.job)]
  /\ UNCHANGED <<notifs, table, ntfFetch, jobFetch, behind, aside>> /\ OnlyBrowser

(* JOBS_LIST_UPDATE_JOB *)
ApplyDetails ==
  LET j == detFetch.job IN
  /\ detFetch.pc = "answered"
  /\ table' = [table EXCEPT ![j] = IF @ = Absent THEN @ ELSE detFetch.got]
  /\ detFetch' = Idle
  /\ aside' = IF table[j] = Absent THEN aside ELSE aside \cup {j}
  /\ UNCHANGED <<notifs, ntfFetch, jobFetch, behind>> /\ OnlyBrowser

DetailsFail ==
  /\ detFetch.pc = "sent"
  /\ detFetch' = Idle
  /\ UNCHANGED <<notifs, table, ntfFetch, jobFetch, behind, aside>> /\ OnlyBrowser

-----------------------------------------------------------------------------
(* The history pages *)

OnlyVisit(v) ==
  /\ v \notin visited
  /\ visited' = visited \cup {v}
  /\ UNCHANGED <<server, notifs, gone, behind, aside>>

(* Opening the job history lists jobs and notifications. *)
OpenHistory(v) ==
  /\ GetJobs
  /\ ntfFetch' = Sent
  /\ UNCHANGED detFetch
  /\ OnlyVisit(v)

(* "Mark All as Viewed", once the server has marked them *)
MarkAll(v) ==
  /\ notifs # <<>>
  /\ ntfFetch' = Sent
  /\ UNCHANGED <<table, jobFetch, detFetch>>
  /\ OnlyVisit(v)

(* The page of a job is reached from the table, or by its link. *)
ShowDetails(v, j) ==
  /\ stage[j] > 0
  /\ detFetch' = [pc |-> "sent", job |-> j, got |-> NoStatus]
  /\ UNCHANGED <<table, ntfFetch, jobFetch>>
  /\ OnlyVisit(v)

-----------------------------------------------------------------------------
(* A row that is rolled back may have been sent to the browser. *)
ServerSide ==
  LET dropped == Pending \ (Pending' \cup rows') IN
  /\ ServerNext
  /\ gone' = gone \cup dropped
  /\ behind' = behind \cup {r.job : r \in dropped}
  /\ UNCHANGED <<browser, aside>>

Visit(v) ==
  \/ OpenHistory(v) \/ MarkAll(v) \/ \E j \in Jobs : ShowDetails(v, j)

Fetching ==
  \/ AnswerNotifications \/ ApplyNotifications \/ NotificationsFail
  \/ AnswerJobs \/ ApplyJobs \/ JobsFail
  \/ AnswerDetails \/ ApplyDetails \/ DetailsFail

Receive == ReceiveListed \/ ReceiveUnlisted \/ ReceiveSession

FeedNext ==
  \/ ServerSide
  \/ Receive \/ Lose
  \/ Fetching
  \/ \E v \in Visits : Visit(v)

FeedSpec == FeedInit /\ [][FeedNext]_vars

-----------------------------------------------------------------------------
(* Properties.                                                             *)

Fetch(S) == {Idle, Sent} \cup {Got(v) : v \in S}

(* Server, store, fetches and histories are of their types. *)
TypeOK ==
  /\ ServerTypeOK
  /\ notifs \in Seq(Row)
  /\ table \in Table
  /\ ntfFetch.pc \in {"idle", "sent"} \/ ntfFetch.got \in Seq(Row)
  /\ jobFetch \in Fetch(Table)
  /\ detFetch = Idle \/ detFetch \in [pc : {"sent", "answered"}, job : Jobs,
                                      got : Statuses \cup {NoStatus}]
  /\ visited \subseteq Visits
  /\ gone \subseteq Row
  /\ behind \subseteq Jobs
  /\ aside \subseteq Jobs

AtRest ==
  /\ wire = <<>>
  /\ \A h \in Hooks : ~Serving(h)
  /\ {ntfFetch, jobFetch, detFetch} = {Idle}

(* Once everything is at rest, the jobs table shows of every listed job    *)
(* what its newest notification says, in whatever order the two listings,  *)
(* the messages and the visits came and whichever were cancelled or        *)
(* failed.  Four things only may leave a job out: the browser missed a row *)
(* of it (a message lost, or a listing older than the messages it          *)
(* replaced), was sent the messages of two posts served at once in the     *)
(* order opposite to that of their rows, or a row was rolled back, and     *)
(* nothing has brought it up to date since; or its details, or its         *)
(* session, came last.  The newest row is the one the listing puts first.  *)
FeedIsCurrent ==
  AtRest =>
    \A j \in Jobs \ (behind \cup aside) :
      LET all == {r \in rows : r.job = j} IN
      table[j] # Absent =>
        \A r \in all : (\A q \in all : q.at <= r.at) => table[j] = r.status
=============================================================================
