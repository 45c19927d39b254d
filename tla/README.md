# Core Portal: TLA+ models, checks and proofs

This directory holds formal models of the parts of the TACC Core Portal (this
repository, with the ProTx dashboards) in which several actors change the same
state: the onboarding queue, the key service behind one of its steps, the
creation of projects, the membership of a project, the notifications that keep
the jobs table of a browser up to date, the pages of the browser with their
requests and windows, and the token, the key pairs and the cache these pages
stand on. The models are written in TLA+, checked on small instances with TLC,
and their main safety properties are proved for every instance with TLAPS.

    tlc -config Onboarding_staff.cfg MCOnboarding.tla     # one run
    tlapm OnboardingProofs.tla                            # one module of proofs

`PROJECT.json` lists every run with its configuration, the source lines every
definition stands for, the hazards the properties are aimed at, and for every
property a plausible bug of the code (an operator marked "Faulty" in a module)
that makes TLC report it.

Contents: [1 The system](#1-the-system) ·
[2 The modules](#2-the-modules) · [3 Runs](#3-runs) ·
[4 Fairness](#4-fairness) · [5 Proofs](#5-proofs) ·
[6 Where code and documentation part](#6-where-code-and-documentation-part) ·
[7 Assumptions and what is left out](#7-assumptions-and-what-is-left-out) ·
[8 Plan](#8-plan)


## 1 The system

The portal is a Django server and a React client with redux-saga. The server
runs as web processes (uWSGI, Daphne for websockets) and Celery workers; they
share a relational database, a broker and Redis. Files, storage systems, jobs
and OAuth belong to Tapis (called Agave in the code), projects' allocations to
TAS, tickets to RT, the search index to Elasticsearch.

Three facts of the configuration shape every model:

* There is no `ATOMIC_REQUESTS`: outside an explicit `transaction.atomic` every
  query commits by itself, and requests and tasks interleave between any two.
* Celery acknowledges a message before it runs the task (no `acks_late`): a
  worker that is killed takes its task with it.
* Every remote call may fail after it has taken effect.

The components, the state they keep, what changes it, and what makes them
correct:

| Component (under `src/`) | State | Operations | Hard part | Should hold |
|---|---|---|---|---|
| **Onboarding queue** `server/portal/apps/onboarding`, `apps/auth` (login), `client/.../Onboarding` | newest `SetupEvent` per step, `setup_complete`, queued tasks | login prepares steps; `execute_setup_steps` walks them; users confirm; staff approve, deny, reset, complete | two logins, two workers and the staff write from copies read earlier; a worker dies | the front of the queue always has somebody coming; completion is earned; no step stays in PROCESSING |
| **Key service step** `onboarding/steps/key_service_creation.py`, `apps/webhooks`, `apps/system_creation` | JSON lists (requested, failed, successful) carried from row to row, `ExternalCall` rows | `process` sends one call per system; callbacks mark systems; staff reset or complete | answers come twice, at once, early, late, never | nothing is listed that was not said; COMPLETED means created; the step ends |
| **Project creation** `apps/projects/managers`, `models`, `utils`, `projects_id` command | `ProjectId` counter, directories and systems in Tapis, metadata rows, roles | `ProjectsManager.create` with recovery; `manage.py projects_id` | counter, scans and inserts of different calls interleave; any call fails half-way | numbers are distinct; a project that was returned is whole and stays so |
| **Project team** `apps/projects`, `libs/agave/models/systems/roles.py`, Manage Team window | role per user in Tapis, `pi` and `co_pis` of the row | add, remove, transfer, edit | role and row live in two stores, each change is several calls | the PI is OWNER; roles match the record |
| **Project metadata repair, listing** `apps/projects/models`, `apps/search` | metadata rows | the first access to a project without row inserts one | two first accesses at once | one row per project |
| **Job webhooks and notifications (server)** `apps/webhooks/views.py`, `apps/notifications`, `apps/signals` | `Notification` rows, websocket group | Tapis posts, the job posts its session; listing, marking as read | posts of one job overlap; the message leaves before the transaction ends | an acknowledged status is stored, none told twice, a finished job is indexed |
| **Notifications and jobs (browser)** `client/src/redux` (`notifications`, `jobs`), `History`, `Workbench` | jobs table, list of notifications, badge, toasts | messages, listings, details, page visits | answers older than the messages they meet; `takeLatest` cancels | at rest the table shows the last word |
| **Files in the browser** `client/src/redux/sagas/datafiles.sagas.js`, `components/DataFiles` | listings of page and modal, scrolls, selection, modals, status per file and operation | listing, scroll, rename, move, copy, upload, compress, extract, trash, make public, link, preview, push keys | a scroll of the old folder answers after the new listing; a batch fails in part; a modal closes meanwhile; one handler that throws ends all | a listing holds rows of its folder only; a window is of its file; what spins is under way |
| **Files API and transfers** `libs/agave/operations.py`, `libs/transfer`, `libs/googledrive`, `apps/datafiles` | none (Tapis) | list, move, copy, upload, trash, transfer | look for a free name, then use it | nothing is overwritten |
| **Authentication and token** `apps/auth`, `utils/jwt_auth.py` | session, `AgaveOAuthToken` row | login, refresh in the middleware, in tasks, in the JWT login | two refreshes of one refresh token; only the middleware locks the row; an answer is lost | the stored token is the last one issued; a request is not refused for it |
| **Accounts, keys, user systems** `apps/accounts`, `apps/workspace/managers`, `client/.../ManageAccount` | SSH key pairs per system and per host, systems in Tapis; the profile page | reset, push, create, clone; edit the profile, change the password | a key lives in four places, any call fails; windows share their verdicts | Tapis, row and host hold the same pair; a form tells one outcome |
| **Job submission, applications** `apps/workspace`, `client/.../Applications` | tray, application on the route, submission, keys window | open an application, submit, resubmit after keys | answers for an application that was left; a run time checked by a generated expression | form, answer and spinner are of the route; no job asks for more time than its queue gives |
| **Search and indexing** `apps/search`, `libs/elasticsearch` | Elasticsearch index | crawl, delete, query | crawls of one tree at once | documents of a folder are those of Tapis |
| **Allocations, tickets** `client/.../Allocations`, `Tickets`, `apps/users`, `apps/tickets` | listings, teams, the thread of a ticket, drafts | list, open a window, reply, create | two listings open; a reply of a closed window | a thread is of the ticket in the title; a created ticket is listed |
| **Pages of workspaces and of onboarding** `client/.../DataFiles` (projects), `Onboarding` | listing and metadata of workspaces; steps of a user, listing for staff | list, search, open, edit, manage; act on a step; messages | one operation flag for all windows; answers older than messages | a page is of the project of its address; it shows the last event |
| **ProTx dashboards** `server/protx`, `client/.../ProTx` | selection, chart, map; a cache on disk for all workers, the times of the database files | select, click, zoom; query, memoise | charts that come late; classes cut between extremes; workers that empty the cache for one another | chart and map are of the selection; a colour is of its class; an answer is not older than its request |
| **Presentation** `client/src/components` and utilities | view state | | | |

**How they interact.** A login (`auth/backends.py`, `auth/views.py`) makes the
profile, prepares the steps and queues `execute_setup_steps`. The task runs the
steps' `process`; each appends `SetupEvent` rows, whose `post_save` signal sends
a websocket message. The key service step hands work to an external actor that
answers through `webhooks/callbacks/`; the callback completes the step and
queues the task again. A request of the onboarding pages appends a row and
queues the task. Projects and job submission call Tapis; Tapis calls back with
the changes of a job; the webhook stores a row, whose signal reaches the browser
through the same websocket; the browser merges it with what it lists over HTTP.

In the browser every page is a slice of one redux store. A component dispatches,
a saga takes what is dispatched, all of them (`takeEvery`), the latest
(`takeLatest`, which cancels) or the first (`takeLeading`, which forgets), asks the
portal, and a reducer puts the answer into the slice whatever is on show by then.
All sagas run below one root saga: an error none of them catches ends them all.

The components of which a part or all is modelled are in section 2; the others are
in section 7, with the reason.


## 2 The modules

| Component | Specification | Instances | Proofs |
|---|---|---|---|
| Onboarding queue | `Onboarding` | `MCOnboarding` | `OnboardingProofs` |
| Key service step | `KeyService` | `MCKeyService` | `KeyServiceProofs` |
| Project creation | `ProjectCreation`, abstractly `ProjectRegistry` | `MCProjectCreation` | `ProjectCreationProofs` |
| Project team | `ProjectMembers` | `MCProjectMembers` | `ProjectMembersProofs` |
| Job webhooks | `JobNotifications` | `MCJobFeed` | `JobFeedProofs` |
| Jobs in the browser | `JobFeed`, which extends `JobNotifications` | `MCJobFeed` | `JobFeedProofs` |
| Files in the browser | `FileListings`, `FileOperations` | `MCWorkbench` | `FilePagesProofs` |
| Job submission | `JobForm`, which extends `RunTimes` | `MCWorkbench` | `FilePagesProofs` |
| Allocations, tickets | `AllocationPages`, `TicketPages` | `MCWorkbench` | `WorkbenchProofs` |
| Accounts, keys | `AccountPage`, `SystemKeys` | `MCWorkbench` | `WorkbenchProofs`, `ServerPartsProofs` |
| Token | `TokenRefresh` | `MCWorkbench` | `ServerPartsProofs` |
| Pages of workspaces, of onboarding | `ProjectPages`, `OnboardingPages` | `MCWorkbench` | `WorkbenchProofs` |
| ProTx dashboards | `Dashboards`, which extends `ColorScale`; `DatabaseCache` | `MCWorkbench` | `WorkbenchProofs`, `ServerPartsProofs` |

`Workbench` composes the last seven rows. The three modules of its proofs follow one
another: `ServerPartsProofs`, `FilePagesProofs`, `WorkbenchProofs`, the last of which
puts the pages together.

One rule decides what a step is: everything an actor does between two round
trips (to database, broker or a remote service) is one action, and everything
else may happen between two actions. Variables marked *history* only record what
has happened, for a property to speak of; no guard reads them.

### Onboarding

`state[s]` is the state of the newest `SetupEvent` row of step `s`,
`setupComplete` the field of the profile, `queue` the number of
`execute_setup_steps` messages in the broker. `worker[w]` is a Celery process at
one line of `execute.py` with the step object it has constructed: the copy `st`
of the state is taken once, as in `AbstractStep.__init__`, and the steps write
without looking again. `request[r]` is a login or a POST likewise.

| Actions | Code |
|---|---|
| `Take`, `Load`, `Begin`, `Progress`, `Outcome`, `Finish`, `Announce` | `execute.py` 80-110, the `process` of the step class |
| `LoadRaises`, `LookRaises`, `LoadStepRaises` | a step class that asks TAS in its constructor (`project_membership.py` 15-22) raises where a task (`execute.py` 88), a login (75) or a POST (`views.py` 221) constructs it |
| `Crash` | a worker process killed; the message is gone |
| `Authenticate`, `LookForEvents`, `PrepareFresh`, `CheckSetup` | `auth/backends.py` 31-57, `execute.py` 69-77, `auth/views.py` 63-75 |
| `Press`, `LoadStep` | `OnboardingActions.js` (which button is offered when), `api/views.py` 203-229 |
| `CompleteStep`, `LogAction`, `RejectAction`, `Unset`, `AnnounceReset`, `Reprepare` | `api/views.py` 136-183: complete and the three writes of a reset |
| `ClientAction`, `AddToProject`, `TrackerRefuses`, `Grant`, `Deny`, `DenyRaises` | `client_action` of the step classes, each of whose remote calls may raise |
| `Enqueue` | `api/views.py` 231-233 |

`Kind` says which step class stands at a position: MFA, system access, access
request, allocation, system creation, project membership. Each gets the outcomes
its `process` and `client_action` can have (`Outcomes`, `ClientResult`); those in
`MemberKind` may also raise whenever their step object is constructed, which no
`try` surrounds. `lost` is TRUE from the moment an actor dies or raises so to the
next task that is queued, and `interrupted` has the steps it left half-written or
without a row.

### KeyService

The same tasks and requests, for the one step that third parties finish. The
newest row carries `data`: nothing, or three lists. `calls` are the
`ExternalCall` rows whose URL was sent; `hook[h]` is one delivery of an answer.
`TestSystems`, `CallReactor`, `LogRequested` and their failures are `process`
(38-105), with a step per remote call; `LoadHook`, `MarkSystem`, `Verdict`,
`Continue` are `callback` and `mark_system` (107-154), which reads the newest row
in one step and writes its edited copy in a later one. `Deliver` chooses any call
that was sent and any result, as often as there are hooks: an `ExternalCall`
accepts every answer, because nothing ever clears its `accepting` flag.

### ProjectCreation and ProjectRegistry

`value` and `newest` are the `ProjectId` table (`newest` is what `.latest()`
finds), `dirs` and `systems` what Tapis has, `records` the metadata rows,
`admins` the roles. `creator[c]` is one call of `ProjectsManager.create`, from
`next_id` (`Pick`, `Bump`: `select_for_update` on the row that was newest when it
was read) over the first `Project.create` (`Mkdir`, `LookUp`, `Add`, `GetRecord`,
`AddRecord`) to the role, or over a failure (`MkdirFails`, `StorageFails`, and
`RecordFails` when the metadata cannot be read, written or queued for the index), the
deletion of the directory (`Undo`) and the recovery: two scans, `UpdatePick`,
`UpdateWrite`, and a second try. `StorageFails` may follow a registration whose
answer was lost. `command[m]` is `manage.py projects_id`.

`ProjectRegistry` says what this amounts to for the Tapis tenant, without
counter, scans or retries: directories appear, a system is registered under a
number nobody had and keeps its maker, nobody takes away a directory in which a
project of somebody else lives, and a creation answers with a project it
registered and whose directory is there. `ProjectCreation` implements it with
`answered` mapped to the creations that are done.

### ProjectMembers

`role[u]` is the role on the storage system, `pi` and `co_pis` the metadata row.
A request loads the project (`Load` copies `pi`), and for each change of its list
(`Changes`: one for add and remove, three for a transfer) does `ReadRoles` (with
the check of the acting user), `SaveRole`, `Relate` (the many-to-many table or
the field) and `SaveMetadata`, which saves the row whole with the copy of `pi`.
`Press` is the request of a Manage Team window: it shows one of the teams there
have been (`shown`), however long ago, offers what follows from that team
(`Offers`), and names as old owner the PI it shows. The server checks who asks
(`Load`, `ReadRoles`), not what place the users now have whom it is asked about.
`misled` remembers whom such a request concerned when the window took another for
the PI (`Mistakes`).

### JobNotifications and JobFeed

`JobNotifications` is the server: `stage[j]` is how far Tapis has come with a
job, `rows` the committed `Notification` rows, `hook[h]` one post. A post of a
status the job has had may arrive at any time and again; it is validated
(`Validate`), compared with the last committed row (`ReadLast`), made (`Make`: the
default of `datetime` is the time of that moment), inserted (`Create`, which gives
it its primary key) and sent (`Send`, the receiver of `post_save`, which puts the
message on the `wire` before the transaction ends); then the indexing is queued for
a finished job (`Index`), and only `Commit` makes the row visible; `Rollback` may
come instead at every point. Between these steps other posts take theirs, so the
order of the times, of the keys and of the messages of two posts may all differ:
duplicates are looked for by key (`Newest`), the listing is by time (`Listing`).
`DeliverSession` and `ValidateSession` are the interactive webhook, whose row has no
`jobId` and is not in a transaction: `Create` makes it visible at once.

`JobFeed` adds one browser: `notifs` and `table` are the two pieces of the store,
`ntfFetch`, `jobFetch` and `detFetch` the three requests of which `takeLatest`
keeps only the last. Each has an `Answer` step, in which the server (or Tapis)
fixes what it says, and an `Apply` step, in which the saga puts it into the
store. `ReceiveListed`, `ReceiveUnlisted`, `ReceiveSession` are `handleSocket`
(a change of a job that is not in the table empties the table and lists it
again), `Lose` a message that was sent while the socket was reconnecting,
`OpenHistory`, `MarkAll`, `ShowDetails` the pages.

### Workbench and its pages

Every page is a module over the same four variables: `store`, its slice; `calls`,
per saga the requests that are open; `ui`, what the components keep (route, window
on show, flags of React) and the histories; `alive`, whether the root saga runs.
The slices of two pages are disjoint and no page reads that of another, so
`Workbench` picks one page in `Init` and follows it. The exceptions are modelled on
the page that suffers from them: the push-keys window of a job is on the pages of
files and of applications. `TokenRefresh`, `SystemKeys` and `DatabaseCache` are
parts of the server, written over the same four variables.

Reducers are operators named after the action they reduce (`FETCH_FILES_START`,
`CHECKING_PASSWORD`, ...); sagas are two steps, up to the request (inside the step
that dispatches) and from the answer on, named after the saga; components are named
after their file or handler, with the condition under which they are shown or
enabled as the guard.

| Module | State | Actions |
|---|---|---|
| `FileListings` | the two sections of the `files` slice (page, modal), `params`, selection | `DataFilesSwitch`, `DataFilesListing`, `DataFilesBreadcrumbs`, `onOpened`, ... ask; `watchFetchFiles`, `scrollFilesAnswer` answer, with a page of rows, an empty one, an error with or without a code |
| `FileOperations` | selection, modals, their files, status per file and batch, per job, the link, the preview, the push-keys window | the toolbar (`canX`), each modal's opening, submission, closing and end of animation, one answer per file of a batch; the race of `moveFiles`, `copyFiles`, `trashFiles`, `uploadFiles` with the closing modal |
| `JobForm`, `RunTimes` | tray, application, submission, keys window | routes, `onSubmit` with what Yup accepts, `submitJobAnswer` (a job, an error, keys wanted), `pushKeys`, resubmission |
| `AllocationPages` | listing, teams, errors | routes, `Team`, `toggle`, answers |
| `TicketPages` | listing, window, thread, draft, feedback; the request tracker | windows, `TicketHistoryReply`, `TicketCreateForm`, what others write, reads and answers apart |
| `AccountPage` | profile, fields, windows, verdicts | the windows and forms, answers of the four sagas |
| `ProjectPages` | listing, metadata, operation | pages, windows, answers of the five sagas |
| `OnboardingPages` | events of each user, the wire, two views | `queueRuns`, `actionDone` (server), `viewRead` (an answer is read), the sagas, the socket, the buttons |
| `Dashboards`, `ColorScale` | selection, county, zoom, data, chart | the selectors, `click`, `handleZoom`, the effect that fetches a chart, both sagas |
| `DatabaseCache` | time of each file, stamps, answers | one step per access of `decorators.py` to the cache, `query`, `update` of a file, `lost` |
| `SystemKeys` | pair in Tapis, row of the system, row of the host, `authorized_keys`; what each request has still to do | `reset_system_keys` starts a reset or a push; `set_keys`, `update_keys`, `update_hostname_keys` are its calls in the order of `accounts.py` 127-159; `for_hostname`, `add_public_key` the push; `validate_storage_system`, `validate_exec_system` make systems; `fail` ends any of them |
| `TokenRefresh` | row, last token the service gave out | `AgaveTokenRefreshMiddleware` takes the lock, `client` does not; `refresh`, `refused`, `agave_oauth_callback`, `update`, `lost` |

`RunTimes` writes the regular expression of `createMaxRunTimeRegex` as what it
accepts, an alternative per place, and `Fits` as what it is meant to accept.
`ColorScale` keeps fractions by counting in parts of which `One` make one.


## 3 Runs

Deadlock is not checked in any run: logins, presses, posts and creations are
bounded, and when all are used and everything has come to rest the models stop,
as the portal does when nobody uses it. That the resting states are the right
ones is what `NobodyForgotten`, `VerdictCounts`, `NoActionRequired`,
`LoneChangesMatch`, `FeedIsCurrent` and `SpinnerIsServed` say.

Where a run says SYMMETRY, it is over what the model treats all alike (workers,
logins, presses, systems, posts, requests of a team and the co-PIs it starts with);
no run with a liveness property does, and the states below are those left by it.

### Runs that pass

| Run | Question | Instance | States |
|---|---|---|---|
| `onboarding_staff` | Can tasks, staff and crashes between them lose a user, or complete one who is not through? | steps membership, access, allocation, system access; 1 login, 2 presses of any button, 2 workers, 1 crash, a TAS that may fail whenever a step is constructed | 1.8M |
| `onboarding_live` | Is a PENDING step picked up, and is a finished list counted? | steps system access, MFA; 2 logins, 1 press, 1 worker, fair; TAS as above | 115k |
| `keyservice_races` | Do answers, resets and second runs that write from old copies ever invent a result? | 2 systems, 2 workers, 2 deliveries of any answer, 1 press | 322k |
| `keyservice_orderly` | When answers come one at a time, does the step end? | 2 systems, 1 worker, 4 deliveries, 1 press, fair | 152k |
| `projects_fresh` | Does creation implement the registry? | 3 creations at once in a tenant of the portal's own; every remote call, and the writing of a record, may fail | 20k |
| `projects_serial` | Does the recovery settle, whatever it finds? | 3 creations and 1 command, one after another; systems 2, 4 and directory 3 may be there already, the counter row too; failures as above | 365k |
| `members_team` | Do roles and record stay together? | 4 users, 2 co-PIs, 3 requests of any kind from windows of any age, transfers alone, any request may stop half-way | 653k |
| `jobs_feed` | Is a status lost or told twice, and does the table end at the last word? | 1 job from RUNNING over ARCHIVING to FINISHED, 2 posts of either kind, 1 page visit, lost messages, failing requests | 2.3M |
| `browser` | Does a page show something else than it says, or wait for nothing; do two stores of one thing disagree? | every page of `Workbench`, see below | 3.2M |

**onboarding_staff.** *BatonHeld*: as long as the setup is not complete, a step
the executor should run (or the end of the list) has a task queued, a task still
to reach it, or a request that will queue one; only an actor that dies (a killed
worker, a request that ends in an error, a task or a login that cannot construct a
step) may cost the baton, and whatever is queued next brings it back. *ProcessingOwned*: a step at
PROCESSING is being processed, or about to be overwritten, or was deserted by an
actor that died on it or ignored the press. *NobodyForgotten*: at rest, a user who
is not through waits for a person, sees a failure, or is at a step some actor deserted;
again with the exception of a baton that was lost. *EarnedCompletion*:
`setup_complete` becomes TRUE only by a task that has seen every step COMPLETED
since it was taken from the broker. Three steps are the least for which a task
can be before, at and past the step a request is about, and a fourth brings the
second class whose constructor may raise, at the end of the list; two workers and two
presses the least for a task, a second task and two requests to overlap.

**onboarding_live.** *FrontServed*: a PENDING step at the front does not wait for
ever. *CompletionFollows*: if all steps become COMPLETED for good,
`setup_complete` follows. Both but for a baton that is lost and that nothing brings
back: then the step does wait for ever (section 6). The instance has the step class that writes progress
rows and the one a user confirms, and two logins of which each may prepare over
the other.

**keyservice_races.** *Accounted*: the three lists stay disjoint, and list as
successful or failed only what was answered so. *CompletedMeansCreated*: a
COMPLETED row with lists has none unanswered or failed. *VerdictCounts*: at rest a
COMPLETED step has been counted. `MaxProcesses`, the runs of `process`, cuts
nothing short in any run: one task is queued to begin with, and at most one for
every press and every answer, which is no more than the bound.

**keyservice_orderly.** *StepSettles*: the step ends for good, a staff reset
included, after which the answers of the old run still come. Four deliveries are
two runs of two systems.

**projects_fresh.** *RegistryKept* (the refinement), *DistinctIds* and
*CreatedIsWhole*. Three creations let two overlap while a third has finished.

**projects_serial.** *CreatedIsWhole* again, also over what others have made.
*RecoverySettles*: the second `Project.create` never meets a
system that is registered. *CommandIsSafe*: the counter the command leaves is no
smaller than any number in use. The counter starts at 1: a foreign system may sit
at the next number and, with a gap, above it, a foreign directory without system
between them, so that first try and recovery both meet them.

**members_team.** *PiIsOwner*: also in the middle of a transfer and when it stops
there. *LoneChangesMatch*: at rest everybody has the role the record gives them,
but for users two requests were about at once or a request failed on. Users
otherwise do not meet, and three requests let two about other people surround one.
Windows may be behind: one that does not know who is co-PI by now does no harm (it
adds whom another has added, or removes whom another has removed), and both
properties say so. One that takes another for the PI does: adding, removing or
promoting the PI there, or letting a former PI hand over what is no longer theirs,
ends as section 6 says; both properties leave out that PI and those users
(`misled`) and hold for everybody else.

**jobs_feed.** *AckedIsStored*: a status answered with "OK" is in a committed row,
although a post may be answered as a duplicate and its twin rolled back.
*NoRepeat*: rows of a job that follow each other differ, when its posts are served
one after another. *FinishedIsIndexed*. *FeedIsCurrent*: at rest the table shows
of every listed job what its newest notification says, unless the browser missed
a row, was sent one that was rolled back or the messages of two overlapping posts
in the other order, or its details or session came last (the histories `gone`,
`behind` and `aside` name exactly these cases; each mends by the next message or
listing). One job is enough since jobs meet
only when the table is emptied; two posts are the least that overlap, and each
fetch has an answer that can be older than a message, a row, or another fetch.

**browser.** *TypeOK* holds page by page, with what the slices owe each other (a
selection is of rows, a window is of its page).

* *SpinnerIsServed*: whatever shows a spinner waits for a call that is open. The
  page of files says so of the spinner in place of the rows, unless the listing of
  the other section cancelled the call, and of the one below the rows, unless the
  last scroll of the section failed (`ui.unscrolled`); of both unless the root saga
  ended. That of applications unless a submission was left; that
  of allocations unless a second listing emptied the team.
* *ListingIsOfFolder*: rows of the folder in the address, each once and in order,
  and the selection within them, unless a scroll outlived its listing.
* *WindowIsOfFile*: preview and link are of the file in the window, with two
  exceptions: a window that is still opening shows what an older request answered
  after its window had closed (`ui.early`), and the request for the link may have
  been forgotten.
* *PageIsOfRoute*: the form, its answer and its spinner are of the application of
  the route; the page of a project edits that project.
* *RunTimeFits*: no job is sent whose run time, read in the last six digits of what
  was entered, is over its queue's, also none that is sent again after its keys were
  pushed; a queue without time refuses nothing. What the message of the form says is
  less than it promises in both points (section 6).
* *DeskIsCurrent*: a thread is of the ticket in the title, in order; a ticket the
  form has called created is listed.
* *OneVerdict*: a form does not tell of success and failure at once.
* *StateIsCurrent*: of every step a setup page shows the last event, once no message
  of that step is to come, unless an answer, or a message of an earlier event, came
  after one of its messages.
* *PlotIsOfSelection*, *ColourIsInClass*: chart, map and legend are of what is
  selected, and every value lies in the class of its colour.
* *AnswerIsCurrent*: a cached answer was read from the file as it was when the
  request came, or later, unless another worker stored it late.
* *CredentialsAgree*: after a reset, push or creation that met no other on its
  system or hosts, Tapis and the row hold one pair, and the host accepts it when it
  was pushed, until the system is changed again and whatever fails on systems that
  share its host; the token in the row is the last one issued, and no request was
  refused, unless an answer was lost or a renewal without the lock crossed another.

Each "unless" is a history (`ui.overtaken`, `ui.forgotten`, `ui.crossed`, ...) that
is set at the step where the code goes wrong, and section 6 has the behaviour; the
property shows that this step is the only way.

The instances: two folders of two rows, one of them in Google Drive; a plain file
and an archive, with `Sessions` naming which operations are tried together and
`MaxOpen` two of them open; four applications (plain, serial, html, without
allocation), three queues and three run times, at a maximum, above it and with a digit too
many; two teams
and two listings at once; two tickets with a thread of two entries and one of one; two workspaces;
two users, two steps and two events of one of the users, of one step or of
each; three counties, two types, two years,
three features with zero, missing, equal and fractional values; two functions over
two files that change twice, two requests; a storage system and an execution
system that share a host, two requests and two pairs; three renewals and four
tokens. Two of a thing are the least that can be confused; a third renewal lets a
login meet a request and a task.

### Runs that fail, as they should

They check what a comment, a docstring or a text of the code says, against what
the code does; section 6 has the behaviours.

| Run | Property | Instance |
|---|---|---|
| `keyservice_stuck` | *NoActionRequired* | 2 systems, 2 answers, 1 worker |
| `projects_recovery` | *CreatedIsWhole* | 2 creations, a project 2 made elsewhere |
| `members_race` | *PiIsOwner* | 3 users, 1 co-PI, 2 requests: removals, and transfers that are not alone |


## 4 Fairness

`onboarding_live` and `keyservice_orderly` use `FairSpec`; every other run checks
safety only. In the browser nothing is assumed of answers: `SpinnerIsServed` says
that a call is open, and whether it is answered is up to the network.

* Weak fairness of each worker's next step: Celery takes what is queued, and a
  task that is not killed goes on (`onboarding_live` has no crashes). The portal's
  compose file starts the worker with the queue `onboard`.
* Weak fairness of each request that has been sent: a web process finishes what it
  serves, with an answer or an error.
* `keyservice_orderly` only: the key service answers every call. This is an
  assumption about an external actor; the code has no timeout for a lost answer.

Nobody is assumed to log in, to press a button, or to confirm. A step at USERWAIT
or STAFFWAIT may stay there, and the properties allow it.


## 5 Proofs

TLAPS proves the following for all values of the constants: any number of steps
of any classes, workers, logins, presses, systems, answers, creations, users,
requests, jobs, posts, folders, files, applications, tickets, workspaces, counties,
values and times. The only assumptions are the named `ASSUME`s of the modules (the
list of steps is not empty; logins and presses are different requests; the set of
systems is finite; ...; section 7 has those of the workbench) and the hypotheses
shown here.

| Theorem | Establishes | By |
|---|---|---|
| `OnboardingProofs!TypeCorrect` | `TypeOK` | `TypeOK` is inductive: it carries what a position says of its fields (`WorkerOK`, `RequestOK`) |
| `!CompletionIsEarned` | `EarnedCompletion` | with `CreditInv`: a task at position `at` has earned credit for every step before it |
| `!BatonIsHeld` | `BatonHeld` | inductive with `TypeOK`: a step moves the front only by COMPLETED or PENDING rows, and whoever writes one is going to queue or to walk on, or dies or raises, which `lost` records |
| `!ProcessingIsOwned` | `ProcessingOwned` | inductive with `TypeOK`: whoever writes PROCESSING stays at the step until another row follows, or counts as a deserter |
| `!NobodyIsForgotten` | `NobodyForgotten` | from `BatonHeld`, `ProcessingOwned` and `Prepared` (a step without a row has a login coming, or one has given up before it); the least open step exists by well-foundedness |
| `KeyServiceProofs!TypeCorrect`, `!AnswersAccounted`, `!CompletedIsCreated` | `TypeOK`, `Accounted`, `CompletedMeansCreated` | `IInv` = `TypeOK`, `Accounted`, `Closed` (a COMPLETED row is closed), `HookOK` (the copy a callback holds is sound as well, however old) |
| `!VerdictIsCounted` | `VerdictCounts` | `Counted`: a COMPLETED row not yet counted has a callback, a request or the worker on its way to queue or to walk on |
| `ProjectCreationProofs!TypeCorrect` | `TypeOK` | with a bound on all numbers in use (there is one at every moment), without which the largest of a scan need not exist |
| `!IdsAreDistinct`, `!CreatedStaysWhole`, `!PortalKeepsRegistry` | `DistinctIds`, `CreatedIsWhole`, `RegistryKept`, assuming `Undisturbed` | `IInv`: one counter row; every number held was handed out; what is registered, recorded or granted under a number belongs to the call that holds it; the directories are in place |
| `!RecoveryAlwaysSettles`, `!CommandStaysSafe` | `RecoverySettles`, `CommandIsSafe`, assuming `Serial` | `SerialInv`: a call is alone, and what its scans found covers every registered system until it reaches the counter |
| `ProjectMembersProofs!TypeCorrect` | `TypeOK` | with `Stage` and `Counted`: where a request is in its list of changes |
| `!PiStaysOwner` | `PiIsOwner`, assuming `"transfer" \in Exclusive` | `TransferInv`: a transfer under way is alone, it proceeds in the order of `transfer_pi` (`HandsOver`) or comes from a window that took another for the PI, and then old, new and named PI are all in `misled` (`Misleads`); no other request touches the PI's role unless the PI is in `misled` |
| `!LoneChangesAgree` | `LoneChangesMatch`, assuming `"transfer" \in Exclusive` | `LoneInv` on top of `TransferInv`: a user nobody disturbed or misled is settled, or in the hands of one request at the point `Halfway` describes, whether that user had a place before or not |
| `JobFeedProofs!TypeCorrect` | `ServerTypeOK` | with `Sane`, which a position says of a post |
| `!AckedStored` | `AckedIsStored` | inductive with the types: rows are never taken back, and "acked" is reached through a row or after one |
| `!FinishedIndexed` | `FinishedIsIndexed` | a post that is to commit FINISHED has queued the task |
| `!RepeatsDiffer` | `NoRepeat` | `RepeatInv`: for a job not crowded, one post at most is served, no newest row shows its status once it is past `ReadLast`, and its primary key is larger than those of all rows |
| `!FeedIsServed` | `FeedSpec => Spec` | every step of the browser takes a message or leaves the server alone; `FeedKeepsPromises` concludes that the promises hold in the composed system |
| `JobFeedProofs!FeedTypes`, `!FeedComesToRest` | `TypeOK`, `FeedIsCurrent`, of `FeedSpec` | `FeedInv`, in four parts: every message is of a row that was made, no two rows were made at one time, and a post that has made its row is apart from the rows there are (`WireInv`, with `Apart`); the latest row of a job that is not behind is on its way or first in the list (`SeenInv`); the table agrees with the first notification unless the two were written apart (`TableInv`); an answered listing holds committed rows, newest first (`FetchInv`) |
| `WorkbenchProofs!WorkbenchTypes` | `Workbench!TypeOK` | `WorkbenchInv`: the open page is in the invariant of its module; no step leaves a page, so each is inductive on its own (below) |
| `!SpinnersAreServed` | `SpinnerIsServed` | part of the invariant of each page, with what ties a spinner to its call: the spinner below the rows to a scroll or to one that failed, a status RUNNING to the files of an open batch, `replying` to a reply, the flag of an operation to the saga it names |
| `!ListingsAreOfTheirFolder` | `ListingIsOfFolder` | `FilesNow`: a scroll that was not overtaken begins where the page ends (`MainScrolled`), a listing that is open is of the folder of `params` and stands below no rows (`MainFetched`) |
| `!WindowsAreOfTheirFile` | `WindowIsOfFile` | `OpsNow`: the calls for the link and the preview are of the file of their window while it is shown (`LinkFits`, `PreviewFits`); what a closed window's call answers is shown by the next before it has opened, or not at all |
| `!PagesAreOfTheirRoute`, `!RunTimesFit` | `PageIsOfRoute`, `RunTimeFits` | `FormInv`: a call for an application is for the one of the address (`RouteAsked`), a submission not left alone has its form (`Attended`); `SharedInv`: what a page of a workspace asks for is about it (`AskedForPage`) |
| `FilePagesProofs!AcceptedFits`, `!FittingAccepted` | of a queue whose maximum is not zero, what the expression accepts has last six digits within the maximum; and every time within it is accepted, whatever the maximum | by the place at which an entry first differs from the maximum |
| `WorkbenchProofs!DesksAreCurrent` | `DeskIsCurrent` | `DeskInv`: a listing on its way knows what was created (`Listed`); a thread on its way is of the title and has nothing the tracker has not (`ThreadsRead`); a reply of this window comes after all entries on show (`Replied`) |
| `!VerdictsAreOne` | `OneVerdict` | `AccountInv`: a form that waits for its answer has been told nothing (`Unanswered`) |
| `!StatesAreCurrent` | `StateIsCurrent` | `SetupInv`: the messages to come are of events stored (`Past`), and what a view that was not overtaken has not seen of a step is among them (`ViewsFollow`) |
| `!PlotsAreOfTheirSelection` | `PlotIsOfSelection` | `BoardInv`: an open request for a chart is of the selection, unless it was forgotten (`ChartIsOf`) |
| `!ColoursAreInTheirClass`, `!ValueIsInItsClass` | `ColourIsInClass`; of any extremes, a value between them lies in the class of its colour | the values of the counties are integers, a finite set of them has extremes, and the colour follows by cases: one number only; single values; six classes, each by bounds of the integer division |
| `!CachedAnswersAreCurrent`, `ServerPartsProofs!CacheTypes`, `!AnswersAreCurrent` | `Workbench!AnswerIsCurrent`; the same of the cache alone | `CacheInv`: an answer that is not late is as new as the stamp it stands under (`StampIsKept`), and a request past the comparison holds a time no newer than what it will find (`RequestsAgree`) |
| `WorkbenchProofs!CredentialsAreAgreed` | `CredentialsAgree` (`KeysAgree`, `TokenIsLast`) | `KeysNow`: a request that is alone has brought its pair exactly as far as the steps it has left say (`Agrees`), and a related one cannot be alone at the same time; `TokenInv`: while nothing has crossed, the last token is in the row or in the hands of one caller (`RequestHasLast`, `PendingHasLast`, `SavedIsLast`) |

`Undisturbed` says that the counter row has been seeded, that no system of the
naming scheme was made elsewhere, and that the command is not run meanwhile. The
runs `projects_serial` and `projects_recovery` show what happens without it:
calls that come one after another still make distinct, whole projects, and calls
at once do not.

An inductive invariant is needed in each case because the properties speak of
what has been written, and the danger lies in what is about to be: the copy a
callback or request holds, the number a creation has picked, the status a post
was compared with.

The invariants of the pages are stated over the four variables as they are, so a
page is proved on its own, and `WorkbenchStep` only has to say that a step of the
workbench is a step of the page that is open. Where one step of the code is two
after another, as a listing that starts while a scroll is cancelled, the invariant
takes the store, the calls and the components as parameters (`FilesInv`, `OpsInv`,
`KeysInv`), and a lemma per reducer carries it from one state to the next.

The map needs sums and extremes of finite sets. The induction theorem on finite
sets is out of reach, because it takes an operator as a parameter, so `SumsAgree`,
`SumsExist`, `SumTyped` and `Extremal` argue by a least counterexample instead
(`LeastSubset`: a subset without a property has one of least cardinality). They
say no more than the map needs: that such a sum is an integer, and that a finite set
of integers has extremes. The lists of a key request have no such argument and need
none: there are finitely many (`Todos`), and `TodoSteps` goes through them.

**Model-checked only.** Liveness under fairness (`FrontServed`,
`CompletionFollows`, `StepSettles`), which the prover does not reach. Every
invariant and every action property of the runs that pass is a theorem above.
`ENABLED` and `RECURSIVE` operators are beyond the prover as well; no module needs
them.


## 6 Where code and documentation part

Each of the three runs of section 3 that fail ends in one of these:

* **A key service step stays in PROCESSING** (`keyservice_stuck`). Two answers at
  once write over each other (`key_service_creation.py:112`), and an answer that
  comes before the row with the requested systems (`:105`) finds no lists. Every
  call has been answered, "No action required" (`:32`) is on the page, and no
  action comes.
* **A project loses its directory** (`projects_recovery`). Two recoveries at once:
  the later one resets the counter from an older scan, hands out a number that was
  just used, fails on the registered system, and deletes the directory
  (`projects/models/base.py:296`), which it did not make.
* **A PI without the role OWNER** (`members_race`). A transfer to a co-PI and the
  removal of that co-PI overlap: the removal has read the roles, the transfer makes
  the user OWNER, the removal deletes that role, and the transfer saves the user as
  PI; `projects/models/base.py:371` says what a PI has.

Further observations made while modelling. They are described by the models (or
by the code next to them) and no run is kept for them:

* `execute_setup_steps` sets `setup_complete` (`execute.py:109`) after the last step
  it walked. A staff reset between the walk and the assignment sets it to False, as
  `onboarding/api/views.py:161` says, and the task sets it back: everything comes to
  rest with a complete setup and a step that is not COMPLETED.
* Steps that ask TAS in their constructor (`project_membership.py:21`) are constructed
  outside any `try`. A task that meets such an error (`execute.py:88`, above the `try`
  of 95-100) ends with its message acknowledged, the step PENDING and nobody queued,
  although `state.py` says of PENDING that the step will have its process called. A
  login (`:75`) answers with an error before it queues anything and leaves the steps
  from there on without a row; a POST (`views.py:221`) changes nothing. Another login
  or press mends it.
* A button press logs the step's state from the copy the request loaded
  (`onboarding/api/views.py:177`), over what a task has written since.
* Two first logins can both prepare a step (`execute.py:76`), the second over what
  has happened to it in between; `abstract.py:114` has prepare called "if no log
  data exists for this step".
* A staff "confirm" of the MFA step is ignored by the step but has been logged, so
  a PROCESSING row can stay that nobody owns (`interrupted` records it).
* `key_service_creation.py:62` reads `self.id`, which no step has: the handler of a
  failed connection test raises in turn. The reactor is called for all systems
  (`:87`), also those found to work (comment `:56`).
* Without a counter row, two creations seed two rows with the same number
  (`projects/managers/base.py:161`). `projects_id` sets the counter from scans
  (`:93`) and can leave it below a number that a running creation holds.
* An edit, an addition or a removal that loaded the row before a transfer saved it
  saves the old `pi` back over the new one (`projects/models/base.py:471`);
  `members_team` makes transfers alone.
* A Manage Team window fetched before a transfer still offers the new PI for
  removal, lets the former PI hand the project on (the new PI stays OWNER beside a
  third), or, with a team from before two transfers, adds the PI as a co-PI; the
  requests, even one after another, take OWNER from the PI or leave two owners.
  Nothing looks at the place of the target (`projects/models/base.py:354`, `:415`,
  `projects/views.py:246-301`). `misled` are the users such a request is about.
* A removal that stops between role and relation leaves a co-PI without role
  (`projects/models/base.py:422`).
* Two overlapping posts of one status make two notifications
  (`webhooks/views.py:162`); `notifications/unit_test.py:68` tests that sending the
  same status twice makes one. `NoRepeat` leaves out exactly these jobs.
* The messages of two posts served at once may leave in the order opposite to that
  of their rows (`signals/receivers.py:46` runs after the key is given, outside any
  order): the table then shows the older status until the next listing or message.
  `BehindWith` counts such a job as behind, which is the exemption of
  `FeedIsCurrent`.
* A session post that is stored after FINISHED makes the table show RUNNING again
  and offer the session of an ended job (`JobsStatus.js:84-92`, whose comments
  intend the opposite).
* When queueing the indexing fails, `json.dumps(e)` (`webhooks/views.py:187`) raises
  inside the transaction: the post is answered with an error, the row is gone, the
  message has been sent.
* Details of a job that were fetched before a message arrived overwrite what the
  message said (`jobs.reducers.js:42`).
* `NEW_NOTIFICATION` recounts the badge from a list that was marked as read on the
  server only (`notifications.reducers.js:29`).
* `agave_indexer` tests `next(...)` over the project systems without a default
  (`search/tasks.py:21`): it returns or raises, and never indexes, so
  `FinishedIsIndexed` says no more than that the task is queued.
  `delete_recursive` deletes by a prefix that siblings share
  (`libs/elasticsearch/utils.py:103`).
* `transfer_folder` returns after its first entry
  (`libs/transfer/operations.py:42-51`).
* Files. A modal that closes while a batch runs leaves `result` undefined, and
  `result.includes` stops the root saga (`datafiles.sagas.js` 368-372, 482-486,
  541-546, 801-805). A scroll of the previous folder is not cancelled by a new
  listing; its rows are appended. A batch that ends after its modal was closed
  toggles it, and so opens it again. The link of a second file is forgotten while
  the first is fetched, whose address is then shown under the second (`:678`). A
  preview answered after its window has closed is kept, and shown under the name of
  the next file until that window has opened (`DataFilesPreviewModal.js` 25-48,
  69-76). A scroll that fails leaves `loadingScroll` set
  (`datafiles.reducers.js` 276-282): its spinner stays under the rows of every folder
  listed next, until a scroll succeeds.
  A push of keys to a system with two hosts reaches one of them
  (`SystemsPushKeysModal.js:41`, `takeLeading`).
* Applications. An answer to `GET_APP` replaces the html page opened meanwhile
  (`AppLayout.js:79`). A route resets a submission that is under way, whose answer
  then sets the submit flag the wrong way round. The last alternative of the
  expression for run times is not anchored: 148:00:00 passes for 48:00:00
  (`AppFormUtils.js:51`), and a maximum of 00:00:00 leaves a bare `^` that accepts
  everything, although the message says the entry is refused (`AppForm.js:368`).
* Allocations. The workbench and the page each list the allocations; the second
  answer empties the team on show, whose window spins for ever
  (`allocations.sagas.js` 14-23).
* Tickets. A reply is added to the thread on show, whichever it is by then. After a
  failed creation the form stays disabled (`TicketCreateForm.js:228`).
* Account. Closing a window after a success dispatches `LOAD_PROFILE_DATA`
  (`ManageAccountModals.js:32`), which no saga takes: the page spins until it is
  opened again. The optional form can tell of success and error at once.
* Workspaces. The answer to a change of one project fills the page of another
  (`projects.reducers.js:165`), and reopens or closes the window that is there.
  `PROJECTS_GET_LISTING` without a payload (`Workbench.js:63`) ends in an error.
* Onboarding pages. An answer read before an event arrives after its message and
  hides it until the same step has another, or the page is fetched again: an event
  changes only the step it names (`onboarding.reducers.js` 40-53). So does a message
  that was sent after that of a later event of its step. After one failed action no page offers buttons
  (`OnboardingActions.js:50`).
* Dashboards. A county picked while a chart is fetched gets the chart of the one
  before (`protx.sagas.js:74`). The test whether the selected feature exists in the
  new unit compares booleans to 0 (`DisplaySelectors.js:90-95`), so that the
  selection never changes. The portal looks for the years 2010 to 2019 in a
  dictionary that starts with 2011 (`demographics.py:236`). The requests of the two
  database files empty the cache for one another (`decorators.py:41-44`).
* Keys. A push without an exit status of the host is answered with 200
  (`ssh_keys.py:156`). A disabled system is enabled before its new keys are saved:
  if that fails, the next setup finds it available and leaves it
  (`user_systems.py:119`, `:149`). An execution system cloned before its user has
  keys gets the words `public_key` and `private_key` for a pair
  (`user_applications.py:363`).
* Token. A worker that dies between the answer of the token service and the commit
  leaves a token that cannot be renewed; every request is refused until the next
  login. So does a renewal without the lock that is saved after a login.


## 7 Assumptions and what is left out

**Assumed of the surroundings.** The portal has at least one setup step; staff act
on other users than themselves; a task runs the list of steps that was configured
when it was queued. Tapis keeps one system per identifier, making a directory that
exists is no error, and a remote call that fails has either taken effect or not.
Posts about a job carry a status it has had. No two notifications are made at the same
moment. The token service renews the last refresh token it gave out and no
other. A host's `authorized_keys` only grows. A cached query reads one version of its
file. Messages of the onboarding socket are not lost. The storage
systems of the portal are loaded when the form of an application is. Nobody presses
the browser's back button while a modal is open, or clicks during the animation of
the map. The dashboards have no link between them. `FileOperations` opens its push-keys
window for jobs; `DataFilesPushKeysModal` of the files page is opened nowhere in the
code. All jobs of the user are on the first page of the table.
`WorkbenchAssumption` collects what the pages take for granted of their constants,
each part named in its module: the home folder is one and the page of projects is
none; a queue's maximum is in the form HH:MM:SS and what is entered is digits, of any number; no
workspace is called as a page is; a thread holds at least one entry; the values of
the dashboards are whole numbers of parts, for finitely many counties and types,
and no others than the counties have one; a function of the cache has a file; an
execution system is a system; the bounds are numbers. The theorems about the
workbench assume nothing else.
`Exclusive` in `ProjectMembers` is a restraint of the users, not of the code:
nothing in the code keeps requests apart, and what holds only with it is said so.

**Abstracted.** Texts, tickets' contents, event data other than the three lists,
addresses and names. TAS, RT and Tapis are the outcomes of calls. Row locks are
modelled where the code takes them (`ProjectId`). Statuses of jobs that the portal
treats alike (the intermediate ones) are represented by one of them.

**Bounds.** Logins, presses, answers, posts, visits, creations and requests are
finite sets, the kill count is `MaxCrashes`, the runs of `process` are
`MaxProcesses`, numbers made elsewhere at most `ForeignMax`; in the workbench
`MaxRows` (rows of a listing), `Sessions` and `MaxOpen` (operations together),
`Entries` (run times), `Listings`, `MaxEntries` (of each thread), `MaxEvents`,
`Requests` and `MaxChanges` (of the cache), `Callers` and `MaxKeys`, `Renewers` and
`MaxTokens`. The theorems hold for all of those they speak of.

**Not modelled**, with the reason: the metadata repair (one insertion, listed as a
hazard); the files API, transfers, search and the server side of job submission,
allocations and tickets (a request is one or two remote calls, and what they race
over is in Tapis, Elasticsearch, TAS or RT); the plots and histograms of the
dashboards (data frames drawn, without state), the resource layers of the map, and
chart components that nothing renders; site search, public data, system monitor and
presentation. Read marks, the badge, toasts and deletion of notifications are not
part of `JobFeed`; which entries of a thread are unfolded is not part of
`TicketPages`; the ACL jobs of a project's files run on the storage host and report
nothing back.


## 8 Plan

Done, in this order: `Onboarding` (the behaviour every user passes through),
`KeyService`, `ProjectRegistry` and `ProjectCreation`, `ProjectMembers`,
`JobNotifications` and `JobFeed`; then the workbench, page by page: `FileListings`,
`FileOperations`, `JobForm`, `AllocationPages`, `TicketPages`, `AccountPage`,
`ProjectPages`, `OnboardingPages`, `Dashboards`; and the server below it:
`DatabaseCache`, `SystemKeys`, `TokenRefresh`. For each its types, its safety
properties, the mutated code that breaks them, and the theorems of section 5.

To come:

1. `JobFeed`: read marks and the badge (`NOTIFICATIONS_READ`,
   `UPDATE_BADGE_COUNT`), with the property that the badge at rest counts what is
   unread on the server; and the session link of `JobsStatus.js`, offered for jobs
   that have not ended.
2. `ProjectMetadata`: get-or-create on the first access, composed with
   `ProjectCreation`; the row of a project is one.
3. The tickets of the step classes in `Onboarding`: one ticket open per request.
4. Theorems: with the invariants of all pages proved, what is left to state is more
   abstract: a specification of the onboarding queue (a list of steps, a front, a
   baton) that `Onboarding` implements, and of a cache that `DatabaseCache` does.
