------------------------------- MODULE JobForm -------------------------------
(***************************************************************************)
(* The applications page: the tray, the form of the application on the     *)
(* route, the submission of a job, and the keys the submission may ask for.*)
(*                                                                         *)
(* Every rendering of the route asks for its application and forgets the   *)
(* submission, GET_APP keeps the latest call, SUBMIT_JOB the first one.    *)
(* An html application needs no call and does not cancel one.  The submit  *)
(* flag of the store is toggled, never set, and the form adds a flag of    *)
(* its own; an answer is shown on the form that is there when it comes.    *)
(***************************************************************************)
EXTENDS RunTimes, FiniteSets

CONSTANTS
    Apps,         \* the applications of the tray
    Html,         \* those that are a page of text
    Unallocated,  \* those whose system the user has no allocation on
    Unlicensed,   \* those whose license the user has not activated
    Serial,       \* those that run on one node
    Visible,      \* the inputs the form shows
    Required,     \* the inputs an application wants
    Queue,        \* name -> [time, nodes, processors], what a queue allows
    Normal,       \* the queues that want three nodes
    Entries,      \* the run times tried
    NoApp         \* the absence of an application

\* What the constants are (the composing module assumes it).
FormAssumption ==
    /\ Html \subseteq Apps /\ NoApp \notin Apps
    /\ Entries \subseteq Seq(Digit)
    /\ \A q \in DOMAIN Queue : Queue[q].time \in Time

VARIABLES store, calls, ui, alive

vars == <<store, calls, ui, alive>>

Watchers == {"GET_APPS", "GET_APP", "GET_ALLOCATIONS", "SUBMIT_JOB", "pushKeys"}
NoAnswer == [kind |-> "none", app |-> NoApp]
NoJob == [app |-> NoApp]

----------------------------------------------------------------------------
(* The reducers `apps`, `app`, `allocations`, `jobs` and `pushKeys`.       *)

initialState == [loading |-> FALSE, tray |-> FALSE, error |-> FALSE]
initialAppState == [definition |-> NoApp, loading |-> FALSE, error |-> FALSE,
                    systemHasKeys |-> TRUE]
initialSubmit == [submitting |-> FALSE, response |-> NoAnswer]

GET_APPS_START(st) == [st EXCEPT !.apps.loading = TRUE, !.apps.error = FALSE]
GET_APPS_SUCCESS(st) == [st EXCEPT !.apps.loading = FALSE, !.apps.tray = TRUE]
GET_APPS_ERROR(st) == [st EXCEPT !.apps.loading = FALSE, !.apps.error = TRUE]
GET_APP_START(st) == [st EXCEPT !.app = [initialAppState EXCEPT !.loading = TRUE]]
LOAD_APP(st, a, keys) ==
    [st EXCEPT !.app = [@ EXCEPT !.definition = a, !.systemHasKeys = keys,
                                 !.loading = FALSE]]
GET_APP_ERROR(st) == [st EXCEPT !.app.loading = FALSE, !.app.error = TRUE]
ADD_ALLOCATIONS(st) ==
    [st EXCEPT !.allocations = [loading |-> FALSE, hosts |-> TRUE]]
ADD_ALLOCATIONS_ERROR(st) == [st EXCEPT !.allocations.loading = FALSE]
FLUSH_SUBMIT(st) == [st EXCEPT !.submit = initialSubmit]
TOGGLE_SUBMITTING(st) == [st EXCEPT !.submit.submitting = ~@]
SUBMIT_JOB_ANSWER(st, kind, a) ==
    [st EXCEPT !.submit.response = [kind |-> kind, app |-> a]]
SYSTEMS_TOGGLE_MODAL(st, by) ==
    [st EXCEPT !.keys = [open |-> ~@.open, by |-> by, submitting |-> FALSE]]

----------------------------------------------------------------------------
(* AppDetail shows the form of the application that is loaded, whatever    *)
(* the route says, and AppSchemaForm ends its own submission when it is    *)
(* rendered with an answer.                                                *)

AppsLayout(st) == st.apps.tray /\ ~st.apps.error
AppDetail(st) ==
    CASE st.app.error -> "error"
      [] ~st.app.error /\ (st.app.loading \/ st.allocations.loading) -> "spinner"
      [] ~st.app.error /\ ~st.app.loading /\ ~st.allocations.loading ->
            IF st.app.definition = NoApp THEN "placeholder"
            ELSE IF st.app.definition \in Html THEN "text" ELSE "form"
FormShown(st, route) == route # NoApp /\ AppsLayout(st) /\ AppDetail(st) = "form"

AppSchemaForm(st, u) ==
    LET mine == u.isSubmitting /\ FormShown(st, u.route)
        done == mine /\ st.submit.response # NoAnswer /\ st.submit.submitting
    IN  /\ store' = IF done THEN TOGGLE_SUBMITTING(st) ELSE st
        /\ ui' = [u EXCEPT !.isSubmitting = mine /\ ~done]

\* Applications run through SLURM; a list that failed holds no allocation.
missingAllocation(st) ==
    st.app.definition \in Unallocated \/ ~st.allocations.hosts
readOnly(st) ==
    \/ st.app.definition \in Unlicensed
    \/ missingAllocation(st)
    \/ st.submit.submitting

----------------------------------------------------------------------------
(* What the form lets through.                                             *)

FormSchema(inputs) == Visible \cap Required \subseteq inputs
getNodeCountValidation(q, n) ==
    (IF q \in Normal THEN 3 ELSE 1) <= n /\ n <= Queue[q].nodes
getProcessorsOnEachNodeValidation(q, n) ==
    Queue[q].processors = -1 \/ n * Queue[q].nodes <= Queue[q].processors
getQueueValidation(q, a) == ~(q \in Normal /\ a \in Serial)

\* What the fields hold: a serial application has none for the nodes.
values(a) == [app : {a}, inputs : SUBSET Visible, queue : DOMAIN Queue,
              nodes : IF a \in Serial THEN {1} ELSE 1..3, time : Entries]

Jobs(a) == {job \in values(a) :
    /\ FormSchema(job.inputs)
    /\ getQueueValidation(job.queue, a)
    /\ getNodeCountValidation(job.queue, job.nodes)
    /\ getProcessorsOnEachNodeValidation(job.queue, 1)
    /\ createMaxRunTimeRegex(Queue[job.queue].time, job.time)}

----------------------------------------------------------------------------
(* The sagas.                                                              *)

getAppTray ==
    /\ calls["GET_APPS"] # {}
    /\ calls' = [calls EXCEPT !["GET_APPS"] = {}]
    /\ \/ AppSchemaForm(GET_APPS_SUCCESS(store), ui)
       \/ AppSchemaForm(GET_APPS_ERROR(store), ui)
    /\ UNCHANGED alive

\* The list the workbench asked for, which the form needs to be shown.
getAllocations ==
    /\ calls["GET_ALLOCATIONS"] # {}
    /\ calls' = [calls EXCEPT !["GET_ALLOCATIONS"] = {}]
    /\ \/ AppSchemaForm(ADD_ALLOCATIONS(store), ui)
       \/ AppSchemaForm(ADD_ALLOCATIONS_ERROR(store), ui)
    /\ UNCHANGED alive

\* `left`: a submission was under way, or its keys were asked for.
Submitting == calls["SUBMIT_JOB"] # {} \/ store.submit.submitting
                  \/ (store.keys.open /\ store.keys.by # NoJob)

(* Faulty: what was submitted before stays on show. *)
getAppUnflushed(a, st, c, u) ==
    /\ AppSchemaForm(GET_APP_START(st),
                     [u EXCEPT !.route = a, !.left = @ \/ Submitting,
                               !.outlived = FALSE])
    /\ calls' = [c EXCEPT !["GET_APP"] = {a}]

\* The early return of getApp never comes: no definition says systemHasKeys.
getApp(a, st, c, u) ==
    /\ AppSchemaForm(GET_APP_START(FLUSH_SUBMIT(st)),
                     [u EXCEPT !.route = a, !.left = @ \/ Submitting,
                               !.outlived = FALSE])
    /\ calls' = [c EXCEPT !["GET_APP"] = {a}]

getAppAnswer == \E a \in calls["GET_APP"] :
    /\ calls' = [calls EXCEPT !["GET_APP"] = {}]
    /\ \/ \E keys \in BOOLEAN : AppSchemaForm(LOAD_APP(store, a, keys), ui)
       \/ AppSchemaForm(GET_APP_ERROR(store), ui)
    /\ UNCHANGED alive

\* takeLeading: a submission while another is open is forgotten.
submitJob(job, st, c) ==
    IF c["SUBMIT_JOB"] # {} THEN [st |-> st, calls |-> c]
    ELSE [st |-> TOGGLE_SUBMITTING(FLUSH_SUBMIT(st)),
          calls |-> [c EXCEPT !["SUBMIT_JOB"] = {job}]]

submitJobAnswer == \E job \in calls["SUBMIT_JOB"] :
    /\ calls' = [calls EXCEPT !["SUBMIT_JOB"] = {}]
    /\ \/ AppSchemaForm(TOGGLE_SUBMITTING(SYSTEMS_TOGGLE_MODAL(store, job)), ui)
       \/ \E kind \in {"success", "error"} :
             AppSchemaForm(SUBMIT_JOB_ANSWER(store, kind, job.app), ui)
    /\ UNCHANGED alive

\* Keys were pushed: the modal is toggled, the job submitted again, and the
\* page pushed on the route again, which forgets that submission. A modal
\* closed meanwhile opens for no system and cannot be rendered.
pushSystemKeys == \E by \in calls["pushKeys"] :
    LET ended == [calls EXCEPT !["pushKeys"] = {}]
        toggled == SYSTEMS_TOGGLE_MODAL(store, NoJob)
        r == IF by = NoJob THEN [st |-> toggled, calls |-> ended]
             ELSE submitJob(by, toggled, ended)
    IN  /\ \/ /\ store.keys.open
              /\ getApp(ui.route, r.st, r.calls,
                        [ui EXCEPT !.left = @ \/ by # NoJob])
           \/ /\ ~store.keys.open
              /\ store' = toggled /\ calls' = ended
              /\ ui' = [ui EXCEPT !.up = FALSE]
           \/ getApp(ui.route, [store EXCEPT !.keys.submitting = FALSE], ended, ui)
        /\ UNCHANGED alive

----------------------------------------------------------------------------
(* The user. The keys are asked for in a part of the form.                 *)

KeysShown == store.keys.open /\ FormShown(store, ui.route)
Free == ui.up /\ ~KeysShown

\* The route of an application is rendered: from the tray, or once more.
AppsRoutes == \E a \in Apps :
    /\ Free /\ AppsLayout(store)
    /\ IF a \in Html
       THEN /\ AppSchemaForm(LOAD_APP(store, a, TRUE),
                             [ui EXCEPT !.route = a, !.left = @ \/ Submitting,
                                        !.outlived = calls["GET_APP"] # {}])
            /\ UNCHANGED calls
       ELSE getApp(a, store, calls, ui)
    /\ UNCHANGED alive

\* Submit, valid or not; pressing it marks the form as submitting.
onSubmit ==
    /\ Free /\ FormShown(store, ui.route)
    /\ ~readOnly(store) /\ store.app.systemHasKeys
    /\ \E job \in Jobs(store.app.definition) :
          LET r == submitJob(job, store, calls)
          IN  /\ AppSchemaForm(r.st, [ui EXCEPT !.isSubmitting = TRUE,
                     !.left = @ /\ calls["SUBMIT_JOB"] # {}])
              /\ calls' = r.calls
    /\ UNCHANGED alive

\* The notice of a system without keys, above the form.
pushKeys ==
    /\ Free /\ FormShown(store, ui.route) /\ ~store.app.systemHasKeys
    /\ store' = SYSTEMS_TOGGLE_MODAL(store, NoJob)
    /\ UNCHANGED <<calls, ui, alive>>

SystemsPushKeysModal ==
    /\ ui.up /\ KeysShown
    /\ \/ /\ ~store.keys.submitting
          /\ calls["pushKeys"] = {}
          /\ calls' = [calls EXCEPT !["pushKeys"] = {store.keys.by}]
          /\ store' = [store EXCEPT !.keys.submitting = TRUE]
       \/ store' = SYSTEMS_TOGGLE_MODAL(store, NoJob) /\ UNCHANGED calls
    /\ UNCHANGED <<ui, alive>>

----------------------------------------------------------------------------
\* The workbench has been opened: it asks for the tray and the allocations,
\* and marks the application as loading without asking for one.
Init ==
    /\ store = [apps |-> GET_APPS_START([apps |-> initialState]).apps,
                app |-> GET_APP_START([app |-> initialAppState]).app,
                allocations |-> [loading |-> TRUE, hosts |-> FALSE],
                submit |-> initialSubmit,
                keys |-> [open |-> FALSE, by |-> NoJob, submitting |-> FALSE]]
    /\ calls = [w \in Watchers |-> IF w \in {"GET_APPS", "GET_ALLOCATIONS"}
                               THEN {NoApp} ELSE {}]
    /\ ui = [route |-> NoApp, isSubmitting |-> FALSE, left |-> FALSE,
             outlived |-> FALSE, up |-> TRUE]
    /\ alive = TRUE

Next ==
    \/ AppsRoutes \/ onSubmit \/ pushKeys \/ SystemsPushKeysModal
    \/ getAppTray \/ getAllocations \/ getAppAnswer \/ submitJobAnswer \/ pushSystemKeys

Spec == Init /\ [][Next]_vars

----------------------------------------------------------------------------
(* Properties.                                                             *)

TypeOK ==
    /\ store.app.definition \in Apps \cup {NoApp}
    /\ store.submit.response.app \in Apps \cup {NoApp}
    /\ store.submit.submitting \in BOOLEAN /\ store.keys.open \in BOOLEAN
    /\ store.keys.by.app \in Apps \cup {NoApp} /\ ui.route \in Apps \cup {NoApp}
    /\ \A w \in Watchers : Cardinality(calls[w]) <= 1
    /\ ui.isSubmitting => FormShown(store, ui.route)

\* The form, its answer and its spinner belong to the application of the
\* route: the form unless an application asked for earlier outlived the
\* opening of a page of text, the answer unless a submission was left alone.
FormIsOfRoute ==
    FormShown(store, ui.route) =>
        /\ store.app.definition = ui.route \/ ui.outlived
        /\ \/ store.submit.response = NoAnswer \/ ui.left
           \/ store.submit.response.app = store.app.definition

\* A spinner is waiting for an open call, unless a submission was left alone.
SpinnerIsServed ==
    /\ store.apps.loading => calls["GET_APPS"] # {}
    /\ store.allocations.loading => calls["GET_ALLOCATIONS"] # {}
    /\ (store.app.loading /\ ui.route # NoApp) => calls["GET_APP"] # {}
    /\ (store.submit.submitting /\ ~ui.left) => calls["SUBMIT_JOB"] # {}

\* No job that was sent asks for more time than its queue allows, also not
\* one that is sent again. The time is what the last six digits of the entry
\* say: all of one in the form HH:MM:SS. A longer entry is only refused for
\* its last six digits, and a queue without time refuses nothing: the two
\* ways in which the message of AppForm, "not exceed", does not hold.
RunTimeFits ==
    \A job \in calls["SUBMIT_JOB"] :
        LET max == Queue[job.queue].time IN
        (\E i \in Place : max[i] # 0) =>
            Len(job.time) >= 6 /\ Fits(LastSix(job.time), max)
=============================================================================
