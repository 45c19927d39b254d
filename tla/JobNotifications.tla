-------------------------- MODULE JobNotifications --------------------------
(***************************************************************************)
(* The webhooks that tell the portal about jobs, server side.              *)
(*                                                                         *)
(* Tapis posts the changes of a job to the portal, and a running job posts *)
(* that its interactive session is ready.  Each post is served by a web    *)
(* process of its own: it asks Tapis about the job, compares with the last *)
(* Notification row of the job that is committed, makes a row, which takes *)
(* the time, inserts it inside a transaction, which gives it its key, and  *)
(* then sends it through the websocket, before the transaction ends.       *)
(* Nothing keeps the posts about one job apart: times, keys and messages   *)
(* may each be in an order of their own, and Tapis may post late, again    *)
(* and out of order.  No two rows are made at the same moment.             *)
(***************************************************************************)
EXTENDS Naturals, Sequences, FiniteSets

CONSTANTS
  Jobs,   \* jobs of the user
  Life,   \* the statuses Tapis takes a job through, in this order
  Hooks   \* posts received (bounds their number)

Statuses == {"PENDING", "RUNNING", "ARCHIVING", "FINISHED", "FAILED"}

ASSUME LifeAssumption == Life \in Seq(Statuses)

VARIABLES
  stage,     \* how far a job has come in its life
  recorded,  \* jobs with a JobSubmission row
  rows,      \* committed Notification rows
  inserted,  \* Notification rows inserted so far: the last primary key
  stamped,   \* Notification rows made so far: the last datetime
  hook,      \* what the service of a post is at
  indexed,   \* jobs whose output a task was queued to index
  wire,      \* websocket messages on their way to the browser
  crowded    \* history: jobs of which two posts were served at once

tapis == <<stage, recorded>>

counts == <<inserted, stamped>>

server == <<tapis, rows, counts, hook, indexed, wire, crowded>>

NoStatus == "none"

NoJob == "none"

(* The status of a job that was submitted, and those it has had. *)
Status(j) == Life[stage[j]]

Past(j) == {Life[k] : k \in 1..stage[j]}

(* settings.PORTAL_JOB_NOTIFICATION_STATES *)
Notifying == Statuses \ {"ARCHIVING"}

Ended == {"FINISHED", "FAILED"}

(* kind: the event_type, "job" or "interactive_session_ready"; status is   *)
(* extra['status'], of the post or of the job that was looked up.          *)
Kinds == {"job", "session"}

Row == [pk : Nat, at : Nat, job : Jobs, kind : Kinds, status : Statuses]

Hook == [pc : {"unsent", "validate", "read", "create", "insert", "send", "index",
               "commit", "acked", "refused", "failed"},
         kind : Kinds, job : Jobs \cup {NoJob},
         status : Statuses \cup {NoStatus}, at : Nat, pk : Nat]

Init ==
  /\ stage = [j \in Jobs |-> 0]
  /\ recorded = {}
  /\ rows = {}
  /\ inserted = 0
  /\ stamped = 0
  /\ hook = [h \in Hooks |-> [pc |-> "unsent", kind |-> "job", job |-> NoJob,
                              status |-> NoStatus, at |-> 0, pk |-> 0]]
  /\ indexed = {}
  /\ wire = <<>>
  /\ crowded = {}

At(h, pc) == hook[h].pc = pc

Serving(h) ==
  hook[h].pc \in {"validate", "read", "create", "insert", "send", "index", "commit"}

JobHook(h) == hook[h].kind = "job"

-----------------------------------------------------------------------------
(* Tapis and the submission of a job.                                      *)

(* agave.jobs.submit, and every later change of the job *)
Advance(j) ==
  /\ stage[j] < Len(Life)
  /\ stage' = [stage EXCEPT ![j] = @ + 1]
  /\ UNCHANGED <<recorded, rows, counts, hook, indexed, wire, crowded>>

(* JobSubmission.objects.create, once Tapis has answered; the web process  *)
(* may never come to it.                                                   *)
Record(j) ==
  /\ stage[j] > 0
  /\ j \notin recorded
  /\ recorded' = recorded \cup {j}
  /\ UNCHANGED <<stage, rows, counts, hook, indexed, wire, crowded>>

-----------------------------------------------------------------------------
(* JobsWebhookView.post and InteractiveWebhookView.post                    *)

Step(h, pc) == hook' = [hook EXCEPT ![h].pc = pc]

OnlyHooks == UNCHANGED <<tapis, wire, crowded>>

(* Tapis posts a status the job has had. *)
Deliver(h, j, v) ==
  /\ At(h, "unsent")
  /\ v \in Past(j)
  /\ hook' = [hook EXCEPT ![h] = [pc |-> "validate", kind |-> "job", job |-> j,
                                  status |-> v, at |-> 0, pk |-> 0]]
  /\ crowded' = IF \E g \in Hooks : Serving(g) /\ JobHook(g) /\ hook[g].job = j
                THEN crowded \cup {j} ELSE crowded
  /\ UNCHANGED <<tapis, rows, counts, indexed, wire>>

(* The job itself posts that its session is ready. *)
DeliverSession(h, j) ==
  /\ At(h, "unsent")
  /\ "RUNNING" \in Past(j)
  /\ hook' = [hook EXCEPT ![h] = [pc |-> "validate", kind |-> "session", job |-> j,
                                  status |-> NoStatus, at |-> 0, pk |-> 0]]
  /\ UNCHANGED <<tapis, rows, counts, indexed, wire, crowded>>

(* validate_agave_job, and whether the status is one to notify of. *)
Validate(h) ==
  /\ At(h, "validate") /\ JobHook(h)
  /\ Step(h, IF hook[h].status \in Notifying THEN "read" ELSE "acked")
  /\ UNCHANGED <<rows, counts, indexed>> /\ OnlyHooks

(* Faulty: the job that was looked up is not put in the notification. *)
ValidateSessionBare(h) ==
  /\ At(h, "validate") /\ ~JobHook(h)
  /\ Status(hook[h].job) \notin Ended
  /\ Step(h, "create")
  /\ UNCHANGED <<rows, counts, indexed>> /\ OnlyHooks

(* A session is announced with the job as Tapis shows it now, unless the   *)
(* job has ended.                                                          *)
ValidateSession(h) ==
  /\ At(h, "validate") /\ ~JobHook(h)
  /\ Status(hook[h].job) \notin Ended
  /\ hook' = [hook EXCEPT ![h].pc = "create", ![h].status = Status(hook[h].job)]
  /\ UNCHANGED <<rows, counts, indexed>> /\ OnlyHooks

(* Tapis cannot be asked, or the job has ended: "ERROR". *)
Refuse(h) ==
  /\ At(h, "validate")
  /\ Step(h, "refused")
  /\ UNCHANGED <<rows, counts, indexed>> /\ OnlyHooks

RowsOf(j) == {r \in rows : r.job = j /\ r.kind = "job"}

Newest(S, r) == r \in S /\ \A q \in S : q.pk <= r.pk

(* Faulty: rows of transactions that have not ended count, too. *)
RepeatsSent(j, v) ==
  \E g \in Hooks : hook[g].pk > 0 /\ hook[g].job = j /\ hook[g].status = v

(* Faulty: no row counts. *)
RepeatsNever(j, v) == FALSE

(* Notification.objects.filter(jobId=job_id).last() has the status posted; *)
(* rows of sessions have no jobId.                                         *)
Repeats(j, v) == \E r \in RowsOf(j) : r.status = v /\ Newest(RowsOf(j), r)

(* "duplicate notification received", or one to create *)
ReadLast(h) ==
  /\ At(h, "read")
  /\ Step(h, IF Repeats(hook[h].job, hook[h].status) THEN "acked" ELSE "create")
  /\ UNCHANGED <<rows, counts, indexed>> /\ OnlyHooks

RowOf(h) == [pk |-> hook[h].pk, at |-> hook[h].at, job |-> hook[h].job,
             kind |-> hook[h].kind, status |-> hook[h].status]

(* BaseNotify.datetime: the time at which the object is made. *)
Make(h) ==
  /\ At(h, "create")
  /\ stamped' = stamped + 1
  /\ hook' = [hook EXCEPT ![h] = [@ EXCEPT !.pc = "insert", !.at = stamped + 1]]
  /\ UNCHANGED <<rows, inserted, indexed>> /\ OnlyHooks

(* The row gets its key.  That of a job is in its transaction only, that   *)
(* of a session is not part of one.                                        *)
Create(h) ==
  /\ At(h, "insert")
  /\ inserted' = inserted + 1
  /\ hook' = [hook EXCEPT ![h] = [@ EXCEPT !.pc = "send", !.pk = inserted + 1]]
  /\ rows' = IF JobHook(h) THEN rows ELSE rows \cup {[RowOf(h) EXCEPT !.pk = inserted + 1]}
  /\ UNCHANGED <<stamped, indexed>> /\ OnlyHooks

(* send_notification_ws, a receiver of post_save: the message leaves.      *)
Send(h) ==
  /\ At(h, "send")
  /\ Step(h, IF ~JobHook(h) THEN "acked"
             ELSE IF hook[h].status = "FINISHED" THEN "index" ELSE "commit")
  /\ wire' = Append(wire, RowOf(h))
  /\ UNCHANGED <<tapis, rows, counts, indexed, crowded>>

(* agave_indexer.apply_async *)
Index(h) ==
  /\ At(h, "index")
  /\ Step(h, "commit")
  /\ indexed' = indexed \cup {hook[h].job}
  /\ UNCHANGED <<rows, counts>> /\ OnlyHooks

Commit(h) ==
  /\ At(h, "commit")
  /\ Step(h, "acked")
  /\ rows' = rows \cup {RowOf(h)}
  /\ UNCHANGED <<counts, indexed>> /\ OnlyHooks

(* Faulty: a task that could not be queued is passed over. *)
RollbackNever(h) ==
  /\ At(h, "index")
  /\ Step(h, "commit")
  /\ UNCHANGED <<rows, counts, indexed>> /\ OnlyHooks

(* A call inside the transaction raises: nothing of it stays.  An error of *)
(* the broker is caught, but writing it out as JSON raises another.  (The  *)
(* row of a session stays once it is inserted: its message may be lost.)   *)
Rollback(h) ==
  /\ hook[h].pc \in {"read", "create", "insert", "send", "index", "commit"}
  /\ At(h, "send") => JobHook(h)
  /\ Step(h, "failed")
  /\ UNCHANGED <<rows, counts, indexed>> /\ OnlyHooks

-----------------------------------------------------------------------------
(* The browser takes the next message, or it is lost: the socket was       *)
(* reconnecting, or sending it failed.                                     *)
Taken ==
  /\ wire # <<>>
  /\ wire' = Tail(wire)
  /\ UNCHANGED <<tapis, rows, counts, hook, indexed, crowded>>

JobStep(j) == Advance(j) \/ Record(j)

Serve(h) ==
  \/ Validate(h) \/ ValidateSession(h) \/ Refuse(h) \/ ReadLast(h) \/ Make(h)
  \/ Create(h) \/ Send(h) \/ Index(h) \/ Commit(h) \/ Rollback(h)

ServerNext ==
  \/ \E j \in Jobs : JobStep(j)
  \/ \E h \in Hooks, j \in Jobs :
       DeliverSession(h, j) \/ \E v \in Statuses : Deliver(h, j, v)
  \/ \E h \in Hooks : Serve(h)

Next == ServerNext \/ Taken

Spec == Init /\ [][Next]_server

-----------------------------------------------------------------------------
(* Properties.                                                             *)

(* Jobs, rows, messages and posts are of their types. *)
ServerTypeOK ==
  /\ stage \in [Jobs -> 0..Len(Life)]
  /\ recorded \subseteq Jobs
  /\ rows \subseteq Row
  /\ inserted \in Nat
  /\ stamped \in Nat
  /\ hook \in [Hooks -> Hook]
  /\ \A h \in Hooks : ~At(h, "unsent") => hook[h].job \in Jobs
  /\ \A h \in Hooks : hook[h].pc \in {"read", "create", "insert", "send", "index", "commit"} =>
                        hook[h].status \in Statuses
  /\ indexed \subseteq Jobs
  /\ wire \in Seq(Row)
  /\ crowded \subseteq Jobs

(* A post that was answered with "OK" and whose status is to be notified   *)
(* of is never lost: a committed row of its job shows its status, however  *)
(* posts about one job overlap and whichever of them is rolled back.       *)
AckedIsStored ==
  \A h \in Hooks :
    At(h, "acked") /\ JobHook(h) /\ hook[h].status \in Notifying =>
      \E r \in RowsOf(hook[h].job) : r.status = hook[h].status

(* "Sending the same status twice doesn't trigger a second notification":  *)
(* two rows of a job that follow each other differ in status, for every    *)
(* job whose posts were served one after another.                          *)
NoRepeat ==
  \A j \in Jobs \ crowded : \A q, r \in RowsOf(j) :
    /\ q.pk < r.pk
    /\ \A s \in RowsOf(j) : ~(q.pk < s.pk /\ s.pk < r.pk)
    => q.status # r.status

(* A job the user is told has finished has had the indexing of its output  *)
(* queued, although the task is queued before the row is committed.        *)
FinishedIsIndexed ==
  \A r \in rows : r.kind = "job" /\ r.status = "FINISHED" => r.job \in indexed
=============================================================================
