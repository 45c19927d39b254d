----------------------------- MODULE Onboarding -----------------------------
(***************************************************************************)
(* The onboarding queue of one portal user.                                *)
(*                                                                         *)
(* Every step of the queue keeps its state in the newest SetupEvent row.   *)
(* Three kinds of actors append rows, none of them under a lock: logins    *)
(* (which prepare steps), Celery workers (which run execute_setup_steps)   *)
(* and HTTP requests sent by the buttons of the onboarding pages.  Each    *)
(* actor reads a step once, when the step object is constructed, and       *)
(* writes from that copy afterwards; one action here is one database or    *)
(* broker round trip of one actor.                                         *)
(***************************************************************************)
EXTENDS Naturals, FiniteSets

CONSTANTS
  NSteps,           \* length of PORTAL_USER_ACCOUNT_SETUP_STEPS
  Kind,             \* Kind[s]: which step class is configured at position s
  Workers,          \* Celery worker processes
  Logins,           \* OAuth logins of the user (bounds their number)
  Clicks,           \* button presses on the onboarding pages (a bound)
  Buttons,          \* the buttons pressed in this instance
  MaxCrashes        \* worker processes killed in the middle of a task (a bound)

Step == 1..NSteps

Kinds == {"mfa", "access", "allocation", "system_creation",
          "membership", "system_access"}

(* The step classes whose constructor asks TAS for the project, and raises *)
(* when TAS does not answer.                                               *)
MemberKind == {"membership", "system_access"}

ButtonNames == {"user_confirm", "staff_approve", "staff_deny", "reset", "complete"}

ASSUME NStepsAssumption == NSteps \in Nat \ {0}
ASSUME KindAssumption == Kind \in [Step -> Kinds]
ASSUME ButtonsAssumption == Buttons \subseteq ButtonNames
ASSUME MaxCrashesAssumption == MaxCrashes \in Nat
ASSUME RequestsAssumption == Logins \cap Clicks = {}

VARIABLES
  state,          \* state[s]: SetupEvent.state of the newest row of step s
  setupComplete,  \* PortalProfile.setup_complete
  announced,      \* state of the newest row of the pseudo step execute_setup_steps
  hasProfile,     \* a PortalProfile row exists
  queue,          \* execute_setup_steps messages waiting in the broker
  worker,         \* the task a worker is running
  request,        \* the login or POST a web process is serving
  crashes,        \* worker processes killed so far
  lost,           \* history: an actor died, or could not construct a step, and
                  \* nothing was queued since
  interrupted,    \* history: steps left half-written by an actor that died,
                  \* or that wrote its stale copy and no more, and steps left
                  \* without a row by a login that could not construct one
  credit          \* history: steps seen COMPLETED since a worker took its task

vars == <<state, setupComplete, announced, hasProfile, queue, worker, request,
          crashes, lost, interrupted, credit>>

Request == Logins \cup Clicks

SetupState == {"pending", "processing", "failed", "completed",
               "userwait", "staffwait", "error"}

NoEvent == "none"     \* no SetupEvent row yet: step.state is None

-----------------------------------------------------------------------------
(***************************************************************************)
(* Appending a SetupEvent row, and queueing a task.                        *)
(***************************************************************************)

(* AbstractStep.log: the new row becomes the step's state. *)
Log(s, v) ==
  /\ state' = [state EXCEPT ![s] = v]
  /\ interrupted' = interrupted \ {s}

NoLog == UNCHANGED <<state, interrupted>>

(* execute_setup_steps.apply_async *)
Queue ==
  /\ queue' = queue + 1
  /\ lost' = FALSE

(* A task earns credit for a step whenever the step is COMPLETED while the *)
(* task runs.                                                              *)
Credit ==
  credit' = [w \in Workers |->
               IF worker'[w].pc = "idle" THEN {}
               ELSE credit[w] \cup {s \in Step : state'[s] = "completed"}]

-----------------------------------------------------------------------------
(***************************************************************************)
(* Celery: execute_setup_steps                                             *)
(***************************************************************************)

Idle == [pc |-> "idle", at |-> 0, st |-> NoEvent]

(* Faulty: the loop ends one step early. *)
ArriveOneEarly(k) ==
  [pc |-> IF k >= NSteps THEN "finish" ELSE "load", at |-> k, st |-> NoEvent]

(* The loop header of execute_setup_steps: go to the k-th step, or leave   *)
(* the loop.                                                               *)
Arrive(k) ==
  [pc |-> IF k > NSteps THEN "finish" ELSE "load", at |-> k, st |-> NoEvent]

OnlyWorkers == UNCHANGED <<hasProfile, request, crashes>> /\ Credit

Take(w) ==
  /\ worker[w].pc = "idle"
  /\ queue > 0
  /\ queue' = queue - 1
  /\ worker' = [worker EXCEPT ![w] = Arrive(1)]
  /\ NoLog
  /\ UNCHANGED <<setupComplete, announced, lost>>
  /\ OnlyWorkers

(* Faulty: the task walks past every step that does not show a failure. *)
LoadSkipping(w) ==
  LET k == worker[w].at
  IN  /\ worker[w].pc = "load"
      /\ worker' = [worker EXCEPT ![w] =
                      IF state[k] = "pending"
                      THEN [pc |-> "begin", at |-> k, st |-> "pending"]
                      ELSE IF state[k] \notin {"failed", "error"} THEN Arrive(k + 1)
                      ELSE Idle]
      /\ NoLog
      /\ UNCHANGED <<setupComplete, announced, queue, lost>>
      /\ OnlyWorkers

(* load_setup_step, then the decision taken on the copy it returns: run a  *)
(* PENDING step, walk past a COMPLETED one, stop the task at any other.    *)
Load(w) ==
  LET k == worker[w].at
  IN  /\ worker[w].pc = "load"
      /\ worker' = [worker EXCEPT ![w] =
                      IF state[k] = "pending"
                      THEN [pc |-> "begin", at |-> k, st |-> "pending"]
                      ELSE IF state[k] = "completed" THEN Arrive(k + 1)
                      ELSE Idle]
      /\ NoLog
      /\ UNCHANGED <<setupComplete, announced, queue, lost>>
      /\ OnlyWorkers

(* The constructor raises, outside the try: the task ends, its message is  *)
(* acknowledged, and nothing is logged of any step.                        *)
LoadRaises(w) ==
  /\ worker[w].pc = "load"
  /\ Kind[worker[w].at] \in MemberKind
  /\ worker' = [worker EXCEPT ![w] = Idle]
  /\ lost' = TRUE
  /\ NoLog
  /\ UNCHANGED <<setupComplete, announced, queue>>
  /\ OnlyWorkers

Begin(w) ==
  LET k == worker[w].at
  IN  /\ worker[w].pc = "begin"
      /\ worker' = [worker EXCEPT ![w] = [pc |-> "process", at |-> k,
                                          st |-> "processing"]]
      /\ Log(k, "processing")
      /\ UNCHANGED <<setupComplete, announced, queue, lost>>
      /\ OnlyWorkers

(* Rows that process() writes before it has decided: a progress row of the *)
(* two steps that report progress, and the failure row that system access  *)
(* writes when the allocations cannot be read, without giving up.          *)
Progress(w) ==
  LET k == worker[w].at
      v == IF Kind[k] = "system_access" THEN "failed" ELSE "processing"
  IN  /\ worker[w].pc = "process"
      /\ worker[w].st = "processing"
      /\ Kind[k] \in {"allocation", "system_creation", "system_access"}
      /\ worker' = [worker EXCEPT ![w].st = v]
      /\ Log(k, v)
      /\ UNCHANGED <<setupComplete, announced, queue, lost>>
      /\ OnlyWorkers

(* How process() of each class can end, the executor's exception handler   *)
(* included: the answers of the external services are a choice.            *)
MFAOutcomes            == {"completed", "userwait", "error"}
AccessOutcomes         == {"userwait"}
AllocationOutcomes     == {"completed", "error"}
SystemCreationOutcomes == {"completed", "error"}
MembershipOutcomes     == {"completed", "userwait", "error"}
SystemAccessOutcomes   == {"completed", "userwait", "error"}

Outcomes(kind, v) ==
  \/ kind = "mfa"             /\ v \in MFAOutcomes
  \/ kind = "access"          /\ v \in AccessOutcomes
  \/ kind = "allocation"      /\ v \in AllocationOutcomes
  \/ kind = "system_creation" /\ v \in SystemCreationOutcomes
  \/ kind = "membership"      /\ v \in MembershipOutcomes
  \/ kind = "system_access"   /\ v \in SystemAccessOutcomes

(* Faulty: the exception handler of the executor does not log ERROR. *)
OutcomeUnlogged(w) ==
  LET k == worker[w].at
  IN  /\ worker[w].pc = "process"
      /\ \E v \in {"completed", "userwait", "error"} :
           /\ Outcomes(Kind[k], v)
           /\ IF v = "error" THEN NoLog ELSE Log(k, v)
           /\ worker' = [worker EXCEPT ![w] =
                           IF v = "completed" THEN Arrive(k + 1) ELSE Idle]
      /\ UNCHANGED <<setupComplete, announced, queue, lost>>
      /\ OnlyWorkers

Outcome(w) ==
  LET k == worker[w].at
  IN  /\ worker[w].pc = "process"
      /\ \E v \in {"completed", "userwait", "error"} :
           /\ Outcomes(Kind[k], v)
           /\ Log(k, v)
           /\ worker' = [worker EXCEPT ![w] =
                           IF v = "completed" THEN Arrive(k + 1) ELSE Idle]
      /\ UNCHANGED <<setupComplete, announced, queue, lost>>
      /\ OnlyWorkers

(* The task passed every step: save the profile ... *)
Finish(w) ==
  /\ worker[w].pc = "finish"
  /\ setupComplete' = TRUE
  /\ worker' = [worker EXCEPT ![w].pc = "announce"]
  /\ NoLog
  /\ UNCHANGED <<announced, queue, lost>>
  /\ OnlyWorkers

(* ... and log_setup_state, which looks at the task's own copy of the      *)
(* profile and not at the row.                                             *)
Announce(w) ==
  /\ worker[w].pc = "announce"
  /\ announced' = "completed"
  /\ worker' = [worker EXCEPT ![w] = Idle]
  /\ NoLog
  /\ UNCHANGED <<setupComplete, queue, lost>>
  /\ OnlyWorkers

(* The broker has forgotten the message (early acknowledgement): a killed  *)
(* worker leaves its task where it was.                                    *)
Crash(w) ==
  /\ worker[w].pc # "idle"
  /\ crashes < MaxCrashes
  /\ crashes' = crashes + 1
  /\ lost' = TRUE
  /\ interrupted' = IF worker[w].pc = "process"   \* and now nobody's
                    THEN interrupted \cup {worker[w].at} ELSE interrupted
  /\ worker' = [worker EXCEPT ![w] = Idle]
  /\ UNCHANGED <<state, setupComplete, announced, hasProfile, queue, request>>
  /\ Credit

WorkerNext(w) ==
  \/ Take(w)
  \/ Load(w)
  \/ LoadRaises(w)
  \/ Begin(w)
  \/ Progress(w)
  \/ Outcome(w)
  \/ Finish(w)
  \/ Announce(w)

-----------------------------------------------------------------------------
(***************************************************************************)
(* Logging in: launch_setup_checks                                         *)
(***************************************************************************)

Goto(r, pc) == request' = [request EXCEPT ![r].pc = pc]

OnlyRequests == UNCHANGED <<worker, crashes>> /\ Credit

(* AgaveOAuthBackend.authenticate: the profile row is made at the first    *)
(* login, whose user object then keeps the copy it made (st is "created"). *)
Authenticate(r) ==
  /\ r \in Logins
  /\ request[r].pc = "unsent"
  /\ hasProfile' = TRUE
  /\ request' = [request EXCEPT ![r] =
                   [pc |-> "prepare", act |-> "login", by |-> "owner", step |-> 1,
                    st |-> IF hasProfile THEN NoEvent ELSE "created"]]
  /\ NoLog
  /\ UNCHANGED <<setupComplete, announced, queue, lost>>
  /\ OnlyRequests

(* prepare_setup_steps, one step: look for rows ... *)
NextToPrepare(r) ==
  [request[r] EXCEPT !.pc = IF request[r].step = NSteps THEN "check" ELSE "prepare",
                     !.step = IF request[r].step = NSteps THEN 1 ELSE @ + 1]

LookForEvents(r) ==
  /\ request[r].pc = "prepare"
  /\ IF state[request[r].step] = NoEvent
     THEN Goto(r, "fresh")
     ELSE request' = [request EXCEPT ![r] = NextToPrepare(r)]
  /\ NoLog
  /\ UNCHANGED <<setupComplete, announced, hasProfile, queue, lost>>
  /\ OnlyRequests

(* ... or fail to construct the step: the login ends with the steps from   *)
(* here on as they are, and queues nothing.                                *)
LookRaises(r) ==
  /\ request[r].pc = "prepare"
  /\ Kind[request[r].step] \in MemberKind
  /\ lost' = TRUE
  /\ interrupted' = interrupted \cup
       {s \in Step : request[r].step <= s /\ state[s] = NoEvent}
  /\ Goto(r, "done")
  /\ UNCHANGED <<state, setupComplete, announced, hasProfile, queue>>
  /\ OnlyRequests

(* ... and prepare() when there was none. *)
PrepareFresh(r) ==
  /\ request[r].pc = "fresh"
  /\ Log(request[r].step, "pending")
  /\ request' = [request EXCEPT ![r] = NextToPrepare(r)]
  /\ UNCHANGED <<setupComplete, announced, hasProfile, queue, lost>>
  /\ OnlyRequests

(* The end of launch_setup_checks *)
CheckSetup(r) ==
  /\ request[r].pc = "check"
  /\ IF setupComplete /\ request[r].st # "created"
     THEN Goto(r, "done") /\ UNCHANGED <<queue, lost>>
     ELSE Goto(r, "done") /\ Queue
  /\ NoLog
  /\ UNCHANGED <<setupComplete, announced, hasProfile>>
  /\ OnlyRequests

-----------------------------------------------------------------------------
(***************************************************************************)
(* The onboarding pages: SetupStepView.post                                *)
(***************************************************************************)

(* OnboardingActions.js and OnboardingAdmin.js: who is offered which       *)
(* button while the page shows state v.  Staff look at other users here.   *)
Offered(by, act, v) ==
  \/ act = "user_confirm" /\ v = "userwait"
  \/ act \in {"staff_approve", "staff_deny"} /\ v = "staffwait" /\ by = "staff"
  \/ act \in {"reset", "complete"} /\ by = "staff"

Press(r) ==
  /\ r \in Clicks
  /\ request[r].pc = "unsent"
  /\ \E by \in {"owner", "staff"}, act \in Buttons, s \in Step :
       /\ hasProfile
       /\ Offered(by, act, state[s])
       /\ request' = [request EXCEPT ![r] =
                        [pc |-> "sent", act |-> act, by |-> by, step |-> s,
                         st |-> NoEvent]]
  /\ NoLog
  /\ UNCHANGED <<setupComplete, announced, hasProfile, queue, lost>>
  /\ OnlyRequests

(* load_setup_step in the request *)
LoadStep(r) ==
  /\ request[r].pc = "sent"
  /\ request' = [request EXCEPT ![r].pc = "loaded",
                                ![r].st = state[request[r].step]]
  /\ NoLog
  /\ UNCHANGED <<setupComplete, announced, hasProfile, queue, lost>>
  /\ OnlyRequests

(* ... which may raise, a 500. *)
LoadStepRaises(r) ==
  /\ request[r].pc = "sent"
  /\ Kind[request[r].step] \in MemberKind
  /\ Goto(r, "done")
  /\ NoLog
  /\ UNCHANGED <<setupComplete, announced, hasProfile, queue, lost>>
  /\ OnlyRequests

(* SetupStepView.complete *)
CompleteStep(r) ==
  /\ request[r].pc = "loaded"
  /\ request[r].act = "complete"
  /\ Log(request[r].step, "completed")
  /\ Goto(r, "enqueue")
  /\ UNCHANGED <<setupComplete, announced, hasProfile, queue, lost>>
  /\ OnlyRequests

(* SetupStepView.reset and SetupStepView.client_action start by logging    *)
(* the state of the step object, which is the state at LoadStep.           *)
LogAction(r) ==
  /\ request[r].pc = "loaded"
  /\ request[r].act # "complete"
  /\ request[r].st # NoEvent
  /\ Log(request[r].step, request[r].st)
  /\ Goto(r, IF request[r].act = "reset" THEN "unset" ELSE "acting")
  /\ UNCHANGED <<setupComplete, announced, hasProfile, queue, lost>>
  /\ OnlyRequests

(* ... which is None when no row exists: the insert fails, a 500. *)
RejectAction(r) ==
  /\ request[r].pc = "loaded"
  /\ request[r].act # "complete"
  /\ request[r].st = NoEvent
  /\ Goto(r, "done")
  /\ NoLog
  /\ UNCHANGED <<setupComplete, announced, hasProfile, queue, lost>>
  /\ OnlyRequests

(* The rest of SetupStepView.reset: the profile, log_setup_state on the    *)
(* request's own copy of it, and prepare().                                *)
Unset(r) ==
  /\ request[r].pc = "unset"
  /\ setupComplete' = FALSE
  /\ Goto(r, "announce")
  /\ NoLog
  /\ UNCHANGED <<announced, hasProfile, queue, lost>>
  /\ OnlyRequests

AnnounceReset(r) ==
  /\ request[r].pc = "announce"
  /\ announced' = "failed"
  /\ Goto(r, "reprepare")
  /\ NoLog
  /\ UNCHANGED <<setupComplete, hasProfile, queue, lost>>
  /\ OnlyRequests

Reprepare(r) ==
  /\ request[r].pc = "reprepare"
  /\ Log(request[r].step, "pending")
  /\ Goto(r, "enqueue")
  /\ UNCHANGED <<setupComplete, announced, hasProfile, queue, lost>>
  /\ OnlyRequests

-----------------------------------------------------------------------------
(***************************************************************************)
(* client_action of the step classes.  An action that is not understood,   *)
(* or comes from the wrong person, may leave the step alone.               *)
(***************************************************************************)

OwnerConfirms(r) == request[r].act = "user_confirm" /\ request[r].by = "owner"

MFAAction(r, v) == OwnerConfirms(r) /\ v = "pending"

AccessAction(r, v) ==
  \/ OwnerConfirms(r) /\ v = "staffwait"
  \/ /\ ~OwnerConfirms(r)
     /\ request[r].by = "staff"
     /\ v = IF request[r].act = "staff_approve" THEN "completed" ELSE "failed"

(* send_project_request: a ticket was opened, or could not be. *)
MembershipRequest(r, v) ==
  request[r].act = "user_confirm" /\ v \in {"staffwait", "failed"}

(* The states a one-row client_action may give the step, none when it      *)
(* writes nothing; the membership kinds answer the staff buttons further   *)
(* down.                                                                   *)
ClientResult(r) ==
  LET kind == Kind[request[r].step]
  IN  {v \in {"pending", "staffwait", "completed", "failed"} :
         \/ kind = "mfa"         /\ MFAAction(r, v)
         \/ kind = "access"      /\ AccessAction(r, v)
         \/ kind \in MemberKind  /\ MembershipRequest(r, v)}

StaffAnswers(r) ==
  /\ Kind[request[r].step] \in MemberKind
  /\ request[r].act \in {"staff_approve", "staff_deny"}

(* Nothing is logged after the row of LogAction: a confirmation by staff,  *)
(* which the mfa step does not answer, can leave a stale PROCESSING.       *)
Ignore(s) ==
  /\ interrupted' = interrupted \cup {k \in {s} : state[k] = "processing"}
  /\ UNCHANGED state

ClientAction(r) ==
  /\ request[r].pc = "acting"
  /\ ~StaffAnswers(r)
  /\ IF ClientResult(r) = {} THEN Ignore(request[r].step)
     ELSE \E v \in ClientResult(r) : Log(request[r].step, v)
  /\ Goto(r, "enqueue")
  /\ UNCHANGED <<setupComplete, announced, hasProfile, queue, lost>>
  /\ OnlyRequests

(* ProjectMembershipStep.add_to_project: done, "already a member" (which   *)
(* completes the step at once), or an error (which fails it, and again in  *)
(* the handler of client_action).                                          *)
AddToProject(r) ==
  /\ request[r].pc = "acting"
  /\ StaffAnswers(r)
  /\ request[r].act = "staff_approve"
  /\ \/ NoLog /\ Goto(r, "closing")
     \/ Log(request[r].step, "completed") /\ Goto(r, "closing")
     \/ Log(request[r].step, "failed") /\ Goto(r, "failing")
  /\ UNCHANGED <<setupComplete, announced, hasProfile, queue, lost>>
  /\ OnlyRequests

(* close_project_request and deny_project_request: a tracker that refuses  *)
(* the login fails the step, and the verdict is written all the same.      *)
TrackerRefuses(r) ==
  /\ \/ request[r].pc = "closing"
     \/ request[r].pc = "acting" /\ StaffAnswers(r) /\ request[r].act = "staff_deny"
  /\ Log(request[r].step, "failed")
  /\ Goto(r, IF request[r].act = "staff_approve" THEN "granting" ELSE "failing")
  /\ UNCHANGED <<setupComplete, announced, hasProfile, queue, lost>>
  /\ OnlyRequests

(* The verdict on an approval *)
Grant(r) ==
  /\ request[r].pc \in {"closing", "granting"}
  /\ Log(request[r].step, "completed")
  /\ Goto(r, "enqueue")
  /\ UNCHANGED <<setupComplete, announced, hasProfile, queue, lost>>
  /\ OnlyRequests

(* The verdict on a denial, or after an exception during an approval *)
Deny(r) ==
  /\ \/ request[r].pc \in {"closing", "failing"}
     \/ request[r].pc = "acting" /\ StaffAnswers(r)
  /\ Log(request[r].step, "failed")
  /\ Goto(r, "enqueue")
  /\ UNCHANGED <<setupComplete, announced, hasProfile, queue, lost>>
  /\ OnlyRequests

(* deny_project_request does not guard its calls to the tracker: the       *)
(* exception ends the request before anything is queued.                   *)
DenyRaises(r) ==
  /\ request[r].pc = "acting"
  /\ StaffAnswers(r)
  /\ request[r].act = "staff_deny"
  /\ lost' = TRUE
  /\ interrupted' = interrupted \cup {request[r].step}
  /\ Goto(r, "done")
  /\ UNCHANGED <<state, setupComplete, announced, hasProfile, queue>>
  /\ OnlyRequests

(* Faulty: only a reset sets the executor going again. *)
EnqueueAfterReset(r) ==
  /\ request[r].pc = "enqueue"
  /\ IF request[r].act = "reset" THEN Queue ELSE UNCHANGED <<queue, lost>>
  /\ Goto(r, "done")
  /\ NoLog
  /\ UNCHANGED <<setupComplete, announced, hasProfile>>
  /\ OnlyRequests

Enqueue(r) ==
  /\ request[r].pc = "enqueue"
  /\ Queue
  /\ Goto(r, "done")
  /\ NoLog
  /\ UNCHANGED <<setupComplete, announced, hasProfile>>
  /\ OnlyRequests

ServeRequest(r) ==
  \/ LookForEvents(r)
  \/ LookRaises(r)
  \/ PrepareFresh(r)
  \/ CheckSetup(r)
  \/ LoadStep(r)
  \/ LoadStepRaises(r)
  \/ CompleteStep(r)
  \/ LogAction(r)
  \/ RejectAction(r)
  \/ Unset(r)
  \/ Reprepare(r)
  \/ AnnounceReset(r)
  \/ ClientAction(r)
  \/ AddToProject(r)
  \/ TrackerRefuses(r)
  \/ Grant(r)
  \/ Deny(r)
  \/ DenyRaises(r)
  \/ Enqueue(r)

-----------------------------------------------------------------------------
Init ==
  /\ state = [s \in Step |-> NoEvent]
  /\ setupComplete = FALSE
  /\ announced = NoEvent
  /\ hasProfile = FALSE
  /\ queue = 0
  /\ worker = [w \in Workers |-> Idle]
  /\ request = [r \in Request |-> [pc |-> "unsent", act |-> "login", by |-> "owner",
                                   step |-> 1, st |-> NoEvent]]
  /\ crashes = 0
  /\ lost = FALSE
  /\ interrupted = {}
  /\ credit = [w \in Workers |-> {}]

Next ==
  \/ \E w \in Workers : WorkerNext(w) \/ Crash(w)
  \/ \E r \in Request : Authenticate(r) \/ Press(r) \/ ServeRequest(r)

Spec == Init /\ [][Next]_vars

-----------------------------------------------------------------------------
(***************************************************************************)
(* What is expected of the queue                                           *)
(***************************************************************************)

WorkerRecords ==
  [pc : {"idle", "load", "begin", "process", "finish", "announce"},
   at : 0..(NSteps + 1), st : SetupState \cup {NoEvent}]

RequestRecords ==
  [pc : {"unsent", "prepare", "fresh", "check", "sent", "loaded", "unset",
         "announce", "reprepare", "acting", "closing", "granting", "failing",
         "enqueue", "done"},
   act : ButtonNames \cup {"login"}, by : {"owner", "staff"},
   step : 1..(NSteps + 1), st : SetupState \cup {NoEvent, "created"}]

(* Position and program counter of a worker fit together. *)
WorkerOK(w) ==
  /\ worker[w] \in WorkerRecords
  /\ worker[w].pc \in {"load", "begin", "process"} => worker[w].at \in Step
  /\ worker[w].pc \in {"finish", "announce"} => worker[w].at = NSteps + 1

(* A request that will write to a step names one, and a state it may write *)
(* is one it read.                                                         *)
RequestOK(r) ==
  /\ request[r] \in RequestRecords
  /\ request[r].pc \notin {"unsent", "check", "done"} => request[r].step \in Step
  /\ request[r].pc = "loaded" => request[r].st # "created"

TypeOK ==
  /\ state \in [Step -> SetupState \cup {NoEvent}]
  /\ setupComplete \in BOOLEAN
  /\ announced \in {NoEvent, "completed", "failed"}
  /\ hasProfile \in BOOLEAN
  /\ queue \in Nat
  /\ worker \in [Workers -> WorkerRecords]
  /\ \A w \in Workers : WorkerOK(w)
  /\ request \in [Request -> RequestRecords]
  /\ \A r \in Request : RequestOK(r)
  /\ crashes \in 0..MaxCrashes
  /\ lost \in BOOLEAN
  /\ interrupted \in SUBSET Step
  /\ credit \in [Workers -> SUBSET Step]

DoneBefore(s) == \A k \in Step : k < s => state[k] = "completed"

(* An actor that queues a task unless it dies or cannot construct a step.  *)
(* A login that finds the setup complete will not, but then nobody is      *)
(* waiting.                                                                *)
WillQueue(r) ==
  request[r].pc \in {"prepare", "fresh", "check", "unset", "announce",
                     "reprepare", "acting", "closing", "granting", "failing", "enqueue"}

(* A task that has not walked past position s yet. *)
Before(w, s) ==
  worker[w].pc \in {"load", "begin", "process", "finish"} /\ worker[w].at <= s

(* The queue needs somebody at position s: every earlier step is COMPLETED *)
(* and s is PENDING, or s is the end of the list.                          *)
Front(s) == DoneBefore(s) /\ (s \in Step => state[s] = "pending")

(* There is always somebody coming for the front of the queue: while the   *)
(* setup is not complete, a front that the executor should handle          *)
(* (execute.py: "Run step, if waiting for automatic execution") has a task *)
(* queued, a task still to reach it, or a request that will queue one,     *)
(* however stale the copies were that the other actors wrote from.  Left   *)
(* out (lost) is the time from an actor that died, or could not construct  *)
(* a step because TAS did not answer, to the next task that is queued.     *)
BatonHeld ==
  hasProfile /\ ~setupComplete /\ ~lost =>
    \A s \in 1..(NSteps + 1) :
      Front(s) => \/ queue > 0
                  \/ \E w \in Workers : Before(w, s)
                  \/ \E r \in Request : WillQueue(r)

(* A request that still has to give step s its final row. *)
WillSettle(r, s) ==
  /\ request[r].step = s
  /\ request[r].pc \in {"unset", "announce", "reprepare", "acting", "closing",
                         "granting", "failing"}

(* PROCESSING is never left behind: a step in that state is being          *)
(* processed by a live task, is about to be overwritten by a live request, *)
(* or was deserted by an actor that died on it or ignored it.              *)
ProcessingOwned ==
  \A s \in Step : state[s] = "processing" =>
    \/ \E w \in Workers : worker[w].pc = "process" /\ worker[w].at = s
    \/ \E r \in Request : WillSettle(r, s)
    \/ s \in interrupted

(* Nothing is running and nothing is queued. *)
Quiet ==
  /\ queue = 0
  /\ \A w \in Workers : worker[w].pc = "idle"
  /\ \A r \in Request : request[r].pc \in {"unsent", "done"}

(* Once everything has come to rest, a user who is not through always has  *)
(* a person to wait for or a failure to show: the first step that is not   *)
(* COMPLETED is at USERWAIT, STAFFWAIT, FAILED or ERROR, or an actor       *)
(* deserted it half-written or before it had a row.  Left out (lost) is a  *)
(* user who waits for a task that died or could not construct a step; the  *)
(* next login or button that gets as far as queueing one ends that.        *)
NobodyForgotten ==
  Quiet /\ hasProfile /\ ~setupComplete /\ ~lost =>
    \E s \in Step :
      /\ DoneBefore(s)
      /\ \/ state[s] \in {"userwait", "staffwait", "failed", "error"}
         \/ s \in interrupted

(* setup_complete is earned: it becomes TRUE only by a task that saw no    *)
(* step it had not seen COMPLETED at some moment since the task was taken  *)
(* from the broker.                                                        *)
EarnedCompletion ==
  [][~setupComplete /\ setupComplete' =>
       \E w \in Workers : worker[w].pc = "finish" /\ Step \subseteq credit[w]]_vars

-----------------------------------------------------------------------------
(***************************************************************************)
(* Celery runs what is queued and web processes finish their requests;     *)
(* nobody has to log in or press a button.                                 *)
(***************************************************************************)
Fairness ==
  /\ \A w \in Workers : WF_vars(WorkerNext(w))
  /\ \A r \in Request : WF_vars(ServeRequest(r))

FairSpec == Spec /\ Fairness

(* state.py: "Steps in PENDING will be have their process methods called": *)
(* a PENDING step at the front is picked up, unless the front moves back,  *)
(* the setup counts as complete, or a step could not be constructed.       *)
FrontServed ==
  \A s \in Step : Front(s) ~> ~Front(s) \/ setupComplete \/ lost

(* When every step has reached COMPLETED for good, setup_complete follows, *)
(* for good: also after a task died or could not construct a step, once    *)
(* another has been queued.                                                *)
CompletionFollows ==
  <>[](hasProfile /\ Front(NSteps + 1) /\ ~lost) => <>[]setupComplete
=============================================================================
