----------------------------- MODULE KeyService -----------------------------
(***************************************************************************)
(* The onboarding step that creates a user's storage systems.              *)
(*                                                                         *)
(* Unlike every other step, this one is finished by third parties: process *)
(* sends one message per system to the key service, and the key service    *)
(* answers each through a webhook whenever it likes.  The progress is a    *)
(* JSON value carried from one SetupEvent row to the next: a callback      *)
(* reads the newest row, edits its copy, and appends the result.           *)
(*                                                                         *)
(* The module starts where the first login ends: the step is PENDING and   *)
(* one task is queued.  This step is the whole list of steps here; how a   *)
(* list of several steps is walked is the subject of Onboarding.           *)
(***************************************************************************)
EXTENDS Naturals, FiniteSets

CONSTANTS
  Systems,      \* the storage systems of the user
  Workers,      \* Celery worker processes
  Hooks,        \* deliveries of webhooks (bounds their number)
  Clicks,       \* presses of the staff's Reset and Skip buttons (a bound)
  Orderly,      \* the key service answers one call at a time, each once, and
                \* only while nothing else is going on
  MaxProcesses  \* runs of process() (a bound)

ASSUME SystemsAssumption == IsFiniteSet(Systems)
ASSUME OrderlyAssumption == Orderly \in BOOLEAN
ASSUME MaxProcessesAssumption == MaxProcesses \in Nat

VARIABLES
  row,            \* the newest SetupEvent of the step: its state and data
  setupComplete,  \* PortalProfile.setup_complete
  queue,          \* execute_setup_steps messages waiting in the broker
  worker,         \* the task a worker is running
  calls,          \* ExternalCall rows whose URL the key service knows
  runs,           \* runs of process() so far
  hook,           \* the webhook request a web process is serving
  request,        \* the staff's POST a web process is serving
  reported        \* history: what the key service has said, as <<call, status>>

vars == <<row, setupComplete, queue, worker, calls, runs, hook, request, reported>>

States == {"pending", "processing", "failed", "completed", "error"}

Status == {"successful", "failed"}

(* SetupEvent.data: nothing, or the three lists *)
NoData == [known |-> FALSE, requested |-> {}, failed |-> {}, successful |-> {}]

Asked(s) == [known |-> TRUE, requested |-> s, failed |-> {}, successful |-> {}]

Data == [known : BOOLEAN, requested : SUBSET Systems, failed : SUBSET Systems,
         successful : SUBSET Systems]

Call == [system : Systems, run : 1..MaxProcesses]

NoCall == [system |-> "none", run |-> 0]

(* AbstractStep.log *)
Log(v, d) == row' = [state |-> v, data |-> d]

-----------------------------------------------------------------------------
(***************************************************************************)
(* Celery: execute_setup_steps and KeyServiceCreationStep.process          *)
(***************************************************************************)

Idle == [pc |-> "idle", wanted |-> {}, left |-> {}, run |-> 0]

OnlyWorkers == UNCHANGED <<hook, request, reported>>

Take(w) ==
  /\ worker[w].pc = "idle"
  /\ queue > 0
  /\ queue' = queue - 1
  /\ worker' = [worker EXCEPT ![w].pc = "load"]
  /\ UNCHANGED <<row, setupComplete, calls, runs>>
  /\ OnlyWorkers

Load(w) ==
  /\ worker[w].pc = "load"
  /\ worker' = [worker EXCEPT ![w] =
                  IF row.state = "pending" THEN [Idle EXCEPT !.pc = "begin"]
                  ELSE IF row.state = "completed" THEN [Idle EXCEPT !.pc = "finish"]
                  ELSE Idle]
  /\ UNCHANGED <<row, setupComplete, queue, calls, runs>>
  /\ OnlyWorkers

Begin(w) ==
  /\ worker[w].pc = "begin"
  /\ runs < MaxProcesses
  /\ runs' = runs + 1
  /\ Log("processing", NoData)
  /\ worker' = [worker EXCEPT ![w] = [Idle EXCEPT !.pc = "test", !.run = runs + 1]]
  /\ UNCHANGED <<setupComplete, queue, calls>>
  /\ OnlyWorkers

(* get_user_storage_systems, or the substitution of the user's variables,  *)
(* raises: the executor logs ERROR.                                        *)
ListRaises(w) ==
  /\ worker[w].pc = "test"
  /\ Log("error", NoData)
  /\ worker' = [worker EXCEPT ![w] = Idle]
  /\ UNCHANGED <<setupComplete, queue, calls, runs>>
  /\ OnlyWorkers

(* StorageSystem.test of each system: all of them answer, and the step is  *)
(* done, or some do not.                                                   *)
TestSystems(w) ==
  /\ worker[w].pc = "test"
  /\ \E wanted \in SUBSET Systems :
       IF wanted = {}
       THEN /\ Log("completed", NoData)
            /\ worker' = [worker EXCEPT ![w] = [Idle EXCEPT !.pc = "finish"]]
       ELSE /\ worker' = [worker EXCEPT ![w].pc = "call", ![w].wanted = wanted,
                                        ![w].left = Systems]
            /\ UNCHANGED row
  /\ UNCHANGED <<setupComplete, queue, calls, runs>>
  /\ OnlyWorkers

(* A test cannot connect: a RequestException, which is handled ...         *)
TestUnreachable(w) ==
  /\ worker[w].pc = "test"
  /\ worker' = [worker EXCEPT ![w].pc = "handler"]
  /\ UNCHANGED <<row, setupComplete, queue, calls, runs>>
  /\ OnlyWorkers

(* ... by a handler that reads self.id, which no step has: its             *)
(* AttributeError leaves process().                                        *)
HandlerRaises(w) ==
  /\ worker[w].pc = "handler"
  /\ Log("error", NoData)
  /\ worker' = [worker EXCEPT ![w] = Idle]
  /\ UNCHANGED <<setupComplete, queue, calls, runs>>
  /\ OnlyWorkers

(* call_reactor: register a webhook and send its URL with the message.     *)
(* Every system of the user is sent, the accessible ones included.         *)
CallReactor(w) ==
  /\ worker[w].pc = "call"
  /\ \E s \in worker[w].left :
       /\ calls' = calls \cup {[system |-> s, run |-> worker[w].run]}
       /\ worker' = [worker EXCEPT ![w].left = @ \ {s}]
  /\ UNCHANGED <<row, setupComplete, queue, runs>>
  /\ OnlyWorkers

(* sendMessage raises; the message may have arrived all the same, and the  *)
(* calls made before it stay answerable.                                   *)
ReactorRaises(w) ==
  /\ worker[w].pc = "call"
  /\ \E s \in worker[w].left :
       calls' \in {calls, calls \cup {[system |-> s, run |-> worker[w].run]}}
  /\ Log("error", NoData)
  /\ worker' = [worker EXCEPT ![w] = Idle]
  /\ UNCHANGED <<setupComplete, queue, runs>>
  /\ OnlyWorkers

(* The end of process(): only now does a row hold the requested systems.   *)
(* The step is not COMPLETED, so the task stops here.                      *)
LogRequested(w) ==
  /\ worker[w].pc = "call"
  /\ worker[w].left = {}
  /\ Log("processing", Asked(worker[w].wanted))
  /\ worker' = [worker EXCEPT ![w] = Idle]
  /\ UNCHANGED <<setupComplete, queue, calls, runs>>
  /\ OnlyWorkers

Finish(w) ==
  /\ worker[w].pc = "finish"
  /\ setupComplete' = TRUE
  /\ worker' = [worker EXCEPT ![w] = Idle]
  /\ UNCHANGED <<row, queue, calls, runs>>
  /\ OnlyWorkers

WorkerNext(w) ==
  \/ Take(w)
  \/ Load(w)
  \/ Begin(w)
  \/ ListRaises(w)
  \/ TestSystems(w)
  \/ TestUnreachable(w)
  \/ HandlerRaises(w)
  \/ CallReactor(w)
  \/ ReactorRaises(w)
  \/ LogRequested(w)
  \/ Finish(w)

-----------------------------------------------------------------------------
(***************************************************************************)
(* Webhooks: CallbackWebhookView and KeyServiceCreationCallback            *)
(***************************************************************************)

Unsent == [pc |-> "unsent", call |-> NoCall, status |-> "failed",
           state |-> "pending", data |-> NoData]

Done == [Unsent EXCEPT !.pc = "done"]

OnlyHooks == UNCHANGED <<setupComplete, worker, calls, runs, request>>

AtRest ==
  /\ queue = 0
  /\ \A w \in Workers : worker[w].pc = "idle"
  /\ \A h \in Hooks : hook[h].pc \in {"unsent", "done"}
  /\ \A r \in Clicks : request[r].pc \in {"unsent", "done"}

Answered(c) == \E v \in Status : <<c, v>> \in reported

(* The key service posts to a URL it was given, with either result; an     *)
(* ExternalCall accepts as many posts as come.                             *)
Deliver(h) ==
  /\ hook[h].pc = "unsent"
  /\ \E c \in calls, v \in Status :
       /\ Orderly => AtRest /\ ~Answered(c)
       /\ hook' = [hook EXCEPT ![h] = [Unsent EXCEPT !.pc = "load", !.call = c, !.status = v]]
       /\ reported' = reported \cup {<<c, v>>}
  /\ UNCHANGED <<row, queue>>
  /\ OnlyHooks

(* The callback constructs the step, which reads the newest row ... *)
LoadHook(h) ==
  /\ hook[h].pc = "load"
  /\ hook' = [hook EXCEPT ![h].pc = "mark", ![h].state = row.state,
                          ![h].data = row.data]
  /\ UNCHANGED <<row, queue, reported>>
  /\ OnlyHooks

(* Faulty: a success that follows a failure leaves the failure listed. *)
MarkKeepingFailure(d, s, v) ==
  IF s \in d.requested
  THEN IF v = "successful"
       THEN [d EXCEPT !.requested = @ \ {s}, !.successful = @ \cup {s}]
       ELSE [d EXCEPT !.requested = @ \ {s}, !.failed = @ \cup {s}]
  ELSE IF s \in d.failed /\ v = "successful"
  THEN [d EXCEPT !.successful = @ \cup {s}]
  ELSE d

(* Faulty: a failure is not taken off the requested systems. *)
MarkAwaitingFailure(d, s, v) ==
  IF s \in d.requested
  THEN IF v = "successful"
       THEN [d EXCEPT !.requested = @ \ {s}, !.successful = @ \cup {s}]
       ELSE [d EXCEPT !.failed = @ \cup {s}]
  ELSE d

(* ... and mark_system edits the lists of that copy, *)
Mark(d, s, v) ==
  IF s \in d.requested
  THEN IF v = "successful"
       THEN [d EXCEPT !.requested = @ \ {s}, !.successful = @ \cup {s}]
       ELSE [d EXCEPT !.requested = @ \ {s}, !.failed = @ \cup {s}]
  ELSE IF s \in d.failed /\ v = "successful"
  THEN [d EXCEPT !.failed = @ \ {s}, !.successful = @ \cup {s}]
  ELSE d

(* Faulty: the row takes the result that was posted for its state. *)
MarkSystemByResult(h) ==
  LET k == hook[h]
      d == Mark(k.data, k.call.system, k.status)
  IN  /\ k.pc = "mark"
      /\ k.data.known
      /\ IF d # k.data THEN Log(k.status, d) ELSE UNCHANGED row
      /\ hook' = [hook EXCEPT ![h] =
                     IF d.requested = {} THEN [Done EXCEPT !.pc = "verdict", !.data = d]
                     ELSE Done]
      /\ UNCHANGED <<queue, reported>>
      /\ OnlyHooks

(* appends it under the state that was loaded if there was a change,       *)
MarkSystem(h) ==
  LET k == hook[h]
      d == Mark(k.data, k.call.system, k.status)
  IN  /\ k.pc = "mark"
      /\ k.data.known
      /\ IF d # k.data THEN Log(k.state, d) ELSE UNCHANGED row
      /\ hook' = [hook EXCEPT ![h] =
                     IF d.requested = {} THEN [Done EXCEPT !.pc = "verdict", !.data = d]
                     ELSE Done]
      /\ UNCHANGED <<queue, reported>>
      /\ OnlyHooks

(* (there are no lists in the newest row: a TypeError, and a 500)          *)
MarkRaises(h) ==
  /\ hook[h].pc = "mark"
  /\ ~hook[h].data.known
  /\ hook' = [hook EXCEPT ![h] = Done]
  /\ UNCHANGED <<row, queue, reported>>
  /\ OnlyHooks

(* Faulty: answers complete the step, whatever they say. *)
VerdictAlwaysGood(h) ==
  LET d == hook[h].data
  IN  /\ hook[h].pc = "verdict"
      /\ Log("completed", d)
      /\ hook' = [hook EXCEPT ![h] = [Done EXCEPT !.pc = "enqueue"]]
      /\ UNCHANGED <<queue, reported>>
      /\ OnlyHooks

(* closes the step when no answer is missing,                              *)
Verdict(h) ==
  LET d == hook[h].data
  IN  /\ hook[h].pc = "verdict"
      /\ Log(IF d.failed = {} THEN "completed" ELSE "failed", d)
      /\ hook' = [hook EXCEPT ![h] = [Done EXCEPT !.pc = "enqueue"]]
      /\ UNCHANGED <<queue, reported>>
      /\ OnlyHooks

(* Faulty: the executor is not called again. *)
ContinueNothing(h) ==
  /\ hook[h].pc = "enqueue"
  /\ hook' = [hook EXCEPT ![h] = Done]
  /\ UNCHANGED <<row, queue, reported>>
  /\ OnlyHooks

(* and lets the executor continue.                                         *)
Continue(h) ==
  /\ hook[h].pc = "enqueue"
  /\ queue' = queue + 1
  /\ hook' = [hook EXCEPT ![h] = Done]
  /\ UNCHANGED <<row, reported>>
  /\ OnlyHooks

ServeHook(h) ==
  \/ LoadHook(h)
  \/ MarkSystem(h)
  \/ MarkRaises(h)
  \/ Verdict(h)
  \/ Continue(h)

-----------------------------------------------------------------------------
(***************************************************************************)
(* Staff: SetupStepView.reset and SetupStepView.complete                   *)
(***************************************************************************)

OnlyRequests == UNCHANGED <<worker, calls, runs, hook, reported>>

Goto(r, pc) == request' = [request EXCEPT ![r].pc = pc]

Press(r) ==
  /\ request[r].pc = "unsent"
  /\ \E act \in {"reset", "complete"} :
       request' = [request EXCEPT ![r] = [pc |-> "log", act |-> act, state |-> row.state]]
  /\ UNCHANGED <<row, setupComplete, queue>>
  /\ OnlyRequests

(* Rows written by staff carry no data. *)
LogAction(r) ==
  /\ request[r].pc = "log"
  /\ IF request[r].act = "reset"
     THEN /\ Log(request[r].state, NoData)
          /\ request' = [request EXCEPT ![r].pc = "unset", ![r].state = "pending"]
     ELSE /\ Log("completed", NoData)
          /\ request' = [request EXCEPT ![r].pc = "enqueue", ![r].state = "pending"]
  /\ UNCHANGED <<setupComplete, queue>>
  /\ OnlyRequests

Unset(r) ==
  /\ request[r].pc = "unset"
  /\ setupComplete' = FALSE
  /\ Goto(r, "reprepare")
  /\ UNCHANGED <<row, queue>>
  /\ OnlyRequests

Reprepare(r) ==
  /\ request[r].pc = "reprepare"
  /\ Log("pending", NoData)
  /\ Goto(r, "enqueue")
  /\ UNCHANGED <<setupComplete, queue>>
  /\ OnlyRequests

Enqueue(r) ==
  /\ request[r].pc = "enqueue"
  /\ queue' = queue + 1
  /\ Goto(r, "done")
  /\ UNCHANGED <<row, setupComplete>>
  /\ OnlyRequests

ServeRequest(r) ==
  \/ LogAction(r)
  \/ Unset(r)
  \/ Reprepare(r)
  \/ Enqueue(r)

-----------------------------------------------------------------------------
Init ==
  /\ row = [state |-> "pending", data |-> NoData]
  /\ setupComplete = FALSE
  /\ queue = 1
  /\ worker = [w \in Workers |-> Idle]
  /\ calls = {}
  /\ runs = 0
  /\ hook = [h \in Hooks |-> Unsent]
  /\ request = [r \in Clicks |-> [pc |-> "unsent", act |-> "reset", state |-> "pending"]]
  /\ reported = {}

Next ==
  \/ \E w \in Workers : WorkerNext(w)
  \/ \E h \in Hooks : Deliver(h) \/ ServeHook(h)
  \/ \E r \in Clicks : Press(r) \/ ServeRequest(r)

Spec == Init /\ [][Next]_vars

-----------------------------------------------------------------------------
(***************************************************************************)
(* What is expected of the step                                            *)
(***************************************************************************)

WorkerRecords ==
  [pc : {"idle", "load", "begin", "test", "handler", "call", "finish"},
   wanted : SUBSET Systems, left : SUBSET Systems, run : 0..MaxProcesses]

HookRecords ==
  [pc : {"unsent", "load", "mark", "verdict", "enqueue", "done"},
   call : Call \cup {NoCall}, status : Status, state : States, data : Data]

RequestRecords ==
  [pc : {"unsent", "log", "unset", "reprepare", "enqueue", "done"},
   act : {"reset", "complete"}, state : States]

(* A worker that calls knows its run, and a hook being served its call. *)
TypeOK ==
  /\ row \in [state : States, data : Data]
  /\ setupComplete \in BOOLEAN
  /\ queue \in Nat
  /\ worker \in [Workers -> WorkerRecords]
  /\ \A w \in Workers : worker[w].pc \in {"test", "handler", "call"} => worker[w].run \in 1..MaxProcesses
  /\ calls \in SUBSET Call
  /\ runs \in 0..MaxProcesses
  /\ hook \in [Hooks -> HookRecords]
  /\ \A h \in Hooks : hook[h].pc \in {"load", "mark"} => hook[h].call \in Call
  /\ request \in [Clicks -> RequestRecords]
  /\ reported \in SUBSET (Call \X Status)

Said(s, v) == \E c \in calls : c.system = s /\ <<c, v>> \in reported

Sound(d) ==
  /\ d.requested \cap d.failed = {}
  /\ d.requested \cap d.successful = {}
  /\ d.failed \cap d.successful = {}
  /\ \A s \in d.successful : Said(s, "successful")
  /\ \A s \in d.failed : Said(s, "failed")

(* Every answer is entered once: the three lists of the newest row are     *)
(* disjoint, and a system is listed as successful or failed only if the    *)
(* key service has said so of it, whatever copies the callbacks wrote      *)
(* from and however often one call was answered.                           *)
Accounted == Sound(row.data)

(* COMPLETED is never written over an unanswered or a failed system: a row *)
(* that is COMPLETED and lists systems lists every one as successful, also *)
(* when a callback writes under the state it had loaded earlier.           *)
CompletedMeansCreated ==
  row.state = "completed" /\ row.data.known =>
    row.data.requested = {} /\ row.data.failed = {}

(* Whoever completes the step lets the executor continue afterwards: once  *)
(* everything is at rest, a COMPLETED step has been counted.               *)
VerdictCounts == AtRest /\ row.state = "completed" => setupComplete

(* Celery runs what is queued, web processes finish their requests, and    *)
(* the key service answers every call.                                     *)
Fairness ==
  /\ \A w \in Workers : WF_vars(WorkerNext(w))
  /\ \A h \in Hooks : WF_vars(ServeHook(h)) /\ WF_vars(Deliver(h))
  /\ \A r \in Clicks : WF_vars(ServeRequest(r))

FairSpec == Spec /\ Fairness

(* When answers come one at a time, the step comes to an end: for good,    *)
(* COMPLETED, FAILED or ERROR, resets included.                            *)
StepSettles == <>[](row.state \in {"completed", "failed", "error"})

-----------------------------------------------------------------------------
(***************************************************************************)
(* What a text of the code says, and the code does otherwise               *)
(***************************************************************************)

(* key_service_creation.py: "No action required": once every call has been *)
(* answered and nothing is running, the step does not stay in PROCESSING.  *)
NoActionRequired ==
  AtRest /\ (\A c \in calls : Answered(c)) => row.state # "processing"
=============================================================================
