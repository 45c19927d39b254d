-------------------------- MODULE OnboardingProofs --------------------------
(***************************************************************************)
(* Theorems about Onboarding, for any list of steps, any number of         *)
(* workers, logins and clicks, and any number of crashes.                  *)
(***************************************************************************)
EXTENDS Onboarding, TLAPS, WellFoundedInduction

(* Where a task stands after moving to position k. *)
LEMMA ArriveType ==
  ASSUME NEW k \in 1..(NSteps + 1)
  PROVE  /\ Arrive(k) \in WorkerRecords
         /\ Arrive(k).at = k
         /\ Arrive(k).pc = IF k > NSteps THEN "finish" ELSE "load"
BY NStepsAssumption DEF Arrive, WorkerRecords, NoEvent

(* Where a login stands after looking at a step. *)
LEMMA NextToPrepareType ==
  ASSUME TypeOK, NEW r \in Request, request[r].step \in Step
  PROVE  /\ NextToPrepare(r) \in RequestRecords
         /\ NextToPrepare(r).pc \in {"prepare", "check"}
         /\ NextToPrepare(r).step \in Step
<1>1. request[r] \in RequestRecords
  BY DEF TypeOK
<1>2. /\ (IF request[r].step = NSteps THEN 1 ELSE request[r].step + 1) \in Step
      /\ Step \subseteq 1..(NSteps + 1)
  BY NStepsAssumption DEF Step
<1>3. QED
  BY <1>1, <1>2 DEF NextToPrepare, RequestRecords

(* Moving one worker keeps the types when its new record is well formed.   *)
LEMMA WorkerUpdate ==
  ASSUME TypeOK, NEW w \in Workers, NEW rec \in WorkerRecords,
         rec.pc \in {"load", "begin", "process"} => rec.at \in Step,
         rec.pc \in {"finish", "announce"} => rec.at = NSteps + 1,
         worker' = [worker EXCEPT ![w] = rec]
  PROVE  /\ worker' \in [Workers -> WorkerRecords]
         /\ \A x \in Workers : WorkerOK(x)'
BY DEF TypeOK, WorkerOK

LEMMA RequestUpdate ==
  ASSUME TypeOK, NEW r \in Request, NEW rec \in RequestRecords,
         rec.pc \notin {"unsent", "check", "done"} => rec.step \in Step,
         rec.pc = "loaded" => rec.st # "created",
         request' = [request EXCEPT ![r] = rec]
  PROVE  /\ request' \in [Request -> RequestRecords]
         /\ \A x \in Request : RequestOK(x)'
BY DEF TypeOK, RequestOK

(* A row appended by anybody keeps the types of the step states. *)
LEMMA LogType ==
  ASSUME TypeOK, NEW s \in Step, NEW v \in SetupState, Log(s, v)
  PROVE  /\ state' \in [Step -> SetupState \cup {NoEvent}]
         /\ interrupted' \in SUBSET Step
BY DEF TypeOK, Log

LEMMA NoLogType ==
  ASSUME TypeOK, NoLog
  PROVE  /\ state' \in [Step -> SetupState \cup {NoEvent}]
         /\ interrupted' \in SUBSET Step
BY DEF TypeOK, NoLog

(* Every action keeps the history up. *)
LEMMA WorkerCredits ==
  ASSUME NEW w \in Workers, WorkerNext(w) \/ Crash(w)
  PROVE  Credit
BY DEF WorkerNext, Take, Load, LoadRaises, Begin, Progress, Outcome, Finish, Announce, Crash,
   OnlyWorkers

LEMMA RequestCredits ==
  ASSUME NEW r \in Request, Authenticate(r) \/ Press(r) \/ ServeRequest(r)
  PROVE  Credit
BY DEF Authenticate, Press, ServeRequest, LookForEvents, LookRaises, PrepareFresh,
   CheckSetup, LoadStep, LoadStepRaises, CompleteStep, LogAction, RejectAction, Unset, AnnounceReset,
   Reprepare, ClientAction, AddToProject, TrackerRefuses, Grant, Deny, DenyRaises,
   Enqueue, OnlyRequests

LEMMA CreditType == Credit /\ TypeOK => credit' \in [Workers -> SUBSET Step]
BY DEF Credit, TypeOK

-----------------------------------------------------------------------------
(***************************************************************************)
(* Type correctness                                                        *)
(***************************************************************************)

LEMMA TypeInit == Init => TypeOK
<1> SUFFICES ASSUME Init PROVE TypeOK
  OBVIOUS
<1>1. Idle \in WorkerRecords
  BY NStepsAssumption DEF Idle, WorkerRecords
<1>2. [pc |-> "unsent", act |-> "login", by |-> "owner", step |-> 1,
       st |-> NoEvent] \in RequestRecords
  BY NStepsAssumption DEF RequestRecords
<1>3. \A w \in Workers : WorkerOK(w)
  BY <1>1 DEF Init, WorkerOK, Idle
<1>4. \A r \in Request : RequestOK(r)
  BY <1>2 DEF Init, RequestOK
<1>5. 0 \in 0..MaxCrashes
  BY MaxCrashesAssumption
<1>6. QED
  BY <1>1, <1>2, <1>3, <1>4, <1>5 DEF Init, TypeOK

(* Every action of a worker *)
LEMMA TypeWorker ==
  ASSUME TypeOK, NEW w \in Workers, WorkerNext(w) \/ Crash(w), Credit
  PROVE  TypeOK'
<1> DEFINE k == worker[w].at
<1>1. WorkerOK(w) /\ worker[w] \in WorkerRecords
  BY DEF TypeOK
<1>2. Idle \in WorkerRecords /\ Idle.pc = "idle"
  BY NStepsAssumption DEF Idle, WorkerRecords
<1>3. credit' \in [Workers -> SUBSET Step]
  BY CreditType
<1>4. 1..(NSteps + 1) \subseteq 0..(NSteps + 1) /\ 1 \in 1..(NSteps + 1)
  BY NStepsAssumption
<1>5. \A j \in Step : j \in 1..(NSteps + 1) /\ j + 1 \in 1..(NSteps + 1)
  BY NStepsAssumption DEF Step
<1>6. ASSUME NEW j \in 1..(NSteps + 1)
      PROVE  /\ Arrive(j) \in WorkerRecords
             /\ Arrive(j).pc \in {"load", "finish"}
             /\ Arrive(j).pc = "load" => Arrive(j).at \in Step
             /\ Arrive(j).pc = "finish" => Arrive(j).at = NSteps + 1
  BY <1>6, ArriveType, NStepsAssumption DEF Step
<1>a. CASE Take(w)
  <2>1. /\ worker' \in [Workers -> WorkerRecords]
        /\ \A x \in Workers : WorkerOK(x)'
    BY <1>a, <1>4, <1>6, WorkerUpdate DEF Take
  <2>2. /\ state' \in [Step -> SetupState \cup {NoEvent}]
        /\ interrupted' \in SUBSET Step
    BY <1>a, NoLogType DEF Take
  <2>3. QED
    BY <1>a, <1>3, <2>1, <2>2 DEF Take, OnlyWorkers, TypeOK, RequestOK
<1>b. CASE Load(w)
  <2>1. k \in Step
    BY <1>b, <1>1 DEF Load, WorkerOK
  <2>2. [pc |-> "begin", at |-> k, st |-> "pending"] \in WorkerRecords
    BY <2>1, <1>4, <1>5 DEF WorkerRecords, SetupState
  <2>3. PICK rec \in WorkerRecords :
          /\ worker' = [worker EXCEPT ![w] = rec]
          /\ rec.pc \in {"load", "begin", "process"} => rec.at \in Step
          /\ rec.pc \in {"finish", "announce"} => rec.at = NSteps + 1
    BY <1>b, <1>2, <1>5, <1>6, <2>1, <2>2 DEF Load
  <2>4. /\ worker' \in [Workers -> WorkerRecords]
        /\ \A x \in Workers : WorkerOK(x)'
    BY <2>3, WorkerUpdate
  <2>5. /\ state' \in [Step -> SetupState \cup {NoEvent}]
        /\ interrupted' \in SUBSET Step
    BY <1>b, NoLogType DEF Load
  <2>6. QED
    BY <1>b, <1>3, <2>4, <2>5 DEF Load, OnlyWorkers, TypeOK, RequestOK
<1>i. CASE LoadRaises(w)
  <2>1. /\ worker' \in [Workers -> WorkerRecords]
        /\ \A x \in Workers : WorkerOK(x)'
    BY <1>i, <1>2, WorkerUpdate DEF LoadRaises
  <2>2. /\ state' \in [Step -> SetupState \cup {NoEvent}]
        /\ interrupted' \in SUBSET Step
    BY <1>i, NoLogType DEF LoadRaises
  <2>3. QED
    BY <1>i, <1>3, <2>1, <2>2 DEF LoadRaises, OnlyWorkers, TypeOK, RequestOK
<1>c. CASE Begin(w)
  <2>1. k \in Step
    BY <1>c, <1>1 DEF Begin, WorkerOK
  <2>2. [pc |-> "process", at |-> k, st |-> "processing"] \in WorkerRecords
    BY <2>1, <1>4, <1>5 DEF WorkerRecords, SetupState
  <2>3. /\ worker' \in [Workers -> WorkerRecords]
        /\ \A x \in Workers : WorkerOK(x)'
    BY <1>c, <2>1, <2>2, WorkerUpdate DEF Begin
  <2>4. /\ state' \in [Step -> SetupState \cup {NoEvent}]
        /\ interrupted' \in SUBSET Step
    BY <1>c, <2>1, LogType DEF Begin, SetupState
  <2>5. QED
    BY <1>c, <1>3, <2>3, <2>4 DEF Begin, OnlyWorkers, TypeOK, RequestOK
<1>d. CASE Progress(w)
  <2>1. k \in Step
    BY <1>d, <1>1 DEF Progress, WorkerOK
  <2> DEFINE v == IF Kind[k] = "system_access" THEN "failed" ELSE "processing"
  <2>2. v \in SetupState
    BY DEF SetupState
  <2>3. /\ [worker[w] EXCEPT !.st = v] \in WorkerRecords
        /\ [worker[w] EXCEPT !.st = v].pc = "process"
        /\ [worker[w] EXCEPT !.st = v].at = k
    BY <1>d, <1>1, <2>2 DEF Progress, WorkerRecords
  <2>4. worker' = [worker EXCEPT ![w] = [worker[w] EXCEPT !.st = v]]
    BY <1>d DEF Progress
  <2>5. /\ worker' \in [Workers -> WorkerRecords]
        /\ \A x \in Workers : WorkerOK(x)'
    BY <2>1, <2>3, <2>4, WorkerUpdate
  <2>6. Log(k, v)
    BY <1>d DEF Progress
  <2>7. /\ state' \in [Step -> SetupState \cup {NoEvent}]
        /\ interrupted' \in SUBSET Step
    BY <2>1, <2>2, <2>6, LogType
  <2>8. QED
    BY <1>d, <1>3, <2>5, <2>7 DEF Progress, OnlyWorkers, TypeOK, RequestOK
<1>e. CASE Outcome(w)
  <2>1. k \in Step
    BY <1>e, <1>1 DEF Outcome, WorkerOK
  <2>2. PICK v \in {"completed", "userwait", "error"} :
          /\ Log(k, v)
          /\ worker' = [worker EXCEPT ![w] =
                          IF v = "completed" THEN Arrive(k + 1) ELSE Idle]
    BY <1>e DEF Outcome
  <2>3. /\ worker' \in [Workers -> WorkerRecords]
        /\ \A x \in Workers : WorkerOK(x)'
    <3> DEFINE rec == IF v = "completed" THEN Arrive(k + 1) ELSE Idle
    <3>1. /\ rec \in WorkerRecords
          /\ rec.pc \in {"load", "begin", "process"} => rec.at \in Step
          /\ rec.pc \in {"finish", "announce"} => rec.at = NSteps + 1
      BY <1>2, <1>5, <1>6, <2>1
    <3>2. QED
      BY <3>1, <2>2, WorkerUpdate
  <2>4. /\ state' \in [Step -> SetupState \cup {NoEvent}]
        /\ interrupted' \in SUBSET Step
    BY <2>1, <2>2, LogType DEF SetupState
  <2>5. QED
    BY <1>e, <1>3, <2>3, <2>4 DEF Outcome, OnlyWorkers, TypeOK, RequestOK
<1>f. CASE Finish(w)
  <2>1. /\ [worker[w] EXCEPT !.pc = "announce"] \in WorkerRecords
        /\ [worker[w] EXCEPT !.pc = "announce"].pc = "announce"
        /\ [worker[w] EXCEPT !.pc = "announce"].at = NSteps + 1
    BY <1>f, <1>1 DEF Finish, WorkerRecords, WorkerOK
  <2>2. worker' = [worker EXCEPT ![w] = [worker[w] EXCEPT !.pc = "announce"]]
    BY <1>f DEF Finish
  <2>3. /\ worker' \in [Workers -> WorkerRecords]
        /\ \A x \in Workers : WorkerOK(x)'
    BY <2>1, <2>2, WorkerUpdate
  <2>4. /\ state' \in [Step -> SetupState \cup {NoEvent}]
        /\ interrupted' \in SUBSET Step
    BY <1>f, NoLogType DEF Finish
  <2>5. QED
    BY <1>f, <1>3, <2>3, <2>4 DEF Finish, OnlyWorkers, TypeOK, RequestOK
<1>g. CASE Announce(w)
  <2>1. /\ worker' \in [Workers -> WorkerRecords]
        /\ \A x \in Workers : WorkerOK(x)'
    BY <1>g, <1>2, WorkerUpdate DEF Announce
  <2>2. /\ state' \in [Step -> SetupState \cup {NoEvent}]
        /\ interrupted' \in SUBSET Step
    BY <1>g, NoLogType DEF Announce
  <2>3. QED
    BY <1>g, <1>3, <2>1, <2>2 DEF Announce, OnlyWorkers, TypeOK, RequestOK
<1>h. CASE Crash(w)
  <2>1. /\ worker' \in [Workers -> WorkerRecords]
        /\ \A x \in Workers : WorkerOK(x)'
    BY <1>h, <1>2, WorkerUpdate DEF Crash
  <2>2. interrupted' \in SUBSET Step
    BY <1>h, <1>1 DEF Crash, TypeOK, WorkerOK
  <2>3. crashes' \in 0..MaxCrashes
    BY <1>h, MaxCrashesAssumption DEF Crash, TypeOK
  <2>4. QED
    BY <1>h, <1>3, <2>1, <2>2, <2>3 DEF Crash, TypeOK, RequestOK
<1>q. QED
  BY <1>a, <1>b, <1>c, <1>d, <1>e, <1>f, <1>g, <1>h, <1>i DEF WorkerNext

(* The rows a request writes *)
LEMMA ClientResultType ==
  ASSUME NEW r
  PROVE  ClientResult(r) \subseteq SetupState
BY DEF ClientResult, SetupState

(* Every action of a login or a click *)
LEMMA TypeRequest ==
  ASSUME TypeOK, NEW r \in Request, Authenticate(r) \/ Press(r) \/ ServeRequest(r),
         Credit
  PROVE  TypeOK'
<1> DEFINE s == request[r].step
<1>1. RequestOK(r) /\ request[r] \in RequestRecords
  BY DEF TypeOK
<1>2. credit' \in [Workers -> SUBSET Step]
  BY CreditType
<1>3. Step \subseteq 1..(NSteps + 1) /\ 1 \in 1..(NSteps + 1)
  BY NStepsAssumption DEF Step
<1>4. ASSUME NEW pc \in {"prepare", "fresh", "check", "sent", "unset",
                         "announce", "reprepare", "acting", "closing", "granting",
                         "failing", "enqueue", "done"},
             Goto(r, pc),
             pc \notin {"check", "done"} => s \in Step
      PROVE  /\ request' \in [Request -> RequestRecords]
             /\ \A x \in Request : RequestOK(x)'
  <2>1. /\ [request[r] EXCEPT !.pc = pc] \in RequestRecords
        /\ [request[r] EXCEPT !.pc = pc].pc = pc
        /\ [request[r] EXCEPT !.pc = pc].step = s
    BY <1>1, <1>4 DEF RequestRecords
  <2>2. request' = [request EXCEPT ![r] = [request[r] EXCEPT !.pc = pc]]
    BY <1>4 DEF Goto
  <2>3. QED
    BY <1>4, <2>1, <2>2, RequestUpdate
<1>5. ASSUME NoLog
      PROVE  /\ state' \in [Step -> SetupState \cup {NoEvent}]
             /\ interrupted' \in SUBSET Step
  BY <1>5, NoLogType
<1>6. ASSUME NEW v \in SetupState, Log(s, v), s \in Step
      PROVE  /\ state' \in [Step -> SetupState \cup {NoEvent}]
             /\ interrupted' \in SUBSET Step
  BY <1>6, LogType
<1>7. Queue => queue' \in Nat /\ lost' \in BOOLEAN
  <2>1. queue + 1 \in Nat
    BY DEF TypeOK
  <2>2. QED
    BY <2>1 DEF Queue
<1>8. s \in Step => /\ NextToPrepare(r) \in RequestRecords
                   /\ NextToPrepare(r).pc \in {"prepare", "check"}
                   /\ NextToPrepare(r).step \in Step
  BY NextToPrepareType
<1>9. s \in Step /\ request' = [request EXCEPT ![r] = NextToPrepare(r)]
      => /\ request' \in [Request -> RequestRecords]
         /\ \A x \in Request : RequestOK(x)'
  BY <1>8, RequestUpdate
<1>a. CASE Authenticate(r)
  <2> DEFINE rec == [pc |-> "prepare", act |-> "login", by |-> "owner", step |-> 1,
                     st |-> IF hasProfile THEN NoEvent ELSE "created"]
  <2>1. rec \in RequestRecords
    BY <1>3 DEF RequestRecords
  <2>2. rec.step \in Step
    BY NStepsAssumption DEF Step
  <2>3. /\ request' \in [Request -> RequestRecords]
        /\ \A x \in Request : RequestOK(x)'
    BY <1>a, <2>1, <2>2, RequestUpdate DEF Authenticate
  <2>4. QED
    BY <1>a, <1>2, <1>5, <2>3 DEF Authenticate, OnlyRequests, TypeOK, WorkerOK
<1>c. CASE LookForEvents(r)
  <2>1. s \in Step
    BY <1>c, <1>1 DEF LookForEvents, RequestOK
  <2>2. /\ request' \in [Request -> RequestRecords]
        /\ \A x \in Request : RequestOK(x)'
    BY <1>c, <2>1, <1>4, <1>9 DEF LookForEvents
  <2>3. QED
    BY <1>c, <1>2, <1>5, <2>2 DEF LookForEvents, OnlyRequests, TypeOK, WorkerOK
<1>w. CASE LookRaises(r)
  <2>1. interrupted' \in SUBSET Step
    BY <1>w DEF LookRaises, TypeOK
  <2>2. QED
    BY <1>w, <1>2, <1>4, <2>1 DEF LookRaises, OnlyRequests, TypeOK, WorkerOK
<1>x. CASE LoadStepRaises(r)
  BY <1>x, <1>2, <1>4, <1>5 DEF LoadStepRaises, OnlyRequests, TypeOK, WorkerOK
<1>d. CASE PrepareFresh(r)
  <2>1. s \in Step
    BY <1>d, <1>1 DEF PrepareFresh, RequestOK
  <2>2. QED
    BY <1>d, <1>2, <1>6, <1>9, <2>1
       DEF PrepareFresh, OnlyRequests, TypeOK, WorkerOK, SetupState
<1>e. CASE CheckSetup(r)
  BY <1>e, <1>2, <1>4, <1>5, <1>7 DEF CheckSetup, OnlyRequests, TypeOK, WorkerOK
<1>f. CASE Press(r)
  <2>1. PICK by \in {"owner", "staff"}, act \in Buttons, t \in Step :
          request' = [request EXCEPT ![r] =
                        [pc |-> "sent", act |-> act, by |-> by, step |-> t,
                         st |-> NoEvent]]
    BY <1>f DEF Press
  <2> DEFINE rec == [pc |-> "sent", act |-> act, by |-> by, step |-> t, st |-> NoEvent]
  <2>2. rec \in RequestRecords
    BY <1>3, ButtonsAssumption DEF RequestRecords
  <2>3. /\ request' \in [Request -> RequestRecords]
        /\ \A x \in Request : RequestOK(x)'
    BY <2>1, <2>2, RequestUpdate
  <2>4. QED
    BY <1>f, <1>2, <1>5, <2>3 DEF Press, OnlyRequests, TypeOK, WorkerOK
<1>g. CASE LoadStep(r)
  <2> DEFINE rec == [request[r] EXCEPT !.pc = "loaded", !.st = state[s]]
  <2>1. s \in Step /\ state[s] \in SetupState \cup {NoEvent}
    BY <1>g, <1>1 DEF LoadStep, RequestOK, TypeOK
  <2>2. /\ rec \in RequestRecords
        /\ rec.pc = "loaded"
        /\ rec.step = s
        /\ rec.st = state[s]
    BY <1>1, <2>1 DEF RequestRecords
  <2>3. rec.st # "created"
    BY <2>1, <2>2 DEF SetupState, NoEvent
  <2>4. request' = [request EXCEPT ![r] = rec]
    BY <1>g DEF LoadStep
  <2>5. /\ request' \in [Request -> RequestRecords]
        /\ \A x \in Request : RequestOK(x)'
    BY <2>1, <2>2, <2>3, <2>4, RequestUpdate
  <2>6. QED
    BY <1>g, <1>2, <1>5, <2>5 DEF LoadStep, OnlyRequests, TypeOK, WorkerOK
<1>h. CASE CompleteStep(r)
  <2>1. s \in Step
    BY <1>h, <1>1 DEF CompleteStep, RequestOK
  <2>2. QED
    BY <1>h, <1>2, <1>4, <1>6, <2>1
       DEF CompleteStep, OnlyRequests, TypeOK, WorkerOK, SetupState
<1>i. CASE LogAction(r)
  <2>1. s \in Step /\ request[r].st \in SetupState
    BY <1>i, <1>1 DEF LogAction, RequestOK, RequestRecords
  <2>2. QED
    BY <1>i, <1>2, <1>4, <1>6, <2>1 DEF LogAction, OnlyRequests, TypeOK, WorkerOK
<1>j. CASE RejectAction(r)
  BY <1>j, <1>2, <1>4, <1>5 DEF RejectAction, OnlyRequests, TypeOK, WorkerOK
<1>k. CASE Unset(r)
  <2>1. s \in Step
    BY <1>k, <1>1 DEF Unset, RequestOK
  <2>2. QED
    BY <1>k, <1>2, <1>4, <1>5, <2>1 DEF Unset, OnlyRequests, TypeOK, WorkerOK
<1>l. CASE AnnounceReset(r)
  <2>1. s \in Step
    BY <1>l, <1>1 DEF AnnounceReset, RequestOK
  <2>2. QED
    BY <1>l, <1>2, <1>4, <1>5, <2>1 DEF AnnounceReset, OnlyRequests, TypeOK, WorkerOK
<1>m. CASE Reprepare(r)
  <2>1. s \in Step
    BY <1>m, <1>1 DEF Reprepare, RequestOK
  <2>2. QED
    BY <1>m, <1>2, <1>4, <1>6, <2>1
       DEF Reprepare, OnlyRequests, TypeOK, WorkerOK, SetupState
<1>n. CASE ClientAction(r)
  <2>1. s \in Step
    BY <1>n, <1>1 DEF ClientAction, RequestOK
  <2>2. /\ state' \in [Step -> SetupState \cup {NoEvent}]
        /\ interrupted' \in SUBSET Step
    <3>1. CASE Ignore(s)
      BY <2>1, <3>1 DEF Ignore, TypeOK
    <3>2. CASE ~Ignore(s)
      BY <1>n, <3>2, <1>6, <2>1, ClientResultType DEF ClientAction
    <3>3. QED
      BY <3>1, <3>2
  <2>3. QED
    BY <1>n, <1>2, <1>4, <2>1, <2>2 DEF ClientAction, OnlyRequests, TypeOK, WorkerOK
<1>o. CASE AddToProject(r)
  <2>1. s \in Step
    BY <1>o, <1>1 DEF AddToProject, RequestOK
  <2>2. /\ state' \in [Step -> SetupState \cup {NoEvent}]
        /\ interrupted' \in SUBSET Step
    BY <1>o, <1>5, <1>6, <2>1 DEF AddToProject, SetupState
  <2>3. QED
    BY <1>o, <1>2, <1>4, <2>1, <2>2 DEF AddToProject, OnlyRequests, TypeOK, WorkerOK
<1>p. CASE TrackerRefuses(r)
  <2>1. s \in Step
    BY <1>p, <1>1 DEF TrackerRefuses, RequestOK
  <2>2. QED
    BY <1>p, <1>2, <1>4, <1>6, <2>1
       DEF TrackerRefuses, OnlyRequests, TypeOK, WorkerOK, SetupState
<1>r. CASE Grant(r)
  <2>1. s \in Step
    BY <1>r, <1>1 DEF Grant, RequestOK
  <2>2. QED
    BY <1>r, <1>2, <1>4, <1>6, <2>1
       DEF Grant, OnlyRequests, TypeOK, WorkerOK, SetupState
<1>s. CASE Deny(r)
  <2>1. s \in Step
    BY <1>s, <1>1 DEF Deny, RequestOK
  <2>2. QED
    BY <1>s, <1>2, <1>4, <1>6, <2>1
       DEF Deny, OnlyRequests, TypeOK, WorkerOK, SetupState
<1>t. CASE DenyRaises(r)
  <2>1. s \in Step
    BY <1>t, <1>1 DEF DenyRaises, RequestOK
  <2>2. QED
    BY <1>t, <1>2, <1>4, <2>1 DEF DenyRaises, OnlyRequests, TypeOK, WorkerOK
<1>u. CASE Enqueue(r)
  <2>1. s \in Step
    BY <1>u, <1>1 DEF Enqueue, RequestOK
  <2>2. QED
    BY <1>u, <1>2, <1>4, <1>5, <1>7, <2>1
       DEF Enqueue, OnlyRequests, TypeOK, WorkerOK
<1>v. QED
  BY <1>a, <1>c, <1>d, <1>e, <1>f, <1>g, <1>h, <1>i, <1>j, <1>k, <1>l, <1>m,
     <1>n, <1>o, <1>p, <1>r, <1>s, <1>t, <1>u, <1>w, <1>x DEF ServeRequest

LEMMA TypeStep == TypeOK /\ [Next]_vars => TypeOK'
<1> SUFFICES ASSUME TypeOK, [Next]_vars PROVE TypeOK'
  OBVIOUS
<1>1. CASE Next
  BY <1>1, TypeWorker, TypeRequest, WorkerCredits, RequestCredits DEF Next
<1>2. CASE UNCHANGED vars
  BY <1>2 DEF vars, TypeOK, WorkerOK, RequestOK
<1>3. QED
  BY <1>1, <1>2

(* Whatever the interleaving, the rows written are states of SetupState    *)
(* (never None, which SetupEvent.state does not accept) and every actor    *)
(* writes to a step of the list.                                           *)
THEOREM TypeCorrect == Spec => []TypeOK
<1>1. QED
  BY TypeInit, TypeStep, PTL DEF Spec

-----------------------------------------------------------------------------
(***************************************************************************)
(* setup_complete is earned                                                *)
(***************************************************************************)

(* The inductive form: a task has seen every step behind it COMPLETED. *)
CreditInv ==
  \A w \in Workers : worker[w].pc # "idle" =>
    \A j \in Step : j < worker[w].at => j \in credit[w]

LEMMA CreditStep == TypeOK /\ CreditInv /\ [Next]_vars => CreditInv'
<1> SUFFICES ASSUME TypeOK, CreditInv, [Next]_vars PROVE CreditInv'
  OBVIOUS
<1>1. CASE UNCHANGED vars
  BY <1>1 DEF vars, CreditInv
<1>2. ASSUME Credit,
             \A x \in Workers :
               \/ worker'[x].pc = "idle"
               \/ worker[x].pc # "idle" /\ worker'[x].at = worker[x].at
               \/ worker'[x].at = 1
               \/ /\ worker[x].pc # "idle"
                  /\ worker[x].at \in Step
                  /\ worker'[x].at = worker[x].at + 1
                  /\ state'[worker[x].at] = "completed"
      PROVE  CreditInv'
  <2> SUFFICES ASSUME NEW x \in Workers, worker'[x].pc # "idle",
                      NEW j \in Step, j < worker'[x].at
               PROVE  j \in credit'[x]
    BY DEF CreditInv
  <2>1. credit'[x] = credit[x] \cup {k \in Step : state'[k] = "completed"}
    BY <1>2 DEF Credit
  <2>2. CASE worker[x].pc # "idle" /\ worker'[x].at = worker[x].at
    BY <2>1, <2>2 DEF CreditInv
  <2>3. CASE worker'[x].at = 1
    BY <2>3, NStepsAssumption DEF Step
  <2>4. CASE /\ worker[x].pc # "idle"
             /\ worker[x].at \in Step
             /\ worker'[x].at = worker[x].at + 1
             /\ state'[worker[x].at] = "completed"
    <3>1. j < worker[x].at \/ j = worker[x].at
      BY <2>4, NStepsAssumption DEF Step
    <3>2. QED
      BY <2>1, <2>4, <3>1 DEF CreditInv
  <2>5. QED
    BY <1>2, <2>2, <2>3, <2>4
<1>3. ASSUME Next PROVE CreditInv'
  <2>1. Credit
    BY <1>3, WorkerCredits, RequestCredits DEF Next
  <2>2. ASSUME NEW r \in Request, Authenticate(r) \/ Press(r) \/ ServeRequest(r)
        PROVE  UNCHANGED worker
    BY <2>2 DEF Authenticate, Press, ServeRequest, LookForEvents, LookRaises,
       PrepareFresh, CheckSetup, LoadStep, LoadStepRaises, CompleteStep, LogAction, RejectAction,
       Unset, AnnounceReset, Reprepare, ClientAction, AddToProject, TrackerRefuses,
       Grant, Deny, DenyRaises, Enqueue, OnlyRequests
  <2>3. CASE UNCHANGED worker
    BY <1>2, <2>1, <2>3
  <2>4. ASSUME NEW w \in Workers, WorkerNext(w) \/ Crash(w)
        PROVE  CreditInv'
    <3>1. WorkerOK(w) /\ worker \in [Workers -> WorkerRecords]
      BY DEF TypeOK
    <3>2. Idle.pc = "idle"
      BY DEF Idle
    <3>3. 1 \in 1..(NSteps + 1)
      BY NStepsAssumption
    <3>4. worker[w].at \in Step => worker[w].at + 1 \in 1..(NSteps + 1)
      BY NStepsAssumption DEF Step
    <3>5. \/ worker'[w].pc = "idle"
          \/ worker[w].pc # "idle" /\ worker'[w].at = worker[w].at
          \/ worker'[w].at = 1
          \/ /\ worker[w].pc # "idle"
             /\ worker[w].at \in Step
             /\ worker'[w].at = worker[w].at + 1
             /\ state'[worker[w].at] = "completed"
      <4>1. CASE Take(w)
        BY <4>1, <3>1, <3>3, ArriveType DEF Take
      <4>2. CASE Load(w)
        BY <4>2, <3>1, <3>2, <3>4, ArriveType DEF Load, WorkerOK, NoLog
      <4>3. CASE Begin(w) \/ Progress(w)
        BY <4>3, <3>1 DEF Begin, Progress, WorkerRecords
      <4>4. CASE Outcome(w)
        BY <4>4, <3>1, <3>2, <3>4, ArriveType DEF Outcome, WorkerOK, Log, TypeOK
      <4>5. CASE Finish(w)
        BY <4>5, <3>1 DEF Finish, WorkerRecords
      <4>6. CASE Announce(w) \/ Crash(w) \/ LoadRaises(w)
        BY <4>6, <3>1, <3>2 DEF Announce, Crash, LoadRaises
      <4>7. QED
        BY <2>4, <4>1, <4>2, <4>3, <4>4, <4>5, <4>6 DEF WorkerNext
    <3>6. ASSUME NEW x \in Workers, x # w PROVE worker'[x] = worker[x]
      BY <2>4, <3>1, <3>6 DEF WorkerNext, Take, Load, LoadRaises, Begin, Progress, Outcome,
         Finish, Announce, Crash
    <3>7. QED
      BY <1>2, <2>1, <3>5, <3>6
  <2>5. QED
    BY <1>3, <2>2, <2>3, <2>4 DEF Next
<1>4. QED
  BY <1>1, <1>3

(* The task that sets setup_complete saw every step COMPLETED, each at     *)
(* some moment of its run, for any list of steps and any interleaving of   *)
(* workers, logins, resets and skips (execute.py: "If execution was not    *)
(* interrupted, make setup_complete true").                                *)
THEOREM CompletionIsEarned == Spec => EarnedCompletion
<1>1. Init => CreditInv
  BY DEF Init, CreditInv, Idle
<1>2. TypeOK /\ CreditInv /\ [Next]_vars =>
        [~setupComplete /\ setupComplete' =>
           \E w \in Workers : worker[w].pc = "finish" /\ Step \subseteq credit[w]]_vars
  <2> SUFFICES ASSUME TypeOK, CreditInv, Next, ~setupComplete, setupComplete'
               PROVE  \E w \in Workers : worker[w].pc = "finish" /\ Step \subseteq credit[w]
    BY DEF vars
  <2>1. ASSUME NEW r \in Request, Authenticate(r) \/ Press(r) \/ ServeRequest(r)
        PROVE  FALSE
    BY <2>1 DEF Authenticate, Press, ServeRequest, LookForEvents, LookRaises,
       PrepareFresh, CheckSetup, LoadStep, LoadStepRaises, CompleteStep, LogAction, RejectAction,
       Unset, AnnounceReset, Reprepare, ClientAction, AddToProject, TrackerRefuses,
       Grant, Deny, DenyRaises, Enqueue
  <2>2. ASSUME NEW w \in Workers, WorkerNext(w) \/ Crash(w)
        PROVE  worker[w].pc = "finish"
    BY <2>2 DEF WorkerNext, Take, Load, LoadRaises, Begin, Progress, Outcome, Finish, Announce,
       Crash
  <2>3. ASSUME NEW w \in Workers, worker[w].pc = "finish"
        PROVE  Step \subseteq credit[w]
    <3>1. worker[w].at = NSteps + 1
      BY <2>3 DEF TypeOK, WorkerOK
    <3>2. \A j \in Step : j < worker[w].at
      BY <3>1, NStepsAssumption DEF Step
    <3>3. QED
      BY <2>3, <3>2 DEF CreditInv
  <2>4. QED
    BY <2>1, <2>2, <2>3 DEF Next
<1>3. QED
  BY <1>1, <1>2, CreditStep, TypeInit, TypeStep, PTL DEF Spec, EarnedCompletion

-----------------------------------------------------------------------------
(***************************************************************************)
(* There is always somebody coming for the front of the queue              *)
(***************************************************************************)

(* A request in the middle of its work keeps the promise by itself, and    *)
(* what it queues at the end keeps it afterwards.                          *)
LEMMA BatonRequest ==
  ASSUME TypeOK, BatonHeld, NEW r \in Request,
         Authenticate(r) \/ Press(r) \/ ServeRequest(r)
  PROVE  BatonHeld'
<1> SUFFICES ASSUME hasProfile', ~setupComplete', ~lost',
                    NEW s \in 1..(NSteps + 1), Front(s)'
             PROVE  \/ queue' > 0
                    \/ \E w \in Workers : Before(w, s)'
                    \/ \E q \in Request : WillQueue(q)'
  BY DEF BatonHeld
<1>1. request \in [Request -> RequestRecords] /\ queue \in Nat
  BY DEF TypeOK
<1>2. CASE WillQueue(r)'
  BY <1>2
<1>3. CASE Queue
  BY <1>1, <1>3 DEF Queue
<1>4. CASE /\ UNCHANGED <<state, setupComplete, hasProfile, queue, lost, worker>>
           /\ ~WillQueue(r)
           /\ \A q \in Request : q # r => request'[q] = request[q]
  <2>1. Front(s)
    BY <1>4 DEF Front, DoneBefore
  <2>2. \/ queue > 0
        \/ \E w \in Workers : Before(w, s)
        \/ \E q \in Request : WillQueue(q)
    BY <1>4, <2>1 DEF BatonHeld
  <2>3. ASSUME NEW w \in Workers, Before(w, s) PROVE Before(w, s)'
    BY <1>4, <2>3 DEF Before
  <2>4. ASSUME NEW q \in Request, WillQueue(q) PROVE WillQueue(q)'
    BY <1>4, <2>4 DEF WillQueue
  <2>5. QED
    BY <1>4, <2>2, <2>3, <2>4
<1>5. CASE Authenticate(r)
  BY <1>1, <1>2, <1>5 DEF Authenticate, WillQueue
<1>6. CASE CheckSetup(r)
  <2>1. Queue
    BY <1>6 DEF CheckSetup
  <2>2. QED
    BY <1>3, <2>1
<1>7. CASE LookForEvents(r) \/ PrepareFresh(r)
  <2>1. request'[r].pc \in {"prepare", "fresh", "check"}
    <3>1. NextToPrepare(r).pc \in {"prepare", "check"}
      BY <1>1 DEF NextToPrepare, RequestRecords
    <3>2. QED
      BY <1>1, <1>7, <3>1 DEF LookForEvents, LookRaises, PrepareFresh, Goto, RequestRecords
  <2>2. QED
    BY <1>2, <2>1 DEF WillQueue
<1>8. CASE Press(r) \/ LoadStep(r) \/ LoadStepRaises(r) \/ RejectAction(r)
  BY <1>1, <1>4, <1>8
     DEF Press, LoadStep, LoadStepRaises, RejectAction, NoLog, OnlyRequests, WillQueue, Goto
<1>9. CASE CompleteStep(r) \/ LogAction(r) \/ Unset(r) \/ AnnounceReset(r) \/ Reprepare(r)
  BY <1>1, <1>2, <1>9
     DEF CompleteStep, LogAction, Unset, AnnounceReset, Reprepare, Goto, WillQueue,
         RequestRecords
<1>10. CASE ClientAction(r) \/ AddToProject(r) \/ TrackerRefuses(r) \/ Grant(r) \/ Deny(r)
  BY <1>1, <1>2, <1>10
     DEF ClientAction, AddToProject, TrackerRefuses, Grant, Deny, Goto, WillQueue,
         RequestRecords
<1>11. CASE DenyRaises(r) \/ LookRaises(r)
  BY <1>11 DEF DenyRaises, LookRaises
<1>12. CASE Enqueue(r)
  BY <1>3, <1>12 DEF Enqueue
<1>13. QED
  BY <1>5, <1>6, <1>7, <1>8, <1>9, <1>10, <1>11, <1>12 DEF ServeRequest

(* A task that leaves a position either moves on to the next one or leaves *)
(* a step there that is not COMPLETED, which closes the front behind it.   *)
LEMMA BatonWorker ==
  ASSUME TypeOK, BatonHeld, NEW w \in Workers, WorkerNext(w) \/ Crash(w)
  PROVE  BatonHeld'
<1> SUFFICES ASSUME hasProfile', ~setupComplete', ~lost',
                    NEW s \in 1..(NSteps + 1), Front(s)'
             PROVE  \/ queue' > 0
                    \/ \E x \in Workers : Before(x, s)'
                    \/ \E q \in Request : WillQueue(q)'
  BY DEF BatonHeld
<1> DEFINE k == worker[w].at
<1>1. /\ worker \in [Workers -> WorkerRecords] /\ queue \in Nat
      /\ state \in [Step -> SetupState \cup {NoEvent}]
      /\ WorkerOK(w)
  BY DEF TypeOK
<1>2. /\ UNCHANGED <<hasProfile, request>>
      /\ \A x \in Workers : x # w => worker'[x] = worker[x]
  BY <1>1 DEF WorkerNext, Take, Load, LoadRaises, Begin, Progress, Outcome, Finish, Announce,
     Crash, OnlyWorkers
<1>3. CASE Before(w, s)'
  BY <1>3
<1>4. ASSUME Front(s), ~setupComplete, ~lost, ~Before(w, s), queue' = queue
      PROVE  \/ queue' > 0
             \/ \E x \in Workers : Before(x, s)'
             \/ \E q \in Request : WillQueue(q)'
  <2>1. \/ queue > 0
        \/ \E x \in Workers : Before(x, s)
        \/ \E q \in Request : WillQueue(q)
    BY <1>2, <1>4 DEF BatonHeld
  <2>2. ASSUME NEW x \in Workers, Before(x, s) PROVE Before(x, s)'
    BY <1>2, <1>4, <2>2 DEF Before
  <2>3. ASSUME NEW q \in Request, WillQueue(q) PROVE WillQueue(q)'
    BY <1>2, <2>3 DEF WillQueue
  <2>4. QED
    BY <1>4, <2>1, <2>2, <2>3
<1>5. 1 \in 1..(NSteps + 1) /\ s >= 1 /\ s \in Nat
  BY NStepsAssumption
<1>6. k \in Step => k \in Nat /\ k + 1 \in 1..(NSteps + 1)
  BY NStepsAssumption DEF Step
<1>a. CASE Take(w)
  BY <1>a, <1>1, <1>3, <1>5, ArriveType DEF Take, Before
<1>b. CASE Load(w)
  <2>1. k \in Step /\ Front(s) /\ ~setupComplete /\ ~lost /\ queue' = queue
    BY <1>b, <1>1 DEF Load, WorkerOK, NoLog, Front, DoneBefore
  <2>2. CASE state[k] = "pending"
    <3>1. worker'[w].pc = "begin" /\ worker'[w].at = k
      BY <1>b, <1>1, <2>2 DEF Load
    <3>2. QED
      BY <1>3, <1>4, <2>1, <3>1 DEF Before
  <2>3. CASE state[k] = "completed"
    <3>1. worker'[w].pc \in {"load", "finish"} /\ worker'[w].at = k + 1
      BY <1>b, <1>1, <1>6, <2>1, <2>3, ArriveType DEF Load
    <3>2. k # s
      BY <2>1, <2>3 DEF Front
    <3>3. CASE k < s
      <4>1. k + 1 <= s
        BY <1>5, <1>6, <2>1, <3>3
      <4>2. QED
        BY <1>3, <3>1, <4>1 DEF Before
    <3>4. CASE k > s
      <4>1. ~Before(w, s)
        BY <1>5, <1>6, <2>1, <3>4 DEF Before
      <4>2. QED
        BY <1>4, <2>1, <4>1
    <3>5. QED
      BY <1>5, <1>6, <2>1, <3>2, <3>3, <3>4
  <2>4. CASE state[k] \notin {"pending", "completed"}
    <3>1. k > s
      BY <1>5, <1>6, <2>1, <2>4 DEF Front, DoneBefore
    <3>2. ~Before(w, s)
      BY <1>5, <1>6, <2>1, <3>1 DEF Before
    <3>3. QED
      BY <1>4, <2>1, <3>2
  <2>5. QED
    BY <2>2, <2>3, <2>4
<1>c. ASSUME k \in Step, NEW v \in {"completed", "userwait", "error", "failed", "processing"},
             Log(k, v), UNCHANGED <<setupComplete, lost, queue>>,
             v = "completed" => /\ worker'[w].pc \in {"load", "finish"}
                                /\ worker'[w].at = k + 1
      PROVE  \/ queue' > 0
             \/ \E x \in Workers : Before(x, s)'
             \/ \E q \in Request : WillQueue(q)'
  <2>1. state' = [state EXCEPT ![k] = v]
    BY <1>c DEF Log
  <2>2. k # s
    BY <1>1, <1>c, <2>1 DEF Front
  <2>3. CASE k < s
    <3>1. v = "completed"
      BY <1>1, <1>c, <2>1, <2>3 DEF Front, DoneBefore
    <3>2. k + 1 <= s
      BY <1>5, <1>6, <1>c, <2>3
    <3>3. QED
      BY <1>3, <1>c, <3>1, <3>2 DEF Before
  <2>4. CASE k > s
    <3>1. Front(s)
      BY <1>1, <1>5, <1>6, <1>c, <2>1, <2>4 DEF Front, DoneBefore, Step
    <3>2. ~Before(w, s)
      BY <1>5, <1>6, <1>c, <2>4 DEF Before
    <3>3. QED
      BY <1>4, <1>c, <3>1, <3>2
  <2>5. QED
    BY <1>5, <1>6, <1>c, <2>2, <2>3, <2>4
<1>d. CASE Begin(w)
  BY <1>d, <1>1, <1>c DEF Begin, WorkerOK
<1>e. CASE Progress(w)
  BY <1>e, <1>1, <1>c DEF Progress, WorkerOK
<1>f. CASE Outcome(w)
  <2>1. k \in Step
    BY <1>f, <1>1 DEF Outcome, WorkerOK
  <2>2. PICK v \in {"completed", "userwait", "error"} :
          /\ Log(k, v)
          /\ worker' = [worker EXCEPT ![w] =
                          IF v = "completed" THEN Arrive(k + 1) ELSE Idle]
          /\ UNCHANGED <<setupComplete, lost, queue>>
    BY <1>f DEF Outcome
  <2>3. v = "completed" => /\ worker'[w].pc \in {"load", "finish"}
                           /\ worker'[w].at = k + 1
    BY <1>1, <1>6, <2>1, <2>2, ArriveType
  <2>4. QED
    BY <1>c, <2>1, <2>2, <2>3
<1>g. CASE Finish(w)
  BY <1>g DEF Finish
<1>h. CASE Announce(w)
  <2>1. Front(s) /\ ~setupComplete /\ ~lost /\ ~Before(w, s) /\ queue' = queue
    BY <1>h DEF Announce, NoLog, Front, DoneBefore, Before
  <2>2. QED
    BY <1>4, <2>1
<1>i. CASE Crash(w) \/ LoadRaises(w)
  BY <1>i DEF Crash, LoadRaises
<1>j. QED
  BY <1>a, <1>b, <1>d, <1>e, <1>f, <1>g, <1>h, <1>i DEF WorkerNext

(* Whatever the clicks, logins, workers and stale copies: unless an actor  *)
(* has died, or could not construct a step because TAS did not answer,     *)
(* since a task was last queued, a user whose setup is not complete never  *)
(* has a step to be executed, or a completion to be recorded, that nobody  *)
(* is coming for.                                                          *)
THEOREM BatonIsHeld == Spec => []BatonHeld
<1>1. Init => BatonHeld
  BY DEF Init, BatonHeld
<1>2. TypeOK /\ BatonHeld /\ [Next]_vars => BatonHeld'
  <2> SUFFICES ASSUME TypeOK, BatonHeld, [Next]_vars PROVE BatonHeld'
    OBVIOUS
  <2>1. CASE Next
    BY <2>1, BatonRequest, BatonWorker DEF Next
  <2>2. CASE UNCHANGED vars
    BY <2>2 DEF vars, BatonHeld, Front, DoneBefore, Before, WillQueue
  <2>3. QED
    BY <2>1, <2>2
<1>3. QED
  BY <1>1, <1>2, TypeInit, TypeStep, PTL DEF Spec

-----------------------------------------------------------------------------
(***************************************************************************)
(* No step stays in PROCESSING by itself                                   *)
(***************************************************************************)

(* Who answers for a step in PROCESSING. *)
Owned(s) ==
  \/ \E w \in Workers : worker[w].pc = "process" /\ worker[w].at = s
  \/ \E r \in Request : WillSettle(r, s)
  \/ s \in interrupted

(* A request that writes PROCESSING again, from its old copy, is about to  *)
(* write something else.                                                   *)
LEMMA OwnedRequest ==
  ASSUME TypeOK, ProcessingOwned, NEW r \in Request,
         Authenticate(r) \/ Press(r) \/ ServeRequest(r)
  PROVE  ProcessingOwned'
<1> SUFFICES ASSUME NEW s \in Step, state'[s] = "processing"
             PROVE  Owned(s)'
  BY DEF ProcessingOwned, Owned
<1> DEFINE k == request[r].step
<1>1. /\ request \in [Request -> RequestRecords]
      /\ state \in [Step -> SetupState \cup {NoEvent}]
      /\ RequestOK(r)
  BY DEF TypeOK
<1>2. /\ UNCHANGED worker
      /\ \A q \in Request : q # r => request'[q] = request[q]
  BY <1>1 DEF Authenticate, Press, ServeRequest, LookForEvents, LookRaises, PrepareFresh,
     CheckSetup, LoadStep, LoadStepRaises, CompleteStep, LogAction, RejectAction, Unset,
     AnnounceReset, Reprepare, ClientAction, AddToProject, TrackerRefuses, Grant,
     Deny, DenyRaises, Enqueue, OnlyRequests, Goto
<1>3. ASSUME state'[s] = state[s],
             s \in interrupted => s \in interrupted',
             WillSettle(r, s) => WillSettle(r, s)' \/ s \in interrupted'
      PROVE  Owned(s)'
  <2>1. Owned(s)
    BY <1>3 DEF ProcessingOwned, Owned
  <2>2. ASSUME NEW q \in Request, q # r, WillSettle(q, s) PROVE WillSettle(q, s)'
    BY <1>2, <2>2 DEF WillSettle
  <2>3. QED
    BY <1>2, <1>3, <2>1, <2>2 DEF Owned
<1>4. ASSUME k \in Step, NEW v \in SetupState, v # "processing", Log(k, v)
      PROVE  Owned(s)'
  <2>1. s # k /\ state'[s] = state[s] /\ (s \in interrupted => s \in interrupted')
    BY <1>1, <1>4 DEF Log
  <2>2. ~WillSettle(r, s)
    BY <2>1 DEF WillSettle
  <2>3. QED
    BY <1>3, <2>1, <2>2
<1>5. WillSettle(r, s)' => Owned(s)'
  BY DEF Owned
<1>6. ASSUME NoLog, WillSettle(r, s) => WillSettle(r, s)'
      PROVE  Owned(s)'
  <2>1. state'[s] = state[s] /\ interrupted' = interrupted
    BY <1>6 DEF NoLog
  <2>2. QED
    BY <1>3, <1>6, <2>1
<1>a. CASE \/ Authenticate(r) \/ Press(r) \/ LookForEvents(r) \/ CheckSetup(r)
           \/ LoadStep(r) \/ RejectAction(r) \/ Enqueue(r)
  <2>1. ~WillSettle(r, s)
    BY <1>a DEF Authenticate, Press, LookForEvents, CheckSetup, LoadStep,
       RejectAction, Enqueue, WillSettle
  <2>2. NoLog
    BY <1>a DEF Authenticate, Press, LookForEvents, CheckSetup, LoadStep,
       RejectAction, Enqueue
  <2>3. QED
    BY <1>6, <2>1, <2>2
<1>n. CASE LookRaises(r) \/ LoadStepRaises(r)
  <2>1. /\ ~WillSettle(r, s)
        /\ state'[s] = state[s] /\ (s \in interrupted => s \in interrupted')
    BY <1>n DEF LookRaises, LoadStepRaises, NoLog, WillSettle
  <2>2. QED
    BY <1>3, <2>1
<1>b. CASE PrepareFresh(r)
  BY <1>1, <1>4, <1>b DEF PrepareFresh, RequestOK, SetupState
<1>c. CASE CompleteStep(r)
  BY <1>1, <1>4, <1>c DEF CompleteStep, RequestOK, SetupState
<1>d. CASE LogAction(r)
  <2>1. s = k => WillSettle(r, s)'
    BY <1>1, <1>d DEF LogAction, WillSettle, Goto, RequestRecords
  <2>2. CASE s # k
    <3>1. state'[s] = state[s] /\ (s \in interrupted => s \in interrupted')
      BY <1>1, <1>d, <2>2 DEF LogAction, Log
    <3>2. ~WillSettle(r, s)
      BY <2>2 DEF WillSettle
    <3>3. QED
      BY <1>3, <3>1, <3>2
  <2>3. QED
    BY <1>5, <2>1, <2>2
<1>e. CASE Unset(r) \/ AnnounceReset(r)
  <2>1. NoLog /\ (WillSettle(r, s) => WillSettle(r, s)')
    BY <1>1, <1>e DEF Unset, AnnounceReset, Goto, WillSettle, RequestRecords
  <2>2. QED
    BY <1>6, <2>1
<1>f. CASE Reprepare(r)
  BY <1>1, <1>4, <1>f DEF Reprepare, RequestOK, SetupState
<1>g. CASE ClientAction(r)
  <2>1. k \in Step
    BY <1>1, <1>g DEF ClientAction, RequestOK
  <2>2. CASE ClientResult(r) = {}
    <3>1. Ignore(k)
      BY <1>g, <2>2 DEF ClientAction
    <3>2. /\ state'[s] = state[s]
          /\ s \in interrupted => s \in interrupted'
          /\ WillSettle(r, s) => s \in interrupted'
      BY <3>1 DEF Ignore, WillSettle
    <3>3. QED
      BY <1>3, <3>2
  <2>3. CASE ClientResult(r) # {}
    <3>1. PICK v \in ClientResult(r) : Log(k, v)
      BY <1>g, <2>3 DEF ClientAction
    <3>2. v \in SetupState /\ v # "processing"
      BY <3>1 DEF ClientResult, SetupState
    <3>3. QED
      BY <1>4, <2>1, <3>1, <3>2
  <2>4. QED
    BY <2>2, <2>3
<1>h. CASE AddToProject(r)
  <2>1. k \in Step
    BY <1>1, <1>h DEF AddToProject, RequestOK
  <2>2. CASE NoLog /\ Goto(r, "closing")
    <3>1. WillSettle(r, s) => WillSettle(r, s)'
      BY <1>1, <2>2 DEF Goto, WillSettle, RequestRecords
    <3>2. QED
      BY <1>6, <2>2, <3>1
  <2>3. CASE Log(k, "completed") \/ Log(k, "failed")
    BY <1>4, <2>1, <2>3 DEF SetupState
  <2>4. QED
    BY <1>h, <2>2, <2>3 DEF AddToProject
<1>i. CASE TrackerRefuses(r)
  BY <1>1, <1>4, <1>i DEF TrackerRefuses, RequestOK, SetupState
<1>j. CASE Grant(r)
  BY <1>1, <1>4, <1>j DEF Grant, RequestOK, SetupState
<1>k. CASE Deny(r)
  BY <1>1, <1>4, <1>k DEF Deny, RequestOK, SetupState
<1>l. CASE DenyRaises(r)
  <2>1. /\ state'[s] = state[s]
        /\ s \in interrupted => s \in interrupted'
        /\ WillSettle(r, s) => s \in interrupted'
    BY <1>l DEF DenyRaises, WillSettle
  <2>2. QED
    BY <1>3, <2>1
<1>m. QED
  BY <1>a, <1>b, <1>c, <1>d, <1>e, <1>f, <1>g, <1>h, <1>i, <1>j, <1>k, <1>l, <1>n
     DEF ServeRequest

(* A task writes PROCESSING at its own position only, and leaves it there  *)
(* only by dying. *)
LEMMA OwnedWorker ==
  ASSUME TypeOK, ProcessingOwned, NEW w \in Workers, WorkerNext(w) \/ Crash(w)
  PROVE  ProcessingOwned'
<1> SUFFICES ASSUME NEW s \in Step, state'[s] = "processing"
             PROVE  Owned(s)'
  BY DEF ProcessingOwned, Owned
<1> DEFINE k == worker[w].at
<1>1. /\ worker \in [Workers -> WorkerRecords]
      /\ state \in [Step -> SetupState \cup {NoEvent}]
      /\ WorkerOK(w)
  BY DEF TypeOK
<1>2. /\ UNCHANGED request
      /\ \A x \in Workers : x # w => worker'[x] = worker[x]
  BY <1>1 DEF WorkerNext, Take, Load, LoadRaises, Begin, Progress, Outcome, Finish, Announce,
     Crash, OnlyWorkers
<1>3. ASSUME state'[s] = state[s],
             s \in interrupted => s \in interrupted',
             worker[w].pc = "process" /\ k = s => s \in interrupted'
      PROVE  Owned(s)'
  <2>1. Owned(s)
    BY <1>3 DEF ProcessingOwned, Owned
  <2>2. ASSUME NEW q \in Request, WillSettle(q, s) PROVE WillSettle(q, s)'
    BY <1>2, <2>2 DEF WillSettle
  <2>3. QED
    BY <1>2, <1>3, <2>1, <2>2 DEF Owned
<1>4. ASSUME k \in Step, NEW v \in SetupState, Log(k, v), s # k
      PROVE  Owned(s)'
  BY <1>1, <1>3, <1>4 DEF Log
<1>5. ASSUME worker'[w].pc = "process", worker'[w].at = s
      PROVE  Owned(s)'
  BY <1>5 DEF Owned
<1>a. CASE Take(w) \/ Load(w) \/ LoadRaises(w) \/ Finish(w) \/ Announce(w)
  <2>1. NoLog /\ worker[w].pc # "process"
    BY <1>a DEF Take, Load, LoadRaises, Finish, Announce
  <2>2. QED
    BY <1>3, <2>1 DEF NoLog
<1>b. CASE Begin(w)
  <2>1. /\ k \in Step /\ Log(k, "processing")
        /\ worker'[w].pc = "process" /\ worker'[w].at = k
    BY <1>1, <1>b DEF Begin, WorkerOK
  <2>2. QED
    BY <1>4, <1>5, <2>1 DEF SetupState
<1>c. CASE Progress(w)
  <2>1. PICK v \in SetupState : Log(k, v)
    BY <1>c DEF Progress, SetupState
  <2>2. k \in Step /\ worker'[w].pc = "process" /\ worker'[w].at = k
    BY <1>1, <1>c DEF Progress, WorkerOK, WorkerRecords
  <2>3. QED
    BY <1>4, <1>5, <2>1, <2>2
<1>d. CASE Outcome(w)
  <2>1. k \in Step
    BY <1>1, <1>d DEF Outcome, WorkerOK
  <2>2. PICK v \in {"completed", "userwait", "error"} : Log(k, v)
    BY <1>d DEF Outcome
  <2>3. s # k
    BY <1>1, <2>1, <2>2 DEF Log
  <2>4. QED
    BY <1>4, <2>1, <2>2, <2>3 DEF SetupState
<1>e. CASE Crash(w)
  BY <1>3, <1>e DEF Crash
<1>f. QED
  BY <1>a, <1>b, <1>c, <1>d, <1>e DEF WorkerNext

(* A step that shows PROCESSING is being processed, is about to get its    *)
(* final row, or was deserted half-written: nothing else the actors do,    *)
(* from however old a copy, makes a step hang.                             *)
THEOREM ProcessingIsOwned == Spec => []ProcessingOwned
<1>1. Init => ProcessingOwned
  BY DEF Init, ProcessingOwned, NoEvent
<1>2. TypeOK /\ ProcessingOwned /\ [Next]_vars => ProcessingOwned'
  <2> SUFFICES ASSUME TypeOK, ProcessingOwned, [Next]_vars PROVE ProcessingOwned'
    OBVIOUS
  <2>1. CASE Next
    BY <2>1, OwnedRequest, OwnedWorker DEF Next
  <2>2. CASE UNCHANGED vars
    BY <2>2 DEF vars, ProcessingOwned, WillSettle
  <2>3. QED
    BY <2>1, <2>2
<1>3. QED
  BY <1>1, <1>2, TypeInit, TypeStep, PTL DEF Spec

-----------------------------------------------------------------------------
(***************************************************************************)
(* Nobody is forgotten                                                     *)
(***************************************************************************)

(* A login that is still to look at step s. *)
WillPrepare(r, s) == request[r].pc \in {"prepare", "fresh"} /\ request[r].step <= s

(* A step without a row has a login coming that will prepare it, or a      *)
(* login has given up before it.                                           *)
Prepared ==
  hasProfile => \A s \in Step : state[s] = NoEvent =>
    s \in interrupted \/ \E r \in Request : WillPrepare(r, s)

(* Nobody takes rows away: a step that has one keeps one, and one that was *)
(* left without is remembered until it gets one.                           *)
LEMMA RowsStay ==
  ASSUME TypeOK, Next, NEW s \in Step, state'[s] = NoEvent
  PROVE  state[s] = NoEvent /\ (s \in interrupted => s \in interrupted')
<1> USE DEF NoEvent
<1> DEFINE Kept == state[s] = NoEvent /\ (s \in interrupted => s \in interrupted')
<1>1. state \in [Step -> SetupState \cup {NoEvent}]
  BY DEF TypeOK
<1>2. ASSUME NEW k, NEW v, v # NoEvent, Log(k, v) PROVE Kept
  BY <1>1, <1>2 DEF Log
<1>3. ASSUME UNCHANGED state, s \in interrupted => s \in interrupted' PROVE Kept
  BY <1>3
<1>4. ASSUME NEW w \in Workers, WorkerNext(w) \/ Crash(w) PROVE Kept
  <2>1. CASE \/ Take(w) \/ Load(w) \/ LoadRaises(w) \/ Finish(w) \/ Announce(w)
             \/ Crash(w)
    BY <1>3, <2>1 DEF Take, Load, LoadRaises, Finish, Announce, Crash, NoLog
  <2>2. CASE Begin(w)
    BY <1>2, <2>2 DEF Begin
  <2>3. CASE Progress(w)
    BY <1>2, <2>3 DEF Progress
  <2>4. CASE Outcome(w)
    BY <1>2, <2>4 DEF Outcome
  <2>5. QED
    BY <1>4, <2>1, <2>2, <2>3, <2>4 DEF WorkerNext
<1>5. ASSUME NEW r \in Request, Authenticate(r) \/ Press(r) \/ ServeRequest(r)
      PROVE  Kept
  <2>1. CASE \/ Authenticate(r) \/ Press(r) \/ LookForEvents(r) \/ CheckSetup(r)
             \/ LoadStep(r) \/ RejectAction(r) \/ Unset(r) \/ AnnounceReset(r)
             \/ DenyRaises(r) \/ LookRaises(r) \/ LoadStepRaises(r) \/ Enqueue(r)
    BY <1>3, <2>1 DEF Authenticate, Press, LookForEvents, CheckSetup, LoadStep,
       RejectAction, Unset, AnnounceReset, DenyRaises, LookRaises, LoadStepRaises,
       Enqueue, NoLog
  <2>2. CASE PrepareFresh(r) \/ CompleteStep(r) \/ Reprepare(r)
    BY <1>2, <2>2 DEF PrepareFresh, CompleteStep, Reprepare
  <2>3. CASE LogAction(r)
    BY <1>2, <2>3 DEF LogAction
  <2>4. CASE ClientAction(r)
    <3>1. \A v \in ClientResult(r) : v # NoEvent
      BY DEF ClientResult
    <3>2. QED
      BY <1>2, <1>3, <2>4, <3>1 DEF ClientAction, Ignore
  <2>5. CASE AddToProject(r)
    BY <1>2, <1>3, <2>5 DEF AddToProject, NoLog
  <2>6. CASE TrackerRefuses(r) \/ Grant(r) \/ Deny(r)
    BY <1>2, <2>6 DEF TrackerRefuses, Grant, Deny
  <2>7. QED
    BY <1>5, <2>1, <2>2, <2>3, <2>4, <2>5, <2>6 DEF ServeRequest
<1>6. QED
  BY <1>4, <1>5 DEF Next

LEMMA PreparedStep == TypeOK /\ Prepared /\ [Next]_vars => Prepared'
<1> SUFFICES ASSUME TypeOK, Prepared, [Next]_vars PROVE Prepared'
  OBVIOUS
<1>1. CASE UNCHANGED vars
  BY <1>1 DEF vars, Prepared, WillPrepare
<1>2. CASE Next
  <2> SUFFICES ASSUME hasProfile', NEW s \in Step, state'[s] = NoEvent
               PROVE  s \in interrupted' \/ \E r \in Request : WillPrepare(r, s)'
    BY DEF Prepared
  <2>1. state[s] = NoEvent /\ (s \in interrupted => s \in interrupted')
    BY <1>2, RowsStay
  <2>2. /\ request \in [Request -> RequestRecords]
        /\ state \in [Step -> SetupState \cup {NoEvent}]
    BY DEF TypeOK
  <2>3. s \in Nat /\ 1 <= s /\ s <= NSteps /\ NSteps \in Nat
    BY NStepsAssumption DEF Step
  <2>4. ASSUME NEW w \in Workers, WorkerNext(w) \/ Crash(w)
        PROVE  UNCHANGED <<hasProfile, request>>
    BY <2>4 DEF WorkerNext, Take, Load, LoadRaises, Begin, Progress, Outcome, Finish, Announce,
       Crash, OnlyWorkers
  <2>5. CASE UNCHANGED <<hasProfile, request>>
    BY <2>1, <2>5 DEF Prepared, WillPrepare
  <2>6. ASSUME NEW r \in Request, Authenticate(r) \/ Press(r) \/ ServeRequest(r)
        PROVE  s \in interrupted' \/ \E q \in Request : WillPrepare(q, s)'
    <3> DEFINE k == request[r].step
    <3>1. \A q \in Request : q # r => request'[q] = request[q]
      BY <2>2, <2>6 DEF Authenticate, Press, ServeRequest, LookForEvents, LookRaises,
         PrepareFresh, CheckSetup, LoadStep, LoadStepRaises, CompleteStep, LogAction, RejectAction,
         Unset, AnnounceReset, Reprepare, ClientAction, AddToProject,
         TrackerRefuses, Grant, Deny, DenyRaises, Enqueue, Goto
    <3>2. CASE Authenticate(r)
      <4>1. request'[r].pc = "prepare" /\ request'[r].step = 1
        BY <2>2, <3>2 DEF Authenticate
      <4>2. QED
        BY <2>3, <4>1 DEF WillPrepare
    <3>3. ASSUME UNCHANGED hasProfile, WillPrepare(r, s) => WillPrepare(r, s)'
          PROVE  s \in interrupted' \/ \E q \in Request : WillPrepare(q, s)'
      <4>1. CASE s \in interrupted
        BY <2>1, <4>1
      <4>2. CASE s \notin interrupted
        <5>1. PICK q \in Request : WillPrepare(q, s)
          BY <2>1, <3>3, <4>2 DEF Prepared
        <5>2. q # r => WillPrepare(q, s)'
          BY <3>1, <5>1 DEF WillPrepare
        <5>3. QED
          BY <3>3, <5>1, <5>2
      <4>3. QED
        BY <4>1, <4>2
    <3>4. ASSUME k \in Step, k # s, request' = [request EXCEPT ![r] = NextToPrepare(r)],
                 UNCHANGED hasProfile
          PROVE  s \in interrupted' \/ \E q \in Request : WillPrepare(q, s)'
      <4>1. k \in Nat /\ request'[r] = NextToPrepare(r)
        BY <2>2, <3>4, NStepsAssumption DEF Step
      <4>2. k < s => /\ NextToPrepare(r).pc = "prepare"
                     /\ NextToPrepare(r).step = k + 1
        BY <2>2, <2>3, <4>1 DEF NextToPrepare, RequestRecords
      <4>3. WillPrepare(r, s) => k < s
        BY <2>3, <3>4, <4>1 DEF WillPrepare
      <4>4. k < s => k + 1 <= s
        BY <2>3, <4>1
      <4>5. WillPrepare(r, s) => WillPrepare(r, s)'
        BY <4>1, <4>2, <4>3, <4>4 DEF WillPrepare
      <4>6. QED
        BY <3>3, <3>4, <4>5
    <3>5. RequestOK(r)
      BY DEF TypeOK
    <3>6. CASE LookForEvents(r)
      <4>1. CASE state[k] = NoEvent
        <5>1. request'[r].pc = "fresh" /\ request'[r].step = k
          BY <2>2, <3>6, <4>1 DEF LookForEvents, Goto, RequestRecords
        <5>2. WillPrepare(r, s) => WillPrepare(r, s)'
          BY <5>1 DEF WillPrepare
        <5>3. QED
          BY <3>3, <3>6, <5>2 DEF LookForEvents
      <4>2. CASE state[k] # NoEvent
        BY <2>1, <3>4, <3>5, <3>6, <4>2 DEF LookForEvents, RequestOK
      <4>3. QED
        BY <4>1, <4>2
    <3>7. CASE PrepareFresh(r)
      <4>1. k \in Step /\ state' = [state EXCEPT ![k] = "pending"]
        BY <3>5, <3>7 DEF PrepareFresh, RequestOK, Log
      <4>2. k # s
        BY <2>2, <4>1 DEF NoEvent
      <4>3. QED
        BY <3>4, <3>7, <4>1, <4>2 DEF PrepareFresh
    <3>a. CASE LookRaises(r)
      <4>1. WillPrepare(r, s) => s \in interrupted'
        BY <2>1, <3>a DEF LookRaises, WillPrepare
      <4>2. QED
        BY <3>3, <3>a, <4>1 DEF LookRaises
    <3>8. CASE ~(Authenticate(r) \/ LookForEvents(r) \/ LookRaises(r) \/ PrepareFresh(r))
      <4>1. UNCHANGED hasProfile /\ request[r].pc \notin {"prepare", "fresh"}
        BY <2>6, <3>8 DEF Press, ServeRequest, CheckSetup, LoadStep, LoadStepRaises, CompleteStep,
           LogAction, RejectAction, Unset, AnnounceReset, Reprepare, ClientAction,
           AddToProject, TrackerRefuses, Grant, Deny, DenyRaises, Enqueue
      <4>2. ~WillPrepare(r, s)
        BY <4>1 DEF WillPrepare
      <4>3. QED
        BY <3>3, <4>1, <4>2
    <3>9. QED
      BY <3>2, <3>6, <3>7, <3>8, <3>a
  <2>7. QED
    BY <1>2, <2>4, <2>5, <2>6 DEF Next
<1>3. QED
  BY <1>1, <1>2

(* A list that is not all COMPLETED has a first step that is not. *)
LEMMA FirstOpenStep ==
  ASSUME NEW s \in Step, state[s] # "completed"
  PROVE  \E k \in Step : state[k] # "completed" /\ DoneBefore(k)
<1> DEFINE T == {k \in Step : state[k] # "completed"}
<1> DEFINE R == OpToRel(<, Nat)
<1>1. T \subseteq Nat /\ T # {}
  BY NStepsAssumption DEF Step
<1>2. PICK k \in T : \A j \in T : <<j, k>> \notin R
  <2>1. IsWellFoundedOn(R, Nat)
    BY NatLessThanWellFounded
  <2> HIDE DEF R, T
  <2>2. QED
    BY <1>1, <2>1, WFMin
<1>3. \A j \in T : ~(j < k)
  BY <1>1, <1>2 DEF OpToRel
<1>4. QED
  BY <1>2, <1>3 DEF DoneBefore

(* What is said of a moving portal says enough of one at rest: the first   *)
(* step that is not COMPLETED has a row, is nobody's to execute, and is in *)
(* nobody's hands.                                                         *)
LEMMA AtRestSomebodyIsAsked ==
  ASSUME TypeOK, BatonHeld, ProcessingOwned, Prepared
  PROVE  NobodyForgotten
<1> SUFFICES ASSUME Quiet, hasProfile, ~setupComplete, ~lost
             PROVE  \E s \in Step :
                      /\ DoneBefore(s)
                      /\ \/ state[s] \in {"userwait", "staffwait", "failed", "error"}
                         \/ s \in interrupted
  BY DEF NobodyForgotten
<1>1. \A s \in 1..(NSteps + 1) : ~Front(s)
  <2>1. queue = 0
    BY DEF Quiet
  <2>2. \A w \in Workers, s \in 1..(NSteps + 1) : ~Before(w, s)
    BY DEF Quiet, Before
  <2>3. \A r \in Request : ~WillQueue(r)
    BY DEF Quiet, WillQueue
  <2>4. QED
    BY <2>1, <2>2, <2>3 DEF BatonHeld
<1>2. Step \subseteq 1..(NSteps + 1) /\ NSteps + 1 \in 1..(NSteps + 1)
  BY NStepsAssumption DEF Step
<1>3. PICK s \in Step : state[s] # "completed" /\ DoneBefore(s)
  <2>1. ~Front(NSteps + 1) /\ NSteps + 1 \notin Step
    BY <1>1, <1>2, NStepsAssumption DEF Step
  <2>2. PICK k \in Step : state[k] # "completed"
    BY <2>1 DEF Front, DoneBefore
  <2>3. QED
    BY <2>2, FirstOpenStep
<1>4. state[s] # "pending"
  BY <1>1, <1>2, <1>3 DEF Front
<1>5. state[s] = NoEvent => s \in interrupted
  <2>1. \A r \in Request : ~WillPrepare(r, s)
    BY DEF Quiet, WillPrepare
  <2>2. QED
    BY <2>1 DEF Prepared
<1>6. state[s] = "processing" => s \in interrupted
  <2>1. \A w \in Workers : worker[w].pc # "process"
    BY DEF Quiet
  <2>2. \A r \in Request : ~WillSettle(r, s)
    BY DEF Quiet, WillSettle
  <2>3. QED
    BY <2>1, <2>2 DEF ProcessingOwned
<1>7. state[s] \in SetupState \cup {NoEvent}
  BY DEF TypeOK
<1>8. QED
  BY <1>3, <1>4, <1>5, <1>6, <1>7 DEF SetupState

(* When everything has come to rest, a user who is not through waits for a *)
(* person or sees a failure (or a step that an actor deserted half-written *)
(* or before it had a row), unless the last actor died or could not        *)
(* construct a step: no order of logins, tasks, confirmations and resets   *)
(* leaves a user in front of a step that nobody will ever run, and no      *)
(* error of TAS does so for longer than until a task is queued again.      *)
THEOREM NobodyIsForgotten == Spec => []NobodyForgotten
<1>1. Init => Prepared
  BY DEF Init, Prepared
<1>2. TypeOK /\ BatonHeld /\ ProcessingOwned /\ Prepared => NobodyForgotten
  BY AtRestSomebodyIsAsked
<1>3. QED
  BY <1>1, <1>2, PreparedStep, TypeCorrect, TypeInit, TypeStep, BatonIsHeld,
     ProcessingIsOwned, PTL DEF Spec

=============================================================================
