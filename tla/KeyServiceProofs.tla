-------------------------- MODULE KeyServiceProofs --------------------------
(***************************************************************************)
(* Proofs about KeyService: its types, and the bookkeeping of the answers, *)
(* for any set of systems, workers, callbacks and staff actions.           *)
(***************************************************************************)
EXTENDS KeyService, TLAPS

(* Callbacks work on copies.  What makes the bookkeeping right is that the *)
(* copies are sound as well, and that a callback which has not marked yet  *)
(* holds an answer that was given.                                         *)
HookOK(h) ==
  /\ Sound(hook[h].data)
  /\ hook[h].pc \in {"load", "mark"} =>
       /\ hook[h].call \in calls
       /\ <<hook[h].call, hook[h].status>> \in reported
  /\ hook[h].pc = "mark" /\ hook[h].state = "completed" =>
       hook[h].data.requested = {} /\ hook[h].data.failed = {}
  /\ hook[h].pc = "verdict" => hook[h].data.requested = {}

Closed == row.state = "completed" => row.data.requested = {} /\ row.data.failed = {}

IInv ==
  /\ TypeOK
  /\ Accounted
  /\ Closed
  /\ \A h \in Hooks : HookOK(h)

LEMMA NoDataOK == NoData \in Data /\ Sound(NoData) /\ NoData.requested = {} /\ NoData.failed = {}
BY DEF NoData, Data, Sound

LEMMA DoneOK ==
  /\ Unsent \in HookRecords /\ Done \in HookRecords
  /\ Unsent.data = NoData /\ Done.data = NoData
  /\ Unsent.pc = "unsent" /\ Done.pc = "done"
BY NoDataOK DEF Unsent, Done, HookRecords, Status, States

(* What mark_system does to the lists of its copy: a copy that is sound    *)
(* stays sound when the answer entered was given.                          *)
LEMMA MarkSound ==
  ASSUME NEW d \in Data, NEW c \in Call, NEW v \in Status,
         Sound(d), c \in calls, <<c, v>> \in reported
  PROVE  /\ Mark(d, c.system, v) \in Data
         /\ Sound(Mark(d, c.system, v))
<1> DEFINE s == c.system
<1>1. s \in Systems /\ Said(s, v)
  BY DEF Call, Said
<1>2. CASE s \in d.requested /\ v = "successful"
  <2>1. Mark(d, s, v) = [d EXCEPT !.requested = @ \ {s}, !.successful = @ \cup {s}]
    BY <1>2 DEF Mark
  <2> DEFINE r == Mark(d, s, v)
  <2>2. /\ r.known = d.known /\ r.requested = d.requested \ {s}
        /\ r.failed = d.failed /\ r.successful = d.successful \cup {s}
    BY <2>1 DEF Data
  <2>3. r \in Data
    BY <1>1, <2>1 DEF Data
  <2>4. Sound(r)
    <3> HIDE DEF r
    <3>1. QED
      BY <1>1, <1>2, <2>2 DEF Sound
  <2>5. QED
    BY <2>3, <2>4
<1>3. CASE s \in d.requested /\ v # "successful"
  <2>1. v = "failed" /\ Mark(d, s, v) = [d EXCEPT !.requested = @ \ {s}, !.failed = @ \cup {s}]
    BY <1>3 DEF Mark, Status
  <2> DEFINE r == Mark(d, s, v)
  <2>2. /\ r.known = d.known /\ r.requested = d.requested \ {s}
        /\ r.failed = d.failed \cup {s} /\ r.successful = d.successful
    BY <2>1 DEF Data
  <2>3. r \in Data
    BY <1>1, <2>1 DEF Data
  <2>4. Sound(r)
    <3> HIDE DEF r
    <3>1. QED
      BY <1>1, <1>3, <2>1, <2>2 DEF Sound
  <2>5. QED
    BY <2>3, <2>4
<1>4. CASE s \notin d.requested /\ s \in d.failed /\ v = "successful"
  <2>1. Mark(d, s, v) = [d EXCEPT !.failed = @ \ {s}, !.successful = @ \cup {s}]
    BY <1>4 DEF Mark
  <2> DEFINE r == Mark(d, s, v)
  <2>2. /\ r.known = d.known /\ r.requested = d.requested
        /\ r.failed = d.failed \ {s} /\ r.successful = d.successful \cup {s}
    BY <2>1 DEF Data
  <2>3. r \in Data
    BY <1>1, <2>1 DEF Data
  <2>4. Sound(r)
    <3> HIDE DEF r
    <3>1. QED
      BY <1>1, <1>4, <2>2 DEF Sound
  <2>5. QED
    BY <2>3, <2>4
<1>5. CASE s \notin d.requested /\ ~(s \in d.failed /\ v = "successful")
  BY <1>5 DEF Mark
<1>6. QED
  BY <1>2, <1>3, <1>4, <1>5

(* A copy that is closed already has nothing to enter. *)
LEMMA MarkClosed ==
  ASSUME NEW d, NEW s, NEW v, d.requested = {}, d.failed = {}
  PROVE  Mark(d, s, v) = d
BY DEF Mark

(* What was said stays said. *)
LEMMA SaidGrows ==
  ASSUME calls \subseteq calls', reported \subseteq reported'
  PROVE  \A s, v : Said(s, v) => Said(s, v)'
BY DEF Said

LEMMA TypeInit == Init => TypeOK
<1> SUFFICES ASSUME Init PROVE TypeOK
  OBVIOUS
<1>1. row \in [state : States, data : Data]
  BY NoDataOK DEF Init, States
<1>2. worker \in [Workers -> WorkerRecords]
  BY MaxProcessesAssumption DEF Init, WorkerRecords, Idle
<1>3. hook \in [Hooks -> HookRecords] /\ \A h \in Hooks : hook[h].pc = "unsent"
  BY DoneOK DEF Init
<1>4. request \in [Clicks -> RequestRecords]
  BY DEF Init, RequestRecords, States
<1>5. \A w \in Workers : worker[w].pc = "idle"
  BY DEF Init, Idle
<1>6. /\ runs \in 0..MaxProcesses /\ queue \in Nat
      /\ calls \in SUBSET Call /\ reported \in SUBSET (Call \X Status)
  BY MaxProcessesAssumption DEF Init
<1>7. setupComplete \in BOOLEAN
  BY DEF Init
<1>8. QED
  BY <1>1, <1>2, <1>3, <1>4, <1>5, <1>6, <1>7 DEF TypeOK

LEMMA InvInit == Init => IInv
<1> SUFFICES ASSUME Init PROVE IInv
  OBVIOUS
<1>1. Accounted /\ Closed
  BY NoDataOK DEF Init, Accounted, Closed
<1>2. \A h \in Hooks : HookOK(h)
  BY NoDataOK, DoneOK DEF Init, HookOK
<1>3. QED
  BY <1>1, <1>2, TypeInit DEF IInv

-----------------------------------------------------------------------------
(***************************************************************************)
(* Celery                                                                  *)
(***************************************************************************)

LEMMA WorkerType ==
  ASSUME TypeOK, NEW w \in Workers, WorkerNext(w)
  PROVE  TypeOK'
<1>1. /\ worker[w] \in WorkerRecords /\ worker \in [Workers -> WorkerRecords]
      /\ row \in [state : States, data : Data] /\ queue \in Nat
      /\ runs \in 0..MaxProcesses /\ calls \in SUBSET Call
      /\ worker[w].pc \in {"test", "handler", "call"} => worker[w].run \in 1..MaxProcesses
  BY DEF TypeOK
<1>2. Idle \in WorkerRecords /\ Idle.pc = "idle" /\ Idle.run = 0
  BY MaxProcessesAssumption DEF Idle, WorkerRecords
<1>3. UNCHANGED <<hook, request, reported>>
  BY DEF WorkerNext, Take, Load, Begin, ListRaises, TestSystems, TestUnreachable,
     HandlerRaises, CallReactor, ReactorRaises, LogRequested, Finish, OnlyWorkers
<1>4. queue' \in Nat
  <2>1. CASE Take(w)
    BY <1>1, <2>1 DEF Take
  <2>2. CASE ~Take(w)
    BY <1>1, <2>2 DEF WorkerNext, Load, Begin, ListRaises, TestSystems,
       TestUnreachable, HandlerRaises, CallReactor, ReactorRaises, LogRequested, Finish
  <2>3. QED
    BY <2>1, <2>2
<1>5. setupComplete' \in BOOLEAN
  BY DEF TypeOK, WorkerNext, Take, Load, Begin, ListRaises, TestSystems,
     TestUnreachable, HandlerRaises, CallReactor, ReactorRaises, LogRequested, Finish
<1>6. row' \in [state : States, data : Data]
  <2>1. \A s \in SUBSET Systems : Asked(s) \in Data
    BY DEF Asked, Data
  <2>2. worker[w].wanted \in SUBSET Systems
    BY <1>1 DEF WorkerRecords
  <2>3. CASE Begin(w) \/ ListRaises(w) \/ HandlerRaises(w)
    BY <2>3, NoDataOK DEF Begin, ListRaises, HandlerRaises, Log, States
  <2>4. CASE TestSystems(w)
    BY <1>1, <2>4, NoDataOK DEF TestSystems, Log, States
  <2>5. CASE ReactorRaises(w) \/ LogRequested(w)
    BY <2>1, <2>2, <2>5, NoDataOK DEF ReactorRaises, LogRequested, Log, States
  <2>6. CASE Take(w) \/ Load(w) \/ TestUnreachable(w) \/ CallReactor(w) \/ Finish(w)
    BY <1>1, <2>6 DEF Take, Load, TestUnreachable, CallReactor, Finish
  <2>7. QED
    BY <2>3, <2>4, <2>5, <2>6 DEF WorkerNext
<1>7. runs' \in 0..MaxProcesses
  <2>1. CASE Begin(w)
    BY <1>1, <2>1, MaxProcessesAssumption DEF Begin
  <2>2. CASE ~Begin(w)
    BY <1>1, <2>2 DEF WorkerNext, Take, Load, ListRaises, TestSystems,
       TestUnreachable, HandlerRaises, CallReactor, ReactorRaises, LogRequested, Finish
  <2>3. QED
    BY <2>1, <2>2
<1>8. calls' \in SUBSET Call
  <2>1. worker[w].left \in SUBSET Systems
    BY <1>1 DEF WorkerRecords
  <2>2. CASE CallReactor(w) \/ ReactorRaises(w)
    BY <1>1, <2>1, <2>2 DEF CallReactor, ReactorRaises, Call
  <2>3. CASE ~(CallReactor(w) \/ ReactorRaises(w))
    BY <1>1, <2>3 DEF WorkerNext, Take, Load, Begin, ListRaises, TestSystems,
       TestUnreachable, HandlerRaises, LogRequested, Finish
  <2>4. QED
    BY <2>2, <2>3
<1>9. /\ worker' \in [Workers -> WorkerRecords]
      /\ \A x \in Workers : worker'[x].pc \in {"test", "handler", "call"} => worker'[x].run \in 1..MaxProcesses
  <2>1. ASSUME NEW k \in WorkerRecords, worker' = [worker EXCEPT ![w] = k],
               k.pc \in {"test", "handler", "call"} => k.run \in 1..MaxProcesses
        PROVE  /\ worker' \in [Workers -> WorkerRecords]
               /\ \A x \in Workers :
                    worker'[x].pc \in {"test", "handler", "call"} => worker'[x].run \in 1..MaxProcesses
    BY <1>1, <2>1 DEF TypeOK
  <2>2. worker' = [worker EXCEPT ![w] = worker'[w]]
    BY <1>1 DEF WorkerNext, Take, Load, Begin, ListRaises, TestSystems,
       TestUnreachable, HandlerRaises, CallReactor, ReactorRaises, LogRequested, Finish
  <2>3. worker'[w] \in WorkerRecords
    <3>1. CASE Take(w) \/ Load(w) \/ ListRaises(w) \/ TestUnreachable(w) \/ HandlerRaises(w)
      BY <1>1, <1>2, <3>1 DEF Take, Load, ListRaises, TestUnreachable, HandlerRaises,
         WorkerRecords
    <3>2. CASE Begin(w)
      <4>1. runs + 1 \in 0..MaxProcesses
        BY <3>2, <1>1, MaxProcessesAssumption DEF Begin
      <4>2. QED
        BY <1>1, <1>2, <3>2, <4>1 DEF Begin, WorkerRecords
    <3>3. CASE TestSystems(w)
      BY <1>1, <1>2, <3>3 DEF TestSystems, WorkerRecords
    <3>4. CASE CallReactor(w) \/ ReactorRaises(w) \/ LogRequested(w) \/ Finish(w)
      BY <1>1, <1>2, <3>4 DEF CallReactor, ReactorRaises, LogRequested, Finish,
         WorkerRecords
    <3>5. QED
      BY <3>1, <3>2, <3>3, <3>4 DEF WorkerNext
  <2>4. worker'[w].pc \in {"test", "handler", "call"} => worker'[w].run \in 1..MaxProcesses
    <3>1. CASE Take(w) \/ Load(w) \/ ListRaises(w) \/ HandlerRaises(w)
               \/ ReactorRaises(w) \/ LogRequested(w) \/ Finish(w)
      BY <1>1, <1>2, <3>1 DEF Take, Load, ListRaises, HandlerRaises, ReactorRaises,
         LogRequested, Finish, WorkerRecords, Idle
    <3>5. CASE TestUnreachable(w)
      BY <1>1, <3>5 DEF TestUnreachable, WorkerRecords
    <3>6. CASE Begin(w)
      <4>1. worker'[w].run = runs + 1
        BY <1>1, <1>2, <3>6 DEF Begin, Idle
      <4>2. QED
        BY <1>1, <3>6, <4>1, MaxProcessesAssumption DEF Begin
    <3>2. CASE CallReactor(w)
      BY <1>1, <3>2 DEF CallReactor, WorkerRecords
    <3>3. CASE TestSystems(w)
      <4>1. worker[w].run \in 1..MaxProcesses
        BY <1>1, <3>3 DEF TestSystems
      <4>2. QED
        BY <1>1, <1>2, <3>3, <4>1 DEF TestSystems, WorkerRecords, Idle
    <3>7. QED
      BY <3>1, <3>2, <3>3, <3>5, <3>6 DEF WorkerNext
  <2>5. QED
    BY <2>1, <2>2, <2>3, <2>4
<1>10. QED
  BY <1>3, <1>4, <1>5, <1>6, <1>7, <1>8, <1>9 DEF TypeOK

(* Celery writes rows without lists, or with nothing but requested ones,   *)
(* and only ever adds calls.                                               *)
LEMMA WorkerInv ==
  ASSUME IInv, NEW w \in Workers, WorkerNext(w)
  PROVE  IInv'
<1>1. TypeOK'
  BY WorkerType DEF IInv
<1>2. /\ UNCHANGED <<hook, request, reported>>
      /\ calls \subseteq calls'
  BY DEF WorkerNext, Take, Load, Begin, ListRaises, TestSystems, TestUnreachable,
     HandlerRaises, CallReactor, ReactorRaises, LogRequested, Finish, OnlyWorkers
<1>3. \A s, v : Said(s, v) => Said(s, v)'
  BY <1>2, SaidGrows
<1>4. \/ UNCHANGED row
      \/ /\ row'.data.successful = {} /\ row'.data.failed = {}
         /\ row'.state = "completed" => row'.data.requested = {}
  <2>1. CASE Begin(w) \/ ListRaises(w) \/ HandlerRaises(w) \/ ReactorRaises(w)
    BY <2>1 DEF Begin, ListRaises, HandlerRaises, ReactorRaises, Log, NoData
  <2>2. CASE TestSystems(w)
    BY <2>2 DEF TestSystems, Log, NoData
  <2>3. CASE LogRequested(w)
    BY <2>3 DEF LogRequested, Log, Asked
  <2>4. CASE Take(w) \/ Load(w) \/ TestUnreachable(w) \/ CallReactor(w) \/ Finish(w)
    BY <2>4 DEF Take, Load, TestUnreachable, CallReactor, Finish
  <2>5. QED
    BY <2>1, <2>2, <2>3, <2>4 DEF WorkerNext
<1>5. Accounted'
  BY <1>3, <1>4 DEF IInv, Accounted, Sound
<1>6. Closed'
  BY <1>4 DEF IInv, Closed
<1>7. \A h \in Hooks : HookOK(h)'
  BY <1>2, <1>3 DEF IInv, HookOK, Sound
<1>8. QED
  BY <1>1, <1>5, <1>6, <1>7 DEF IInv

-----------------------------------------------------------------------------
(***************************************************************************)
(* Webhooks                                                                *)
(***************************************************************************)

LEMMA HookStep ==
  ASSUME IInv, NEW h \in Hooks, Deliver(h) \/ ServeHook(h)
  PROVE  IInv'
<1>1. /\ hook \in [Hooks -> HookRecords] /\ hook[h] \in HookRecords
      /\ row \in [state : States, data : Data] /\ queue \in Nat
      /\ calls \in SUBSET Call /\ reported \in SUBSET (Call \X Status)
      /\ hook[h].data \in Data /\ hook[h].status \in Status
  BY DEF IInv, TypeOK, HookRecords
<1>2. /\ UNCHANGED <<setupComplete, worker, calls, runs, request>>
      /\ reported \subseteq reported' /\ reported' \in SUBSET (Call \X Status)
  <2>1. CASE Deliver(h)
    <3>1. PICK c \in calls, v \in Status : reported' = reported \cup {<<c, v>>}
      BY <2>1 DEF Deliver
    <3>2. <<c, v>> \in Call \X Status
      BY <1>1
    <3>3. UNCHANGED <<setupComplete, worker, calls, runs, request>>
      BY <2>1 DEF Deliver, OnlyHooks
    <3>4. QED
      BY <1>1, <3>1, <3>2, <3>3
  <2>2. CASE ServeHook(h)
    BY <1>1, <2>2 DEF ServeHook, LoadHook, MarkSystem, MarkRaises, Verdict, Continue,
       OnlyHooks
  <2>3. QED
    BY <2>1, <2>2
<1>3. \A s, v : Said(s, v) => Said(s, v)'
  BY <1>2, SaidGrows
<1>4. HookOK(h) /\ Accounted /\ Closed
  BY DEF IInv
<1>5. ASSUME NEW k \in HookRecords, hook' = [hook EXCEPT ![h] = k],
             k.pc \in {"load", "mark"} =>
               k.call \in calls /\ <<k.call, k.status>> \in reported',
             k.pc = "mark" /\ k.state = "completed" =>
               k.data.requested = {} /\ k.data.failed = {},
             k.pc = "verdict" => k.data.requested = {},
             Sound(k.data)
      PROVE  /\ hook' \in [Hooks -> HookRecords]
             /\ \A x \in Hooks : hook'[x].pc \in {"load", "mark"} => hook'[x].call \in Call
             /\ \A x \in Hooks : HookOK(x)'
  <2>1. \A x \in Hooks : hook'[x] = IF x = h THEN k ELSE hook[x]
    BY <1>1, <1>5
  <2>2. \A x \in Hooks : HookOK(x)
    BY DEF IInv
  <2>3. HookOK(h)'
    BY <1>2, <1>3, <1>5, <2>1 DEF HookOK, Sound
  <2>4. ASSUME NEW x \in Hooks, x # h PROVE HookOK(x)'
    BY <1>2, <1>3, <2>1, <2>2, <2>4 DEF HookOK, Sound
  <2>5. QED
    BY <1>1, <1>2, <1>5, <2>3, <2>4 DEF HookOK
<1>6. ASSUME row' \in [state : States, data : Data], queue' \in Nat,
             Sound(row'.data), row'.state = "completed" =>
                                 row'.data.requested = {} /\ row'.data.failed = {},
             hook' \in [Hooks -> HookRecords],
             \A x \in Hooks : hook'[x].pc \in {"load", "mark"} => hook'[x].call \in Call,
             \A x \in Hooks : HookOK(x)'
      PROVE  IInv'
  <2>1. TypeOK'
    BY <1>2, <1>6 DEF IInv, TypeOK
  <2>2. Accounted' /\ Closed'
    BY <1>3, <1>6 DEF Accounted, Sound, Closed
  <2>3. QED
    BY <1>6, <2>1, <2>2 DEF IInv
<1>7. CASE Deliver(h)
  <2>1. PICK c \in calls, v \in Status :
          /\ hook' = [hook EXCEPT ![h] = [Unsent EXCEPT !.pc = "load", !.call = c,
                                                       !.status = v]]
          /\ reported' = reported \cup {<<c, v>>}
    BY <1>7 DEF Deliver
  <2> DEFINE k == [Unsent EXCEPT !.pc = "load", !.call = c, !.status = v]
  <2>2. k \in HookRecords /\ k.pc = "load" /\ k.call = c /\ k.status = v /\ k.data = NoData
    BY <1>1, DoneOK DEF HookRecords
  <2>3. Sound(k.data)
    BY <2>2, NoDataOK
  <2>4. row' = row /\ queue' = queue
    BY <1>7 DEF Deliver
  <2>7. hook' = [hook EXCEPT ![h] = k]
    BY <2>1
  <2> HIDE DEF k
  <2>8. k.call \in calls /\ <<k.call, k.status>> \in reported'
    BY <2>1, <2>2
  <2>5. /\ hook' \in [Hooks -> HookRecords]
        /\ \A x \in Hooks : hook'[x].pc \in {"load", "mark"} => hook'[x].call \in Call
        /\ \A x \in Hooks : HookOK(x)'
    BY <1>5, <2>2, <2>3, <2>7, <2>8
  <2>6. QED
    BY <1>1, <1>4, <1>6, <2>4, <2>5 DEF Accounted, Closed
<1>8. CASE LoadHook(h)
  <2> DEFINE k == [hook[h] EXCEPT !.pc = "mark", !.state = row.state, !.data = row.data]
  <2>1. k \in HookRecords /\ k.pc = "mark" /\ k.state = row.state /\ k.data = row.data
        /\ k.call = hook[h].call /\ k.status = hook[h].status
    BY <1>1 DEF HookRecords
  <2>2. hook' = [hook EXCEPT ![h] = k] /\ row' = row /\ queue' = queue
        /\ reported' = reported /\ hook[h].pc = "load"
    BY <1>1, <1>8 DEF LoadHook
  <2> HIDE DEF k
  <2>3. /\ hook' \in [Hooks -> HookRecords]
        /\ \A x \in Hooks : hook'[x].pc \in {"load", "mark"} => hook'[x].call \in Call
        /\ \A x \in Hooks : HookOK(x)'
    BY <1>4, <1>5, <2>1, <2>2 DEF HookOK, Accounted, Closed
  <2>4. QED
    BY <1>1, <1>4, <1>6, <2>2, <2>3 DEF Accounted, Closed
<1>9. CASE MarkSystem(h)
  <2> DEFINE d == Mark(hook[h].data, hook[h].call.system, hook[h].status)
             k == IF d.requested = {} THEN [Done EXCEPT !.pc = "verdict", !.data = d]
                  ELSE Done
  <2>1. /\ hook[h].pc = "mark" /\ hook[h].call \in calls
        /\ <<hook[h].call, hook[h].status>> \in reported /\ Sound(hook[h].data)
        /\ hook[h].call \in Call
        /\ hook[h].state = "completed" =>
             hook[h].data.requested = {} /\ hook[h].data.failed = {}
    BY <1>1, <1>4, <1>9 DEF MarkSystem, HookOK
  <2>2. d \in Data /\ Sound(d)
    BY <1>1, <2>1, MarkSound
  <2>3. hook[h].state = "completed" => d = hook[h].data
    BY <2>1, MarkClosed
  <2>4. /\ hook' = [hook EXCEPT ![h] = k]
        /\ IF d # hook[h].data THEN row' = [state |-> hook[h].state, data |-> d]
           ELSE row' = row
        /\ queue' = queue
    BY <1>9 DEF MarkSystem, Log
  <2>5. hook[h].state \in States
    BY <1>1 DEF HookRecords
  <2> HIDE DEF d
  <2>6. /\ k \in HookRecords /\ k.pc \in {"verdict", "done"} /\ k.data \in {d, NoData}
        /\ k.pc = "verdict" => k.data.requested = {}
    BY <2>2, DoneOK DEF HookRecords
  <2> HIDE DEF k
  <2>7. /\ hook' \in [Hooks -> HookRecords]
        /\ \A x \in Hooks : hook'[x].pc \in {"load", "mark"} => hook'[x].call \in Call
        /\ \A x \in Hooks : HookOK(x)'
    BY <1>5, <2>2, <2>4, <2>6, NoDataOK
  <2>8. /\ row' \in [state : States, data : Data] /\ Sound(row'.data)
        /\ row'.state = "completed" => row'.data.requested = {} /\ row'.data.failed = {}
    BY <1>1, <1>4, <2>2, <2>3, <2>4, <2>5 DEF Accounted, Closed
  <2>9. QED
    BY <1>1, <1>6, <2>4, <2>7, <2>8
<1>10. CASE MarkRaises(h) \/ Continue(h)
  <2>1. hook' = [hook EXCEPT ![h] = Done] /\ row' = row /\ queue' \in Nat
    BY <1>1, <1>10 DEF MarkRaises, Continue
  <2>2. /\ hook' \in [Hooks -> HookRecords]
        /\ \A x \in Hooks : hook'[x].pc \in {"load", "mark"} => hook'[x].call \in Call
        /\ \A x \in Hooks : HookOK(x)'
    BY <1>5, <2>1, DoneOK, NoDataOK
  <2>3. QED
    BY <1>1, <1>4, <1>6, <2>1, <2>2 DEF Accounted, Closed
<1>11. CASE Verdict(h)
  <2> DEFINE d == hook[h].data
             k == [Done EXCEPT !.pc = "enqueue"]
  <2>1. /\ hook[h].pc = "verdict" /\ queue' = queue
        /\ row' = [state |-> IF d.failed = {} THEN "completed" ELSE "failed", data |-> d]
        /\ hook' = [hook EXCEPT ![h] = k]
    BY <1>11 DEF Verdict, Log
  <2>2. k \in HookRecords /\ k.pc = "enqueue" /\ k.data = NoData
    BY DoneOK DEF HookRecords
  <2>3. Sound(d) /\ d.requested = {} /\ d \in Data
    BY <1>1, <1>4, <2>1 DEF HookOK
  <2> HIDE DEF k
  <2>4. /\ hook' \in [Hooks -> HookRecords]
        /\ \A x \in Hooks : hook'[x].pc \in {"load", "mark"} => hook'[x].call \in Call
        /\ \A x \in Hooks : HookOK(x)'
    BY <1>5, <2>1, <2>2, NoDataOK
  <2>5. /\ row' \in [state : States, data : Data] /\ Sound(row'.data)
        /\ row'.state = "completed" => row'.data.requested = {} /\ row'.data.failed = {}
    BY <2>1, <2>3 DEF States
  <2>6. QED
    BY <1>1, <1>6, <2>1, <2>4, <2>5
<1>12. QED
  BY <1>7, <1>8, <1>9, <1>10, <1>11 DEF ServeHook

-----------------------------------------------------------------------------
(***************************************************************************)
(* Staff, and the theorems                                                 *)
(***************************************************************************)

LEMMA RequestStep ==
  ASSUME IInv, NEW r \in Clicks, Press(r) \/ ServeRequest(r)
  PROVE  IInv'
<1>1. /\ request \in [Clicks -> RequestRecords] /\ request[r] \in RequestRecords
      /\ row \in [state : States, data : Data] /\ queue \in Nat
      /\ request[r].state \in States /\ row.state \in States
  BY DEF IInv, TypeOK, RequestRecords
<1>2. UNCHANGED <<worker, calls, runs, hook, reported>>
  BY DEF Press, ServeRequest, LogAction, Unset, Reprepare, Enqueue, OnlyRequests
<1>3. \/ row' = row
      \/ row' \in [state : States, data : {NoData}]
  BY <1>1 DEF Press, ServeRequest, LogAction, Unset, Reprepare, Enqueue, Log, States
<1>4. request' \in [Clicks -> RequestRecords]
  BY <1>1 DEF Press, ServeRequest, LogAction, Unset, Reprepare, Enqueue, Goto,
     RequestRecords, States
<1>5. queue' \in Nat
  BY <1>1 DEF Press, ServeRequest, LogAction, Unset, Reprepare, Enqueue
<1>6. setupComplete' \in BOOLEAN
  BY DEF IInv, TypeOK, Press, ServeRequest, LogAction, Unset, Reprepare, Enqueue
<1>7. TypeOK'
  BY <1>1, <1>2, <1>3, <1>4, <1>5, <1>6, NoDataOK DEF IInv, TypeOK
<1>8. Accounted' /\ Closed'
  BY <1>2, <1>3, NoDataOK DEF IInv, Accounted, Closed, Sound, Said
<1>9. \A h \in Hooks : HookOK(h)'
  BY <1>2 DEF IInv, HookOK, Sound, Said
<1>10. QED
  BY <1>7, <1>8, <1>9 DEF IInv

LEMMA InvStep == IInv /\ [Next]_vars => IInv'
<1>1. CASE Next
  BY <1>1, WorkerInv, HookStep, RequestStep DEF Next
<1>2. CASE UNCHANGED vars
  BY <1>2 DEF vars, IInv, TypeOK, Accounted, Closed, HookOK, Sound, Said
<1>3. QED
  BY <1>1, <1>2

(* The copies that callbacks and staff write from keep the types of what   *)
(* they were read from, and the broker's count never goes below zero.      *)
THEOREM TypeCorrect == Spec => []TypeOK
<1>1. IInv => TypeOK
  BY DEF IInv
<1>2. QED
  BY <1>1, InvInit, InvStep, PTL DEF Spec

(* However answers interleave, repeat or arrive late, no answer is entered *)
(* twice and none is made up (mark_system's three lists).                  *)
THEOREM AnswersAccounted == Spec => []Accounted
<1>1. IInv => Accounted
  BY DEF IInv
<1>2. QED
  BY <1>1, InvInit, InvStep, PTL DEF Spec

(* No interleaving of callbacks, workers and staff makes the step COMPLETED *)
(* over a system that is unanswered or failed.                              *)
THEOREM CompletedIsCreated == Spec => []CompletedMeansCreated
<1>1. IInv => CompletedMeansCreated
  BY DEF IInv, Closed, CompletedMeansCreated
<1>2. QED
  BY <1>1, InvInit, InvStep, PTL DEF Spec
-----------------------------------------------------------------------------
(***************************************************************************)
(* A COMPLETED step is counted                                             *)
(***************************************************************************)

(* Somebody is on the way to save the profile, or to write another row.    *)
OnTheWay ==
  \/ queue > 0
  \/ \E w \in Workers : worker[w].pc \in {"load", "finish"}
  \/ \E h \in Hooks : hook[h].pc = "enqueue"
  \/ \E r \in Clicks : request[r].pc \in {"unset", "reprepare", "enqueue"}

Counted == row.state = "completed" => setupComplete \/ OnTheWay

LEMMA CountedWorker ==
  ASSUME TypeOK, Counted, NEW w \in Workers, WorkerNext(w)
  PROVE  Counted'
<1> SUFFICES ASSUME row'.state = "completed" PROVE setupComplete' \/ OnTheWay'
  BY DEF Counted
<1>1. /\ worker \in [Workers -> WorkerRecords]
      /\ worker[w] \in WorkerRecords /\ queue \in Nat
  BY DEF TypeOK
<1>2. /\ UNCHANGED <<hook, request>>
      /\ \A x \in Workers : x # w => worker'[x] = worker[x]
  BY <1>1 DEF WorkerNext, Take, Load, Begin, ListRaises, TestSystems, TestUnreachable,
     HandlerRaises, CallReactor, ReactorRaises, LogRequested, Finish, OnlyWorkers
<1>3. CASE Take(w)
  BY <1>1, <1>3 DEF Take, WorkerRecords, OnTheWay
<1>4. CASE Load(w)
  BY <1>1, <1>4 DEF Load, Idle, OnTheWay
<1>5. CASE Finish(w)
  BY <1>5 DEF Finish
<1>6. CASE Begin(w) \/ ListRaises(w) \/ HandlerRaises(w) \/ ReactorRaises(w)
           \/ LogRequested(w)
  BY <1>6 DEF Begin, ListRaises, HandlerRaises, ReactorRaises, LogRequested, Log
<1>7. ASSUME row' = row, UNCHANGED <<setupComplete, queue>>,
             worker[w].pc \notin {"load", "finish"}
      PROVE  setupComplete' \/ OnTheWay'
  BY <1>2, <1>7 DEF Counted, OnTheWay
<1>8. CASE TestSystems(w)
  <2>1. CASE row' = row
    BY <1>7, <1>8, <2>1 DEF TestSystems
  <2>2. CASE row' # row
    <3>1. worker'[w].pc = "finish"
      BY <1>1, <1>8, <2>2 DEF TestSystems, Idle
    <3>2. QED
      BY <3>1 DEF OnTheWay
  <2>3. QED
    BY <2>1, <2>2
<1>9. CASE TestUnreachable(w) \/ CallReactor(w)
  BY <1>7, <1>9 DEF TestUnreachable, CallReactor
<1>10. QED
  BY <1>3, <1>4, <1>5, <1>6, <1>8, <1>9 DEF WorkerNext

(* A callback that writes under a state COMPLETED it has read earlier has  *)
(* nothing to enter, so COMPLETED comes from a verdict only.               *)
LEMMA CountedHook ==
  ASSUME IInv, Counted, NEW h \in Hooks, Deliver(h) \/ ServeHook(h)
  PROVE  Counted'
<1> SUFFICES ASSUME row'.state = "completed" PROVE setupComplete' \/ OnTheWay'
  BY DEF Counted
<1>1. /\ hook \in [Hooks -> HookRecords] /\ hook[h] \in HookRecords
      /\ queue \in Nat /\ HookOK(h)
  BY DEF IInv, TypeOK
<1>2. /\ UNCHANGED <<setupComplete, worker, request>>
      /\ \A x \in Hooks : x # h => hook'[x] = hook[x]
  BY <1>1 DEF Deliver, ServeHook, LoadHook, MarkSystem, MarkRaises, Verdict, Continue,
     OnlyHooks
<1>3. ASSUME row' = row, queue' = queue, hook[h].pc # "enqueue"
      PROVE  setupComplete' \/ OnTheWay'
  BY <1>2, <1>3 DEF Counted, OnTheWay
<1>4. CASE Deliver(h) \/ LoadHook(h) \/ MarkRaises(h)
  BY <1>3, <1>4 DEF Deliver, LoadHook, MarkRaises
<1>5. CASE MarkSystem(h)
  <2> DEFINE d == Mark(hook[h].data, hook[h].call.system, hook[h].status)
  <2>1. hook[h].state = "completed" => d = hook[h].data
    BY <1>1, <1>5, MarkClosed DEF MarkSystem, HookOK
  <2>2. row' = row
    BY <1>5, <2>1 DEF MarkSystem, Log
  <2>3. QED
    BY <1>3, <1>5, <2>2 DEF MarkSystem
<1>6. CASE Verdict(h)
  <2>1. hook'[h].pc = "enqueue"
    BY <1>1, <1>6, DoneOK DEF Verdict, HookRecords
  <2>2. QED
    BY <2>1 DEF OnTheWay
<1>7. CASE Continue(h)
  BY <1>1, <1>7 DEF Continue, OnTheWay
<1>8. QED
  BY <1>4, <1>5, <1>6, <1>7 DEF ServeHook

LEMMA CountedRequest ==
  ASSUME TypeOK, Counted, NEW r \in Clicks, Press(r) \/ ServeRequest(r)
  PROVE  Counted'
<1> SUFFICES ASSUME row'.state = "completed" PROVE setupComplete' \/ OnTheWay'
  BY DEF Counted
<1>1. /\ request \in [Clicks -> RequestRecords] /\ request[r] \in RequestRecords
      /\ queue \in Nat
  BY DEF TypeOK
<1>2. /\ UNCHANGED <<worker, hook>>
      /\ \A x \in Clicks : x # r => request'[x] = request[x]
  BY <1>1 DEF Press, ServeRequest, LogAction, Unset, Reprepare, Enqueue, Goto,
     OnlyRequests
<1>3. CASE Press(r)
  BY <1>2, <1>3 DEF Press, Counted, OnTheWay
<1>4. CASE LogAction(r)
  <2>1. request'[r].pc \in {"unset", "enqueue"}
    BY <1>1, <1>4 DEF LogAction, RequestRecords
  <2>2. QED
    BY <2>1 DEF OnTheWay
<1>5. CASE Unset(r)
  <2>1. request'[r].pc = "reprepare"
    BY <1>1, <1>5 DEF Unset, Goto, RequestRecords
  <2>2. QED
    BY <2>1 DEF OnTheWay
<1>6. CASE Reprepare(r)
  BY <1>6 DEF Reprepare, Log
<1>7. CASE Enqueue(r)
  BY <1>1, <1>7 DEF Enqueue, OnTheWay
<1>8. QED
  BY <1>3, <1>4, <1>5, <1>6, <1>7 DEF ServeRequest

(* A step that is COMPLETED once everything has come to rest has been      *)
(* counted, whoever completed it: the task, the last answer, or staff in   *)
(* the middle of either.                                                   *)
THEOREM VerdictIsCounted == Spec => []VerdictCounts
<1>1. Init => Counted
  BY DEF Init, Counted
<1>2. IInv /\ Counted /\ [Next]_vars => Counted'
  <2> SUFFICES ASSUME IInv, Counted, [Next]_vars PROVE Counted'
    OBVIOUS
  <2>1. TypeOK
    BY DEF IInv
  <2>2. CASE Next
    BY <2>1, <2>2, CountedWorker, CountedHook, CountedRequest DEF Next
  <2>3. CASE UNCHANGED vars
    BY <2>3 DEF vars, Counted, OnTheWay
  <2>4. QED
    BY <2>2, <2>3
<1>3. TypeOK /\ Counted => VerdictCounts
  BY DEF Counted, OnTheWay, VerdictCounts, AtRest
<1>4. IInv => TypeOK
  BY DEF IInv
<1>5. QED
  BY <1>1, <1>2, <1>3, <1>4, InvInit, InvStep, PTL DEF Spec
=============================================================================
