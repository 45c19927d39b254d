--------------------------- MODULE JobFeedProofs ---------------------------
(***************************************************************************)
(* What holds of the posts about jobs, for any jobs and any number of      *)
(* posts, whoever reads the messages; and that the feed of a browser is a  *)
(* reader of that kind.                                                    *)
(***************************************************************************)
EXTENDS JobFeed, TLAPS, FiniteSetTheorems

-----------------------------------------------------------------------------
(* Types.                                                                  *)

(* Positions at which a post has its status, its time and its key. *)
Stated(pc) == pc \in {"read", "create", "insert", "send", "index", "commit"}

Made(pc) == pc \in {"insert", "send", "index", "commit"}

Keyed(pc) == pc \in {"send", "index", "commit"}

(* What the position of a post says of its fields. *)
Sane(h) ==
  /\ ~At(h, "unsent") => hook[h].job \in Jobs
  /\ Stated(hook[h].pc) => hook[h].status \in Statuses
  /\ hook[h].pc \in {"read", "index", "commit"} => JobHook(h)
  /\ At(h, "validate") /\ ~JobHook(h) => stage[hook[h].job] > 0
  /\ Keyed(hook[h].pc) => hook[h].pk \in 1..inserted
  /\ Made(hook[h].pc) => hook[h].at \in 1..stamped

TypeInv == ServerTypeOK /\ \A h \in Hooks : Sane(h)

LEMMA TypeInit == Init => TypeInv
BY LifeAssumption DEF Init, TypeInv, ServerTypeOK, Sane, Hook, Kinds, At, JobHook,
  Stated, Made, Keyed

(* A status that a job has or has had is one. *)
LEMMA StatusTyped ==
  ASSUME TypeInv, NEW j \in Jobs
  PROVE  /\ stage[j] \in 0..Len(Life)
         /\ Past(j) \subseteq Statuses
         /\ stage[j] > 0 => Status(j) \in Statuses
         /\ Past(j) # {} => stage[j] > 0
<1>1. stage[j] \in 0..Len(Life)
  BY DEF TypeInv, ServerTypeOK
<1>2. Len(Life) \in Nat /\ \A k \in 1..Len(Life) : Life[k] \in Statuses
  BY LifeAssumption
<1> QED BY <1>1, <1>2 DEF Past, Status

(* Keys and times only grow. *)
Counted ==
  inserted' \in Nat /\ inserted' >= inserted /\ stamped' \in Nat /\ stamped' >= stamped

LEMMA Kept == TypeInv /\ UNCHANGED counts => Counted
BY DEF TypeInv, ServerTypeOK, counts, Counted

(* A step of one post that keeps the tables, rows and messages typed. *)
LEMMA StepTyped ==
  ASSUME TypeInv, NEW h \in Hooks, NEW f \in Hook, hook' = [hook EXCEPT ![h] = f],
         f.pc # "unsent" => f.job \in Jobs,
         Stated(f.pc) => f.status \in Statuses,
         f.pc \in {"read", "index", "commit"} => f.kind = "job",
         f.pc = "validate" /\ f.kind # "job" => stage[f.job] > 0,
         Keyed(f.pc) => f.pk \in 1..inserted',
         Made(f.pc) => f.at \in 1..stamped',
         UNCHANGED tapis, Counted, rows' \subseteq Row, wire' \in Seq(Row), indexed' \subseteq Jobs, crowded' \subseteq Jobs
  PROVE  TypeInv'
<1>1. hook \in [Hooks -> Hook] /\ stage' = stage /\ recorded' = recorded
  BY DEF TypeInv, ServerTypeOK, tapis
<1>2. hook'[h] = f /\ (\A g \in Hooks \ {h} : hook'[g] = hook[g]) /\ hook' \in [Hooks -> Hook]
  BY <1>1
<1>3. Sane(h)'
  BY <1>1, <1>2 DEF Sane, At, JobHook
<1>4. ASSUME NEW g \in Hooks \ {h} PROVE Sane(g)'
  <2>1. Sane(g) /\ hook'[g] = hook[g] /\ inserted \in Nat /\ stamped \in Nat
    BY <1>2 DEF TypeInv, ServerTypeOK
  <2> QED BY <1>1, <2>1 DEF Sane, At, JobHook, Counted
<1>5. \A g \in Hooks : Sane(g)'
  BY <1>3, <1>4
<1> QED BY <1>1, <1>2, <1>5 DEF TypeInv, ServerTypeOK, Sane, At, Stated, Counted

LEMMA JobTyped ==
  ASSUME TypeInv, NEW j \in Jobs, JobStep(j)
  PROVE  TypeInv'
<1>1. UNCHANGED <<rows, inserted, stamped, hook, indexed, wire, crowded>>
  BY DEF JobStep, Advance, Record, counts
<1>2. stage' \in [Jobs -> 0..Len(Life)] /\ \A k \in Jobs : stage'[k] >= stage[k]
  <2>1. stage \in [Jobs -> 0..Len(Life)] /\ Len(Life) \in Nat
    BY LifeAssumption DEF TypeInv, ServerTypeOK
  <2>2. CASE Advance(j)
    BY <2>1, <2>2 DEF Advance
  <2>3. CASE Record(j)
    BY <2>1, <2>3 DEF Record
  <2> QED BY <2>2, <2>3 DEF JobStep
<1>3. recorded' \subseteq Jobs
  BY DEF JobStep, Advance, Record, TypeInv, ServerTypeOK
<1>4. \A g \in Hooks : Sane(g)'
  <2> SUFFICES ASSUME NEW g \in Hooks PROVE Sane(g)'
    OBVIOUS
  <2>1. Sane(g) /\ hook[g].job \in Jobs \cup {NoJob}
    BY DEF TypeInv, ServerTypeOK, Hook
  <2>2. \A k \in Jobs : stage[k] \in Nat /\ stage'[k] \in Nat
    BY <1>2, LifeAssumption DEF TypeInv, ServerTypeOK
  <2> QED BY <1>1, <1>2, <2>1, <2>2 DEF Sane, At, JobHook
<1> QED BY <1>1, <1>2, <1>3, <1>4 DEF TypeInv, ServerTypeOK, At

(* The row of a post that is to be inserted. *)
LEMMA RowTyped ==
  ASSUME TypeInv, NEW h \in Hooks, Made(hook[h].pc), NEW n \in Nat
  PROVE  /\ RowOf(h) \in Row
         /\ [RowOf(h) EXCEPT !.pk = n] \in Row
         /\ [RowOf(h) EXCEPT !.pk = n] =
              [pk |-> n, at |-> hook[h].at, job |-> hook[h].job, kind |-> hook[h].kind,
               status |-> hook[h].status]
<1>1. hook[h] \in Hook /\ hook[h].job \in Jobs /\ hook[h].status \in Statuses
  BY DEF TypeInv, ServerTypeOK, Sane, At, Made, Stated
<1> QED BY <1>1 DEF RowOf, Row, Hook

LEMMA DeliveryTyped ==
  ASSUME TypeInv, NEW h \in Hooks, NEW j \in Jobs
  PROVE  /\ DeliverSession(h, j) => TypeInv'
         /\ \A v \in Statuses : Deliver(h, j, v) => TypeInv'
<1>1. ASSUME DeliverSession(h, j) PROVE TypeInv'
  <2> DEFINE f == [pc |-> "validate", kind |-> "session", job |-> j,
                   status |-> NoStatus, at |-> 0, pk |-> 0]
  <2>1. f \in Hook /\ hook' = [hook EXCEPT ![h] = f] /\ stage[f.job] > 0
    BY <1>1, StatusTyped DEF DeliverSession, Hook, Kinds
  <2>2. /\ Counted /\ rows' \subseteq Row
        /\ wire' \in Seq(Row) /\ indexed' \subseteq Jobs /\ crowded' \subseteq Jobs
        /\ UNCHANGED tapis
    BY <1>1, Kept DEF DeliverSession, TypeInv, ServerTypeOK
  <2>3. f.pc = "validate" /\ f.job \in Jobs
    OBVIOUS
  <2> HIDE DEF f
  <2> QED BY <2>1, <2>2, <2>3, StepTyped DEF Stated, Made, Keyed
<1>2. ASSUME NEW v \in Statuses, Deliver(h, j, v) PROVE TypeInv'
  <2> DEFINE f == [pc |-> "validate", kind |-> "job", job |-> j, status |-> v, at |-> 0,
                   pk |-> 0]
  <2>1. f \in Hook /\ hook' = [hook EXCEPT ![h] = f]
    BY <1>2 DEF Deliver, Hook, Kinds
  <2>2. /\ Counted /\ rows' \subseteq Row
        /\ wire' \in Seq(Row) /\ indexed' \subseteq Jobs /\ crowded' \subseteq Jobs
        /\ UNCHANGED tapis
    BY <1>2, Kept DEF Deliver, TypeInv, ServerTypeOK
  <2>3. f.pc = "validate" /\ f.job \in Jobs /\ f.kind = "job"
    OBVIOUS
  <2> HIDE DEF f
  <2> QED BY <2>1, <2>2, <2>3, StepTyped DEF Stated, Made, Keyed
<1> QED BY <1>1, <1>2

(* A post that goes on to another position with its fields unchanged. *)
LEMMA MoveTyped ==
  ASSUME TypeInv, NEW h \in Hooks, NEW pc, Step(h, pc), ~At(h, "unsent"),
         pc \in {"read", "create", "index", "commit", "acked", "refused", "failed"},
         Stated(pc) => hook[h].status \in Statuses,
         pc \in {"read", "index", "commit"} => JobHook(h),
         pc \in {"index", "commit"} => hook[h].pk \in 1..inserted /\ hook[h].at \in 1..stamped,
         UNCHANGED <<tapis, crowded, counts>>, wire' \in Seq(Row),
         rows' \subseteq Row, indexed' \subseteq Jobs
  PROVE  TypeInv'
<1> DEFINE f == [hook[h] EXCEPT !.pc = pc]
<1>1. hook[h] \in Hook /\ hook[h].job \in Jobs
  BY DEF TypeInv, ServerTypeOK, Sane
<1>2. f \in Hook /\ hook' = [hook EXCEPT ![h] = f]
  BY <1>1 DEF Step, Hook
<1>3. f.pc = pc /\ f.job = hook[h].job /\ f.kind = hook[h].kind /\ f.pk = hook[h].pk
      /\ f.status = hook[h].status /\ f.at = hook[h].at
  BY <1>1 DEF Hook
<1>4. Counted /\ crowded' \subseteq Jobs /\ inserted' = inserted /\ stamped' = stamped
  BY Kept DEF counts, TypeInv, ServerTypeOK
<1> HIDE DEF f
<1> QED BY <1>1, <1>2, <1>3, <1>4, StepTyped DEF JobHook, Made, Keyed

(* A post makes its row, and inserts it. *)
LEMMA MakeTyped ==
  ASSUME TypeInv, NEW h \in Hooks, Make(h)
  PROVE  TypeInv'
<1> DEFINE f == [hook[h] EXCEPT !.pc = "insert", !.at = stamped + 1]
<1>1. /\ hook[h] \in Hook /\ hook[h].job \in Jobs /\ hook[h].status \in Statuses
      /\ stamped \in Nat /\ inserted \in Nat
  BY DEF Make, TypeInv, ServerTypeOK, Sane, At, Stated
<1>2. /\ hook' = [hook EXCEPT ![h] = f] /\ stamped' = stamped + 1 /\ inserted' = inserted
      /\ UNCHANGED <<tapis, rows, indexed, wire, crowded>>
  BY DEF Make, OnlyHooks
<1>3. stamped + 1 \in Nat /\ stamped + 1 \in 1..(stamped + 1) /\ stamped + 1 >= stamped
  BY <1>1
<1>4. f \in Hook /\ f.pc = "insert" /\ f.job = hook[h].job /\ f.status = hook[h].status
      /\ f.at = stamped + 1
  BY <1>1, <1>3 DEF Hook
<1>5. /\ rows' \subseteq Row /\ wire' \in Seq(Row) /\ indexed' \subseteq Jobs
      /\ crowded' \subseteq Jobs /\ Counted
  BY <1>1, <1>2, <1>3 DEF TypeInv, ServerTypeOK, Counted
<1> HIDE DEF f
<1> QED BY <1>1, <1>2, <1>3, <1>4, <1>5, StepTyped DEF Keyed

LEMMA CreateTyped ==
  ASSUME TypeInv, NEW h \in Hooks, Create(h)
  PROVE  TypeInv'
<1> DEFINE f == [hook[h] EXCEPT !.pc = "send", !.pk = inserted + 1]
<1>1. /\ hook[h] \in Hook /\ hook[h].job \in Jobs /\ hook[h].status \in Statuses
      /\ stamped \in Nat /\ inserted \in Nat /\ hook[h].at \in 1..stamped
      /\ Made(hook[h].pc)
  BY DEF Create, TypeInv, ServerTypeOK, Sane, At, Stated, Made
<1>2. /\ hook' = [hook EXCEPT ![h] = f] /\ stamped' = stamped /\ inserted' = inserted + 1
      /\ UNCHANGED <<tapis, indexed, wire, crowded>>
  BY DEF Create, OnlyHooks
<1>3. inserted + 1 \in Nat /\ inserted + 1 \in 1..(inserted + 1) /\ inserted + 1 >= inserted
  BY <1>1
<1>4. f \in Hook /\ f.pc = "send" /\ f.job = hook[h].job /\ f.status = hook[h].status
      /\ f.at = hook[h].at /\ f.pk = inserted + 1
  BY <1>1, <1>3 DEF Hook
<1>5. [RowOf(h) EXCEPT !.pk = inserted + 1] \in Row
  BY <1>1, <1>3, RowTyped
<1>6. rows' \subseteq Row /\ Counted
  <2>1. rows' = rows \/ rows' = rows \cup {[RowOf(h) EXCEPT !.pk = inserted + 1]}
    BY DEF Create
  <2>2. rows \subseteq Row
    BY DEF TypeInv, ServerTypeOK
  <2>3. Counted
    BY <1>1, <1>2, <1>3 DEF Counted
  <2> QED BY <1>5, <2>1, <2>2, <2>3
<1>7. wire' \in Seq(Row) /\ indexed' \subseteq Jobs /\ crowded' \subseteq Jobs
  BY <1>2 DEF TypeInv, ServerTypeOK
<1> HIDE DEF f
<1> QED BY <1>1, <1>2, <1>3, <1>4, <1>6, <1>7, StepTyped

LEMMA ServeTyped ==
  ASSUME TypeInv, NEW h \in Hooks, Serve(h)
  PROVE  TypeInv'
<1>1. hook[h] \in Hook /\ Sane(h) /\ inserted \in Nat /\ rows \subseteq Row /\ indexed \subseteq Jobs
  BY DEF TypeInv, ServerTypeOK
<1>11. wire \in Seq(Row)
  BY DEF TypeInv, ServerTypeOK
<1>2. CASE Validate(h)
  BY <1>1, <1>2, <1>11, MoveTyped DEF Validate, At, Notifying, OnlyHooks, Stated
<1>3. CASE ValidateSession(h)
  <2> DEFINE f == [hook[h] EXCEPT !.pc = "create", !.status = Status(hook[h].job)]
  <2>1. hook[h].job \in Jobs /\ stage[hook[h].job] > 0 /\ ~JobHook(h)
    BY <1>1, <1>3 DEF ValidateSession, Sane, At
  <2>2. Status(hook[h].job) \in Statuses
    BY <2>1, StatusTyped
  <2>3. f \in Hook /\ hook' = [hook EXCEPT ![h] = f]
    BY <1>1, <1>3, <2>2 DEF ValidateSession, Hook
  <2>4. f.pc = "create" /\ f.job = hook[h].job /\ f.status = Status(hook[h].job)
    BY <1>1 DEF Hook
  <2>5. /\ Counted /\ rows' \subseteq Row
        /\ wire' \in Seq(Row) /\ indexed' \subseteq Jobs /\ crowded' \subseteq Jobs
        /\ UNCHANGED tapis
    BY <1>3, Kept DEF ValidateSession, OnlyHooks, TypeInv, ServerTypeOK
  <2> HIDE DEF f
  <2> QED BY <1>1, <2>1, <2>2, <2>3, <2>4, <2>5, StepTyped DEF Made, Keyed
<1>4. CASE Refuse(h)
  BY <1>1, <1>4, <1>11, MoveTyped DEF Refuse, At, OnlyHooks, Stated
<1>5. CASE ReadLast(h)
  BY <1>1, <1>5, <1>11, MoveTyped DEF ReadLast, At, Sane, OnlyHooks, Stated
<1>6. CASE Make(h)
  BY <1>6, MakeTyped
<1>7. CASE Create(h)
  BY <1>7, CreateTyped
<1>12. CASE Send(h)
  <2>1. At(h, "send") /\ Made(hook[h].pc) /\ hook[h].pk \in Nat
    BY <1>1, <1>12 DEF Send, At, Made, Hook
  <2>2. RowOf(h) \in Row
    BY <2>1, RowTyped
  <2>3. wire' \in Seq(Row)
    BY <1>11, <1>12, <2>2 DEF Send
  <2>4. /\ hook[h].status \in Statuses /\ hook[h].pk \in 1..inserted
        /\ hook[h].at \in 1..stamped
    BY <1>1, <2>1 DEF Sane, At, Made, Keyed, Stated
  <2>5. UNCHANGED <<tapis, crowded, counts>> /\ rows' = rows /\ indexed' = indexed
    BY <1>12 DEF Send
  <2>6. \E pc \in {"acked", "index", "commit"} :
          Step(h, pc) /\ (pc \in {"index", "commit"} => JobHook(h))
    BY <1>12 DEF Send
  <2>7. PICK pc \in {"acked", "index", "commit"} :
          Step(h, pc) /\ (pc \in {"index", "commit"} => JobHook(h))
    BY <2>6
  <2> QED BY <1>1, <2>1, <2>3, <2>4, <2>5, <2>7, MoveTyped DEF At
<1>8. CASE Index(h)
  BY <1>1, <1>8, <1>11, MoveTyped DEF Index, At, Sane, OnlyHooks, Stated, Made, Keyed
<1>9. CASE Commit(h)
  <2>1. RowOf(h) \in Row
    BY <1>1, <1>9, RowTyped DEF Commit, At, Made, Hook
  <2> QED BY <1>1, <1>9, <1>11, <2>1, MoveTyped DEF Commit, At, OnlyHooks, Stated
<1>10. CASE Rollback(h)
  BY <1>1, <1>10, <1>11, MoveTyped DEF Rollback, At, OnlyHooks, Stated
<1> QED BY <1>2, <1>3, <1>4, <1>5, <1>6, <1>7, <1>8, <1>9, <1>10, <1>12 DEF Serve

LEMMA TakenTyped == TypeInv /\ Taken => TypeInv'
<1> SUFFICES ASSUME TypeInv, Taken PROVE TypeInv'
  OBVIOUS
<1>1. wire' \in Seq(Row)
  BY DEF Taken, TypeInv, ServerTypeOK
<1> QED BY <1>1 DEF Taken, tapis, counts, TypeInv, ServerTypeOK, Sane, At, JobHook

LEMMA TypeStep == TypeInv /\ [Next]_server => TypeInv'
<1> SUFFICES ASSUME TypeInv, [Next]_server PROVE TypeInv'
  OBVIOUS
<1>1. CASE UNCHANGED server
  BY <1>1 DEF server, tapis, counts, TypeInv, ServerTypeOK, Sane, At, JobHook
<1>2. CASE Next
  BY <1>2, JobTyped, DeliveryTyped, ServeTyped, TakenTyped DEF Next, ServerNext
<1> QED BY <1>1, <1>2

(* Jobs, rows, messages and posts keep their types, whatever Tapis posts   *)
(* and in whatever order the services of the posts take their steps.       *)
THEOREM TypeCorrect == Spec => []ServerTypeOK
<1>1. TypeInv => ServerTypeOK
  BY DEF TypeInv
<1> QED BY <1>1, TypeInit, TypeStep, PTL DEF Spec

-----------------------------------------------------------------------------
(* What one step does to the posts and to the rows.                        *)

Same(g) == hook'[g] = hook[g]

LEMMA ServeKeeps ==
  ASSUME TypeInv, NEW h \in Hooks, Serve(h)
  PROVE  /\ \A g \in Hooks \ {h} : Same(g)
         /\ rows \subseteq rows' /\ indexed \subseteq indexed' /\ inserted' >= inserted
         /\ crowded' = crowded
<1>1. hook \in [Hooks -> Hook] /\ inserted \in Nat
  BY DEF TypeInv, ServerTypeOK
<1>2. CASE Validate(h) BY <1>1, <1>2 DEF Validate, Step, OnlyHooks, counts, Same
<1>3. CASE ValidateSession(h) BY <1>1, <1>3 DEF ValidateSession, OnlyHooks, counts, Same
<1>4. CASE Refuse(h) BY <1>1, <1>4 DEF Refuse, Step, OnlyHooks, counts, Same
<1>5. CASE ReadLast(h) BY <1>1, <1>5 DEF ReadLast, Step, OnlyHooks, counts, Same
<1>6. CASE Make(h) BY <1>1, <1>6 DEF Make, OnlyHooks, counts, Same
<1>7. CASE Create(h) BY <1>1, <1>7 DEF Create, OnlyHooks, counts, Same
<1>8. CASE Index(h) BY <1>1, <1>8 DEF Index, Step, OnlyHooks, counts, Same
<1>9. CASE Commit(h) BY <1>1, <1>9 DEF Commit, Step, OnlyHooks, counts, Same
<1>10. CASE Rollback(h) BY <1>1, <1>10 DEF Rollback, Step, OnlyHooks, counts, Same
<1>11. CASE Send(h) BY <1>1, <1>11 DEF Send, Step, counts, Same
<1> QED BY <1>2, <1>3, <1>4, <1>5, <1>6, <1>7, <1>8, <1>9, <1>10, <1>11 DEF Serve

(* A delivered post is one that was unsent. *)
Delivered(h) ==
  \E j \in Jobs : DeliverSession(h, j) \/ \E v \in Statuses : Deliver(h, j, v)

LEMMA DeliveryKeeps ==
  ASSUME TypeInv, NEW h \in Hooks, Delivered(h)
  PROVE  /\ \A g \in Hooks \ {h} : Same(g)
         /\ At(h, "unsent") /\ At(h, "validate")'
         /\ UNCHANGED <<rows, counts, inserted, stamped, indexed>> /\ crowded \subseteq crowded'
<1>1. hook \in [Hooks -> Hook]
  BY DEF TypeInv, ServerTypeOK
<1>2. CASE \E j \in Jobs : DeliverSession(h, j)
  BY <1>1, <1>2 DEF DeliverSession, At, Same, counts
<1>3. CASE \E j \in Jobs, v \in Statuses : Deliver(h, j, v)
  BY <1>1, <1>3 DEF Deliver, At, Same, counts
<1> QED BY <1>2, <1>3 DEF Delivered

(* A step is of one post, or leaves posts and rows alone. *)
LEMMA StepForms ==
  ASSUME [Next]_server
  PROVE  \/ \E h \in Hooks : Serve(h) \/ Delivered(h)
         \/ UNCHANGED <<rows, inserted, stamped, hook, indexed, crowded>>
<1>1. CASE UNCHANGED server BY <1>1 DEF server, counts
<1>2. CASE Taken BY <1>2 DEF Taken, counts
<1>3. CASE \E j \in Jobs : JobStep(j) BY <1>3 DEF JobStep, Advance, Record, counts
<1>4. CASE \E h \in Hooks : Serve(h) BY <1>4
<1>5. CASE \E h \in Hooks, j \in Jobs :
             DeliverSession(h, j) \/ \E v \in Statuses : Deliver(h, j, v)
  BY <1>5 DEF Delivered
<1> QED BY <1>1, <1>2, <1>3, <1>4, <1>5 DEF Next, ServerNext

-----------------------------------------------------------------------------
(* A post answered with "OK" is stored.                                    *)

Stored(h) == \E r \in RowsOf(hook[h].job) : r.status = hook[h].status

ToldOf(h) == At(h, "acked") /\ JobHook(h) /\ hook[h].status \in Notifying

(* A post comes to "acked" with its status stored. *)
LEMMA AckedOnlyStored ==
  ASSUME TypeInv, NEW h \in Hooks, Serve(h), ToldOf(h)'
  PROVE  Stored(h)'
<1>1. hook \in [Hooks -> Hook] /\ hook[h] \in Hook
  BY DEF TypeInv, ServerTypeOK
<1>2. CASE Validate(h)
  BY <1>1, <1>2 DEF Validate, Step, ToldOf, At, Hook
<1>3. CASE ValidateSession(h)
  BY <1>1, <1>3 DEF ValidateSession, ToldOf, At, Hook
<1>4. CASE Refuse(h)
  BY <1>1, <1>4 DEF Refuse, Step, ToldOf, At, Hook
<1>5. CASE ReadLast(h)
  <2>1. Repeats(hook[h].job, hook[h].status)
    BY <1>1, <1>5 DEF ReadLast, Step, ToldOf, At, Hook
  <2>2. hook'[h].job = hook[h].job /\ hook'[h].status = hook[h].status /\ rows' = rows
    BY <1>1, <1>5 DEF ReadLast, Step, Hook
  <2> QED BY <2>1, <2>2 DEF Repeats, Stored, RowsOf
<1>6. CASE Make(h)
  BY <1>1, <1>6 DEF Make, ToldOf, At, Hook
<1>7. CASE Create(h)
  BY <1>1, <1>7 DEF Create, ToldOf, At, Hook
<1>11. CASE Send(h)
  BY <1>1, <1>11 DEF Send, Step, ToldOf, At, JobHook, Hook
<1>8. CASE Index(h)
  BY <1>1, <1>8 DEF Index, Step, ToldOf, At, Hook
<1>9. CASE Commit(h)
  <2>1. /\ hook'[h].job = hook[h].job /\ hook'[h].status = hook[h].status
        /\ hook'[h].kind = hook[h].kind /\ RowOf(h) \in rows'
    BY <1>1, <1>9 DEF Commit, Step, Hook
  <2>2. RowOf(h).job = hook[h].job /\ RowOf(h).kind = "job" /\ RowOf(h).status = hook[h].status
    BY <2>1 DEF RowOf, ToldOf, JobHook
  <2> QED BY <2>1, <2>2 DEF Stored, RowsOf
<1>10. CASE Rollback(h)
  BY <1>1, <1>10 DEF Rollback, Step, ToldOf, At, Hook
<1> QED BY <1>2, <1>3, <1>4, <1>5, <1>6, <1>7, <1>8, <1>9, <1>10, <1>11 DEF Serve

LEMMA AckedStep == TypeInv /\ AckedIsStored /\ [Next]_server => AckedIsStored'
<1> SUFFICES ASSUME TypeInv, AckedIsStored, [Next]_server, NEW h \in Hooks, ToldOf(h)'
             PROVE  Stored(h)'
  BY DEF AckedIsStored, Stored, ToldOf
<1>1. rows \subseteq rows' /\ Same(h) => Stored(h)'
  BY DEF AckedIsStored, Stored, ToldOf, RowsOf, Same, At, JobHook
<1>2. CASE UNCHANGED <<rows, inserted, stamped, hook, indexed, crowded>>
  BY <1>1, <1>2 DEF Same
<1>3. ASSUME NEW g \in Hooks, Serve(g) PROVE Stored(h)'
  BY <1>1, <1>3, ServeKeeps, AckedOnlyStored
<1>4. ASSUME NEW g \in Hooks, Delivered(g) PROVE Stored(h)'
  BY <1>1, <1>4, DeliveryKeeps DEF ToldOf, At
<1> QED BY <1>2, <1>3, <1>4, StepForms

(* A status that Tapis was told had arrived is in a committed row of its   *)
(* job, whichever other posts about the job were served, rolled back or    *)
(* answered as duplicates at the same time.                                *)
THEOREM AckedStored == Spec => []AckedIsStored
<1>1. Init => AckedIsStored
  BY DEF Init, AckedIsStored, At
<1> QED BY <1>1, TypeInit, TypeStep, AckedStep, PTL DEF Spec

-----------------------------------------------------------------------------
(* A finished job is indexed.                                              *)

(* The task of a post that is about to commit has been queued. *)
Queued(h) ==
  At(h, "commit") /\ hook[h].status = "FINISHED" => hook[h].job \in indexed

IndexInv == FinishedIsIndexed /\ \A h \in Hooks : Queued(h)

LEMMA IndexedByServe ==
  ASSUME TypeInv, IndexInv, NEW h \in Hooks, Serve(h)
  PROVE  Queued(h)' /\ FinishedIsIndexed'
<1>1. /\ hook \in [Hooks -> Hook] /\ hook[h] \in Hook /\ Queued(h) /\ FinishedIsIndexed
      /\ indexed \subseteq indexed'
  BY ServeKeeps DEF TypeInv, ServerTypeOK, IndexInv
<1>2. CASE Validate(h)
  BY <1>1, <1>2 DEF Validate, Step, Queued, FinishedIsIndexed, At, Hook
<1>3. CASE ValidateSession(h)
  BY <1>1, <1>3 DEF ValidateSession, Queued, FinishedIsIndexed, At, Hook
<1>4. CASE Refuse(h)
  BY <1>1, <1>4 DEF Refuse, Step, Queued, FinishedIsIndexed, At, Hook
<1>5. CASE ReadLast(h)
  BY <1>1, <1>5 DEF ReadLast, Step, Queued, FinishedIsIndexed, At, Hook
<1>6. CASE Make(h)
  BY <1>1, <1>6 DEF Make, Queued, FinishedIsIndexed, At, Hook
<1>11. CASE Send(h)
  BY <1>1, <1>11 DEF Send, Step, Queued, FinishedIsIndexed, At, Hook
<1>7. CASE Create(h)
  <2>1. Queued(h)'
    BY <1>1, <1>7 DEF Create, Queued, At, Hook
  <2> DEFINE new == [RowOf(h) EXCEPT !.pk = inserted + 1]
  <2>2. /\ rows' = rows \/ (rows' = rows \cup {new} /\ new.kind # "job")
        /\ indexed' = indexed
    BY <1>7 DEF Create, JobHook, RowOf
  <2> HIDE DEF new
  <2> QED BY <1>1, <2>1, <2>2 DEF FinishedIsIndexed
<1>8. CASE Index(h)
  BY <1>1, <1>8 DEF Index, Step, Queued, FinishedIsIndexed, At, Hook
<1>9. CASE Commit(h)
  <2>1. Queued(h)'
    BY <1>1, <1>9 DEF Commit, Step, Queued, At, Hook
  <2> DEFINE new == RowOf(h)
  <2>2. /\ new.status = "FINISHED" => new.job \in indexed
        /\ rows' = rows \cup {new} /\ indexed' = indexed
    BY <1>1, <1>9 DEF Commit, Queued, RowOf
  <2> HIDE DEF new
  <2> QED BY <1>1, <2>1, <2>2 DEF FinishedIsIndexed
<1>10. CASE Rollback(h)
  BY <1>1, <1>10 DEF Rollback, Step, Queued, FinishedIsIndexed, At, Hook
<1> QED BY <1>2, <1>3, <1>4, <1>5, <1>6, <1>7, <1>8, <1>9, <1>10, <1>11 DEF Serve

LEMMA IndexStep == TypeInv /\ IndexInv /\ [Next]_server => IndexInv'
<1> SUFFICES ASSUME TypeInv, IndexInv, [Next]_server PROVE IndexInv'
  OBVIOUS
<1>1. \A g \in Hooks : Same(g) /\ indexed \subseteq indexed' => Queued(g)'
  BY DEF IndexInv, Queued, Same, At
<1>2. CASE UNCHANGED <<rows, inserted, stamped, hook, indexed, crowded>>
  BY <1>1, <1>2 DEF Same, IndexInv, FinishedIsIndexed
<1>3. ASSUME NEW h \in Hooks, Serve(h) PROVE IndexInv'
  BY <1>1, <1>3, ServeKeeps, IndexedByServe DEF IndexInv
<1>4. ASSUME NEW h \in Hooks, Delivered(h) PROVE IndexInv'
  <2>1. Queued(h)'
    BY <1>4, DeliveryKeeps DEF Queued, At
  <2> QED BY <1>1, <1>4, <2>1, DeliveryKeeps DEF IndexInv, FinishedIsIndexed
<1> QED BY <1>2, <1>3, <1>4, StepForms

(* Every job with a committed "FINISHED" row has had the indexing of its   *)
(* output queued, although the queue is no part of the transaction.        *)
THEOREM FinishedIndexed == Spec => []FinishedIsIndexed
<1>1. Init => IndexInv
  BY DEF Init, IndexInv, FinishedIsIndexed, Queued, At
<1>2. IndexInv => FinishedIsIndexed
  BY DEF IndexInv
<1> QED BY <1>1, <1>2, TypeInit, TypeStep, IndexStep, PTL DEF Spec

-----------------------------------------------------------------------------
(* The same status twice.                                                  *)

(* A post about job j is being served. *)
Busy(h, j) == Serving(h) /\ JobHook(h) /\ hook[h].job = j

(* What a post that was not found to repeat the last row relies on. *)
Fresh(h, j) ==
  /\ At(h, "create") \/ Made(hook[h].pc) =>
       \A r \in RowsOf(j) : Newest(RowsOf(j), r) => r.status # hook[h].status
  /\ Keyed(hook[h].pc) => \A r \in RowsOf(j) : r.pk < hook[h].pk

Differ(j) ==
  \A q, r \in RowsOf(j) :
    /\ q.pk < r.pk
    /\ \A s \in RowsOf(j) : ~(q.pk < s.pk /\ s.pk < r.pk)
    => q.status # r.status

Orderly(j) ==
  /\ \A g, h \in Hooks : Busy(g, j) /\ Busy(h, j) => g = h
  /\ \A h \in Hooks : Busy(h, j) => Fresh(h, j)
  /\ Differ(j)

RepeatInv ==
  /\ \A r \in rows : r.pk <= inserted
  /\ \A j \in Jobs \ crowded : Orderly(j)

LEMMA PkStep ==
  ASSUME TypeInv, \A r \in rows : r.pk <= inserted, [Next]_server
  PROVE  \A r \in rows' : r.pk <= inserted'
<1>1. /\ hook \in [Hooks -> Hook] /\ inserted \in Nat /\ \A r \in rows : r.pk \in Nat
  BY DEF TypeInv, ServerTypeOK, Row
<1>2. CASE UNCHANGED <<rows, inserted, stamped, hook, indexed, crowded>>
  BY <1>2
<1>3. ASSUME NEW h \in Hooks, Delivered(h) PROVE \A r \in rows' : r.pk <= inserted'
  BY <1>3, DeliveryKeeps
<1>4. ASSUME NEW h \in Hooks, Serve(h) PROVE \A r \in rows' : r.pk <= inserted'
  <2>1. inserted' >= inserted /\ inserted' \in Nat
    BY <1>4, ServeKeeps, ServeTyped DEF TypeInv, ServerTypeOK
  <2>2. CASE rows' = rows
    BY <1>1, <2>1, <2>2
  <2>3. CASE Commit(h)
    <3>1. rows' = rows \cup {RowOf(h)} /\ RowOf(h).pk = hook[h].pk /\ inserted' = inserted
      BY <2>3 DEF Commit, RowOf, counts
    <3>2. hook[h].pk \in 1..inserted
      BY <2>3 DEF Commit, TypeInv, Sane, At, Keyed
    <3> QED BY <1>1, <3>1, <3>2
  <2>4. CASE Create(h) /\ rows' # rows
    <3> DEFINE new == [RowOf(h) EXCEPT !.pk = inserted + 1]
    <3>1. rows' = rows \cup {new} /\ new.pk = inserted + 1 /\ inserted' = inserted + 1
      BY <2>4 DEF Create, RowOf
    <3> HIDE DEF new
    <3> QED BY <1>1, <3>1
  <2> QED BY <1>4, <2>2, <2>3, <2>4
        DEF Serve, Validate, ValidateSession, Refuse, ReadLast, Make, Send, Index, Rollback
<1> QED BY <1>2, <1>3, <1>4, StepForms

(* Posts and rows of a job that a step does not touch. *)
LEMMA Untouched ==
  ASSUME TypeInv, NEW j \in Jobs, Orderly(j), RowsOf(j)' = RowsOf(j),
         NEW h \in Hooks, \A g \in Hooks \ {h} : Same(g),
         Busy(h, j)' => Busy(h, j) /\ Fresh(h, j)'
  PROVE  Orderly(j)'
<1>1. \A g \in Hooks \ {h} : (Busy(g, j)' <=> Busy(g, j)) /\ (Fresh(g, j)' <=> Fresh(g, j))
  BY DEF Same, Busy, Serving, JobHook, Fresh, Newest, At
<1>2. Differ(j)'
  BY DEF Orderly, Differ
<1> QED BY <1>1, <1>2 DEF Orderly

(* A step of the only post about a job keeps the rows of the job apart. *)
LEMMA OrderlyByServe ==
  ASSUME TypeInv, \A r \in rows : r.pk <= inserted,
         NEW j \in Jobs, Orderly(j), NEW h \in Hooks, Serve(h)
  PROVE  Orderly(j)'
<1>1. hook \in [Hooks -> Hook] /\ hook[h] \in Hook /\ inserted \in Nat
      /\ \A r \in rows : r.pk \in Nat
  BY DEF TypeInv, ServerTypeOK, Row
<1>2. \A g \in Hooks \ {h} : Same(g)
  BY ServeKeeps
<1>3. Busy(h, j) => Fresh(h, j)
  BY DEF Orderly
<1>4. ASSUME RowsOf(j)' = RowsOf(j), Busy(h, j)' => Busy(h, j) /\ Fresh(h, j)'
      PROVE  Orderly(j)'
  BY <1>2, <1>4, Untouched
<1>5. CASE Validate(h)
  BY <1>1, <1>4, <1>5 DEF Validate, Step, Busy, Serving, JobHook, Fresh, RowsOf, At, Made, Keyed, Hook
<1>6. CASE ValidateSession(h)
  BY <1>1, <1>4, <1>6 DEF ValidateSession, Busy, JobHook, RowsOf, Hook
<1>7. CASE Refuse(h)
  BY <1>1, <1>4, <1>7 DEF Refuse, Step, Busy, Serving, RowsOf, Hook
<1>8. CASE ReadLast(h)
  <2>1. RowsOf(j)' = RowsOf(j)
    BY <1>8 DEF ReadLast, RowsOf
  <2>2. ASSUME Busy(h, j)' PROVE Busy(h, j) /\ Fresh(h, j)'
    <3>1. /\ hook'[h].job = hook[h].job /\ hook'[h].status = hook[h].status
          /\ hook'[h].kind = hook[h].kind /\ hook'[h].pc \in {"acked", "create"}
          /\ hook'[h].pc = "create" => ~Repeats(hook[h].job, hook[h].status)
      BY <1>1, <1>8 DEF ReadLast, Step, Hook
    <3>2. Busy(h, j) /\ hook'[h].pc = "create"
      BY <1>8, <2>2, <3>1 DEF Busy, Serving, JobHook, ReadLast, At
    <3> QED BY <2>1, <3>1, <3>2 DEF Busy, Fresh, Repeats, Newest, At, Made, Keyed
  <2> QED BY <1>4, <2>1, <2>2
<1>9. CASE Make(h)
  <2>1. RowsOf(j)' = RowsOf(j)
    BY <1>9 DEF Make, RowsOf
  <2>2. /\ hook'[h].job = hook[h].job /\ hook'[h].status = hook[h].status
        /\ hook'[h].kind = hook[h].kind /\ At(h, "create") /\ hook'[h].pc = "insert"
    BY <1>1, <1>9 DEF Make, Hook
  <2> QED BY <1>3, <1>4, <2>1, <2>2 DEF Busy, Serving, JobHook, Fresh, Newest, At, Made, Keyed
<1>10. CASE Create(h)
  <2> DEFINE new == [RowOf(h) EXCEPT !.pk = inserted + 1]
  <2>1. /\ rows' = rows \/ (rows' = rows \cup {new} /\ new.kind # "job")
    BY <1>10 DEF Create, JobHook, RowOf
  <2> HIDE DEF new
  <2>3. RowsOf(j)' = RowsOf(j)
    BY <2>1 DEF RowsOf
  <2>2. ASSUME Busy(h, j)' PROVE Busy(h, j) /\ Fresh(h, j)'
    <3>1. /\ hook'[h].job = hook[h].job /\ hook'[h].status = hook[h].status
          /\ hook'[h].kind = hook[h].kind /\ hook'[h].pk = inserted + 1 /\ At(h, "insert")
      BY <1>1, <1>10 DEF Create, Hook
    <3>2. Busy(h, j) /\ Fresh(h, j)
      BY <1>3, <2>2, <3>1 DEF Busy, Serving, JobHook, At
    <3>3. \A r \in RowsOf(j) : r.pk < inserted + 1
      BY <1>1 DEF RowsOf
    <3> QED BY <2>3, <3>1, <3>2, <3>3 DEF Fresh, Newest, At, Made, Keyed
  <2> QED BY <1>4, <2>2, <2>3
<1>14. CASE Send(h)
  <2>1. RowsOf(j)' = RowsOf(j)
    BY <1>14 DEF Send, RowsOf
  <2>2. /\ hook'[h].job = hook[h].job /\ hook'[h].status = hook[h].status
        /\ hook'[h].kind = hook[h].kind /\ hook'[h].pk = hook[h].pk /\ At(h, "send")
        /\ hook'[h].pc \in {"acked", "index", "commit"}
    BY <1>1, <1>14 DEF Send, Step, Hook
  <2> QED BY <1>3, <1>4, <2>1, <2>2 DEF Busy, Serving, JobHook, Fresh, Newest, At, Made, Keyed
<1>11. CASE Index(h)
  <2>1. RowsOf(j)' = RowsOf(j)
    BY <1>11 DEF Index, RowsOf
  <2>2. /\ hook'[h].job = hook[h].job /\ hook'[h].status = hook[h].status
        /\ hook'[h].kind = hook[h].kind /\ hook'[h].pk = hook[h].pk /\ At(h, "index")
    BY <1>1, <1>11 DEF Index, Step, Hook
  <2> QED BY <1>3, <1>4, <2>1, <2>2 DEF Busy, Serving, JobHook, Fresh, Newest, At, Made, Keyed
<1>12. CASE Commit(h)
  <2> DEFINE new == RowOf(h)
  <2>1. /\ rows' = rows \cup {new} /\ new.job = hook[h].job /\ new.kind = hook[h].kind
        /\ new.status = hook[h].status /\ new.pk = hook[h].pk
        /\ ~Busy(h, j)' /\ At(h, "commit") /\ JobHook(h) /\ hook[h].pk \in Nat
    BY <1>1, <1>12 DEF Commit, Step, RowOf, Busy, Serving, Hook, TypeInv, Sane, At, Keyed
  <2> HIDE DEF new
  <2>2. CASE hook[h].job # j
    <3>1. RowsOf(j)' = RowsOf(j)
      BY <2>1, <2>2 DEF RowsOf
    <3> QED BY <1>4, <2>1, <3>1
  <2>3. CASE hook[h].job = j
    <3>1. Busy(h, j) /\ Fresh(h, j)
      BY <1>3, <2>1, <2>3 DEF Busy, Serving, At
    <3>2. RowsOf(j)' = RowsOf(j) \cup {new}
      BY <2>1, <2>3 DEF RowsOf, JobHook
    <3>3. \A g \in Hooks : ~Busy(g, j)'
      BY <1>2, <2>1, <3>1 DEF Orderly, Same, Busy, Serving, JobHook
    <3>4. \A r \in RowsOf(j) : r.pk \in Nat /\ r.pk < new.pk
      BY <1>1, <2>1, <3>1 DEF Fresh, At, Keyed, RowsOf
    <3>5. \A r \in RowsOf(j) : Newest(RowsOf(j), r) => r.status # new.status
      BY <2>1, <3>1 DEF Fresh, At, Made
    <3>6. Differ(j)'
      <4> SUFFICES ASSUME NEW q \in RowsOf(j)', NEW r \in RowsOf(j)', q.pk < r.pk,
                          \A s \in RowsOf(j)' : ~(q.pk < s.pk /\ s.pk < r.pk)
                   PROVE  q.status # r.status
        BY DEF Differ
      <4>1. CASE q \in RowsOf(j) /\ r \in RowsOf(j)
        BY <3>2, <4>1 DEF Orderly, Differ
      <4>2. CASE q = new
        <5>1. new.pk \in Nat
          BY <2>1
        <5> QED BY <3>2, <3>4, <4>2, <5>1
      <4>3. CASE q \in RowsOf(j) /\ r = new
        <5>1. Newest(RowsOf(j), q)
          BY <3>2, <3>4, <4>3 DEF Newest
        <5> QED BY <3>5, <4>3, <5>1
      <4> QED BY <3>2, <4>1, <4>2, <4>3
    <3> QED BY <3>3, <3>6 DEF Orderly
  <2> QED BY <2>2, <2>3
<1>13. CASE Rollback(h)
  BY <1>1, <1>4, <1>13 DEF Rollback, Step, Busy, Serving, RowsOf, Hook
<1> QED BY <1>5, <1>6, <1>7, <1>8, <1>9, <1>10, <1>11, <1>12, <1>13, <1>14 DEF Serve

LEMMA RepeatStep == TypeInv /\ RepeatInv /\ [Next]_server => RepeatInv'
<1> SUFFICES ASSUME TypeInv, RepeatInv, [Next]_server PROVE RepeatInv'
  OBVIOUS
<1>1. \A r \in rows' : r.pk <= inserted'
  BY PkStep DEF RepeatInv
<1> SUFFICES ASSUME NEW j \in Jobs \ crowded' PROVE Orderly(j)'
  BY <1>1 DEF RepeatInv
<1>2. CASE UNCHANGED <<rows, inserted, stamped, hook, indexed, crowded>>
  BY <1>2 DEF RepeatInv, Orderly, Busy, Serving, JobHook, Fresh, Differ, RowsOf, Newest, At
<1>3. ASSUME NEW h \in Hooks, Serve(h) PROVE Orderly(j)'
  BY <1>3, ServeKeeps, OrderlyByServe DEF RepeatInv
<1>4. ASSUME NEW h \in Hooks, Delivered(h) PROVE Orderly(j)'
  <2>1. /\ \A g \in Hooks \ {h} : Same(g)
        /\ At(h, "unsent") /\ At(h, "validate")' /\ rows' = rows /\ j \notin crowded
    BY <1>4, DeliveryKeeps
  <2>2. Orderly(j)
    BY <2>1 DEF RepeatInv
  <2>3. RowsOf(j)' = RowsOf(j) /\ (Busy(h, j)' => Fresh(h, j)')
    BY <2>1 DEF RowsOf, Fresh, At, Made, Keyed
  <2>4. CASE ~Busy(h, j)'
    BY <2>1, <2>2, <2>3, <2>4, Untouched
  <2>5. CASE Busy(h, j)'
    <3>1. \A g \in Hooks \ {h} : ~Busy(g, j)
      <4>1. \A i \in Jobs : ~DeliverSession(h, i)
        BY <2>5 DEF DeliverSession, Busy, JobHook, TypeInv, ServerTypeOK
      <4>2. PICK i \in Jobs, v \in Statuses : Deliver(h, i, v)
        BY <1>4, <4>1 DEF Delivered
      <4>3. i = j
        BY <2>5, <4>2 DEF Deliver, Busy, TypeInv, ServerTypeOK
      <4> QED BY <4>2, <4>3 DEF Deliver, Busy
    <3>2. \A g \in Hooks \ {h} : ~Busy(g, j)'
      BY <2>1, <3>1 DEF Same, Busy, Serving, JobHook
    <3>3. Differ(j)'
      BY <2>2, <2>3 DEF Orderly, Differ
    <3> QED BY <2>3, <3>2, <3>3 DEF Orderly
  <2> QED BY <2>4, <2>5
<1> QED BY <1>2, <1>3, <1>4, StepForms

(* As long as the posts about a job are served one after another, two of   *)
(* its rows that follow each other never show the same status, however     *)
(* often and in whatever order Tapis posts.                                *)
THEOREM RepeatsDiffer == Spec => []NoRepeat
<1>1. Init => RepeatInv
  BY DEF Init, RepeatInv, Orderly, Busy, Serving, Differ, RowsOf
<1>2. RepeatInv => NoRepeat
  BY DEF RepeatInv, NoRepeat, Orderly, Differ
<1> QED BY <1>1, <1>2, TypeInit, TypeStep, RepeatStep, PTL DEF Spec

-----------------------------------------------------------------------------
(* The feed of a browser.                                                  *)

LEMMA FeedStep == [FeedNext]_vars => [Next]_server
<1> SUFFICES ASSUME [FeedNext]_vars PROVE [Next]_server
  OBVIOUS
<1>1. CASE UNCHANGED vars BY <1>1 DEF vars
<1>2. CASE ServerSide BY <1>2 DEF ServerSide, Next
<1>3. CASE Receive \/ Lose
  BY <1>3 DEF Receive, ReceiveListed, ReceiveUnlisted, ReceiveSession, Lose, Next
<1>4. CASE Fetching
  BY <1>4 DEF Fetching, OnlyBrowser, AnswerNotifications, ApplyNotifications,
    NotificationsFail, AnswerJobs, ApplyJobs, JobsFail, AnswerDetails, ApplyDetails, DetailsFail
<1>5. CASE \E v \in Visits : Visit(v)
  BY <1>5 DEF Visit, OpenHistory, MarkAll, ShowDetails, OnlyVisit
<1> QED BY <1>1, <1>2, <1>3, <1>4, <1>5 DEF FeedNext

(* Whatever its sagas fetch, apply, cancel or lose, the browser is to the  *)
(* server no more than a reader of its messages: every behaviour of the    *)
(* feed is one of JobNotifications.                                        *)
THEOREM FeedIsServed == FeedSpec => Spec
<1>1. FeedInit => Init
  BY DEF FeedInit
<1> QED BY <1>1, FeedStep, PTL DEF FeedSpec, Spec

(* The promises of the server therefore hold whatever browser is attached. *)
COROLLARY FeedKeepsPromises == FeedSpec => [](AckedIsStored /\ NoRepeat /\ FinishedIsIndexed)
BY FeedIsServed, AckedStored, RepeatsDiffer, FinishedIndexed, PTL
-----------------------------------------------------------------------------
(* Lists of events.                                                        *)

LEMMA LeastIndex ==
  ASSUME NEW T \in SUBSET Nat, T # {}
  PROVE  \E i \in T : \A k \in T : i <= k
<1> DEFINE R == OpToRel(<, Nat)
<1>1. PICK i \in T : \A k \in T : <<k, i>> \notin R
  <2>1. IsWellFoundedOn(R, Nat)
    BY NatLessThanWellFounded
  <2> HIDE DEF R
  <2> QED BY <2>1, WFMin
<1>2. \A k \in T : ~(k < i)
  BY <1>1 DEF OpToRel
<1> QED BY <1>2

LEMMA FirstIs ==
  ASSUME NEW s \in Seq(Row), NEW j, NEW i \in About(s, j), \A k \in About(s, j) : i <= k
  PROVE  First(s, j) = s[i] /\ i \in 1..Len(s) /\ s[i].job = j
<1>1. About(s, j) \subseteq 1..Len(s) /\ s[i].job = j
  BY DEF About
<1>2. \A x \in About(s, j) : (\A k \in About(s, j) : x <= k) => x = i
  BY <1>1
<1> QED BY <1>1, <1>2 DEF First

LEMMA FirstExists ==
  ASSUME NEW s \in Seq(Row), NEW j, About(s, j) # {}
  PROVE  \E i \in 1..Len(s) :
           /\ First(s, j) = s[i] /\ s[i].job = j
           /\ \A k \in 1..Len(s) : s[k].job = j => i <= k
<1>1. About(s, j) \in SUBSET Nat
  BY DEF About
<1>2. PICK i \in About(s, j) : \A k \in About(s, j) : i <= k
  BY <1>1, LeastIndex
<1>3. First(s, j) = s[i] /\ i \in 1..Len(s) /\ s[i].job = j
  BY <1>2, FirstIs
<1>4. \A k \in 1..Len(s) : s[k].job = j => k \in About(s, j)
  BY DEF About
<1> QED BY <1>2, <1>3, <1>4

(* A new event is the first one about its job, and the others keep theirs. *)
LEMMA FirstOfNew ==
  ASSUME NEW s \in Seq(Row), NEW m \in Row, NEW j
  PROVE  /\ m.job = j => About(<<m>> \o s, j) # {} /\ First(<<m>> \o s, j) = m
         /\ m.job # j => /\ About(<<m>> \o s, j) # {} <=> About(s, j) # {}
                         /\ About(s, j) # {} => First(<<m>> \o s, j) = First(s, j)
<1> DEFINE t == <<m>> \o s
<1>1. /\ t \in Seq(Row) /\ Len(t) = Len(s) + 1 /\ t[1] = m /\ Len(s) \in Nat
      /\ \A k \in 1..Len(s) : t[k + 1] = s[k]
  OBVIOUS
<1> HIDE DEF t
<1>2. /\ \A k : k \in About(t, j) <=> k \in 1..Len(t) /\ t[k].job = j
      /\ \A k : k \in About(s, j) <=> k \in 1..Len(s) /\ s[k].job = j
  BY <1>1 DEF About
<1>3. ASSUME m.job = j PROVE About(t, j) # {} /\ First(t, j) = m
  <2>1. 1 \in About(t, j) /\ \A k \in About(t, j) : 1 <= k
    BY <1>1, <1>2, <1>3
  <2> QED BY <1>1, <2>1, FirstIs
<1>4. ASSUME m.job # j
      PROVE  /\ About(t, j) # {} <=> About(s, j) # {}
             /\ About(s, j) # {} => First(t, j) = First(s, j)
  <2>1. \A k \in 1..Len(s) : k \in About(s, j) <=> k + 1 \in About(t, j)
    BY <1>1, <1>2
  <2>2. \A k \in About(t, j) : k - 1 \in 1..Len(s) /\ k - 1 \in About(s, j)
    <3> SUFFICES ASSUME NEW k \in About(t, j)
                 PROVE  k - 1 \in 1..Len(s) /\ k - 1 \in About(s, j)
      OBVIOUS
    <3>1. k \in 1..(Len(s) + 1) /\ k # 1
      BY <1>1, <1>2, <1>4
    <3>2. k - 1 \in 1..Len(s) /\ (k - 1) + 1 = k
      BY <1>1, <3>1
    <3> QED BY <2>1, <3>2
  <2>3. About(t, j) # {} <=> About(s, j) # {}
    BY <1>2, <2>1, <2>2
  <2>4. ASSUME About(s, j) # {} PROVE First(t, j) = First(s, j)
    <3>1. PICK i \in 1..Len(s) : /\ First(s, j) = s[i] /\ s[i].job = j
                                 /\ \A k \in 1..Len(s) : s[k].job = j => i <= k
      BY <2>4, FirstExists
    <3>2. i + 1 \in About(t, j) /\ t[i + 1] = s[i]
      BY <1>1, <1>2, <2>1, <3>1
    <3>3. \A k \in About(t, j) : i + 1 <= k
      <4> SUFFICES ASSUME NEW k \in About(t, j) PROVE i + 1 <= k
        OBVIOUS
      <4>1. k - 1 \in 1..Len(s) /\ s[k - 1].job = j /\ k \in Nat
        BY <1>1, <1>2, <2>2
      <4>2. i <= k - 1
        BY <3>1, <4>1
      <4> QED BY <1>1, <4>1, <4>2
    <3>4. First(t, j) = t[i + 1]
      BY <1>1, <3>2, <3>3, FirstIs
    <3> QED BY <3>1, <3>2, <3>4
  <2> QED BY <2>3, <2>4
<1> QED BY <1>3, <1>4 DEF t

LEMMA FirstOfOne ==
  ASSUME NEW m \in Row, NEW j
  PROVE  /\ About(<<m>>, j) # {} <=> m.job = j
         /\ m.job = j => First(<<m>>, j) = m
<1>1. <<m>> \in Seq(Row) /\ Len(<<m>>) = 1 /\ <<m>>[1] = m
  OBVIOUS
<1>2. \A k : k \in About(<<m>>, j) <=> k = 1 /\ m.job = j
  BY <1>1 DEF About
<1>3. ASSUME m.job = j PROVE First(<<m>>, j) = m
  <2>1. 1 \in About(<<m>>, j) /\ \A k \in About(<<m>>, j) : 1 <= k
    BY <1>2, <1>3
  <2>2. First(<<m>>, j) = <<m>>[1]
    <3> DEFINE s == <<m>>
    <3>1. s \in Seq(Row) /\ 1 \in About(s, j) /\ \A k \in About(s, j) : 1 <= k
      BY <1>1, <2>1
    <3> HIDE DEF s
    <3>2. First(s, j) = s[1]
      BY <3>1, FirstIs
    <3> QED BY <3>2 DEF s
  <2> QED BY <1>1, <2>2
<1> QED BY <1>2, <1>3

LEMMA EmptyIsAboutNothing == \A j : About(<<>>, j) = {}
BY DEF About

(* Rows with different times can be listed, the newest first. *)
LEMMA ListingLists ==
  ASSUME ServerTypeOK, \A r \in rows : r.at <= stamped,
         \A q, r \in rows : q.at = r.at => q = r
  PROVE  /\ Listing \in Seq(Row)
         /\ \A i \in 1..Len(Listing) : Listing[i] \in rows
         /\ \A a, b \in 1..Len(Listing) : a < b => Listing[a].at > Listing[b].at
<1> DEFINE Upto(n) == {r \in rows : r.at <= n}
           Lists(s, S) == /\ s \in [1..Cardinality(S) -> S]
                          /\ \A a, b \in 1..Cardinality(S) : a < b => s[a].at > s[b].at
           Good(n) == IsFiniteSet(Upto(n)) /\ \E s : Lists(s, Upto(n))
<1>1. stamped \in Nat /\ rows \subseteq Row /\ \A r \in rows : r.at \in Nat
  BY DEF ServerTypeOK, Row
<1>2. Good(0) \/ \E r \in rows : r.at = 0
  <2> SUFFICES ASSUME \A r \in rows : r.at # 0 PROVE Good(0)
    OBVIOUS
  <2>1. Upto(0) = {}
    BY <1>1
  <2>2. IsFiniteSet({}) /\ Cardinality({}) = 0
    BY FS_EmptySet
  <2>3. Lists(<<>>, {})
    BY <2>2
  <2> QED BY <2>1, <2>2, <2>3
<1>3. ASSUME NEW S \in SUBSET rows, IsFiniteSet(S), NEW s, Lists(s, S), NEW r \in rows \ S,
             \A q \in S : q.at < r.at
      PROVE  IsFiniteSet(S \cup {r}) /\ \E u : Lists(u, S \cup {r})
  <2> DEFINE c == Cardinality(S)
             T == S \cup {r}
             u == [i \in 1..(c + 1) |-> IF i = 1 THEN r ELSE s[i - 1]]
  <2>1. c \in Nat /\ IsFiniteSet(T) /\ Cardinality(T) = c + 1
    BY <1>3, FS_CardinalityType, FS_AddElement
  <2>2. /\ s \in [1..c -> S]
        /\ \A a, b \in 1..c : a < b => s[a].at > s[b].at
    BY <1>3
  <2> HIDE DEF c, Lists
  <2>3. \A i \in 1..(c + 1) : i # 1 => i - 1 \in 1..c /\ u[i] = s[i - 1] /\ u[i] \in S
    BY <2>1, <2>2
  <2>4. u \in [1..(c + 1) -> T] /\ u[1] = r
    BY <2>1, <2>3
  <2>5. ASSUME NEW a \in 1..(c + 1), NEW b \in 1..(c + 1), a < b PROVE u[a].at > u[b].at
    <3>1. b # 1 /\ u[b] = s[b - 1] /\ b - 1 \in 1..c /\ u[b] \in S
      BY <2>1, <2>3, <2>5
    <3>2. CASE a = 1
      <4>1. u[a] = r /\ u[b].at < r.at /\ u[b].at \in Nat /\ r.at \in Nat
        BY <1>1, <1>3, <2>4, <3>1, <3>2
      <4> QED BY <4>1
    <3>3. CASE a # 1
      <4>1. u[a] = s[a - 1] /\ a - 1 \in 1..c
        BY <2>3, <3>3
      <4>2. a - 1 < b - 1
        BY <2>1, <2>5
      <4> QED BY <2>2, <3>1, <4>1, <4>2
    <3> QED BY <3>2, <3>3
  <2> HIDE DEF u, T
  <2>6. Lists(u, T)
    BY <2>1, <2>4, <2>5 DEF Lists
  <2> QED BY <2>1, <2>6 DEF T
<1>4. ASSUME NEW n \in Nat, n = 0 \/ Good(n - 1) PROVE Good(n)
  <2> DEFINE S == {r \in rows : r.at < n}
  <2>1. IsFiniteSet(S) /\ \E s : Lists(s, S)
    <3>1. CASE n = 0
      <4>1. S = {}
        BY <1>1, <3>1
      <4>2. IsFiniteSet({}) /\ Cardinality({}) = 0
        BY FS_EmptySet
      <4>3. Lists(<<>>, {})
        BY <4>2
      <4> HIDE DEF S, Lists
      <4> QED BY <4>1, <4>2, <4>3
    <3>2. CASE n # 0
      <4>1. S = Upto(n - 1)
        BY <1>1
      <4> QED BY <1>4, <3>2, <4>1
    <3> QED BY <3>1, <3>2
  <2>2. CASE \A r \in rows : r.at # n
    <3>1. Upto(n) = S
      BY <1>1, <2>2
    <3> QED BY <2>1, <3>1
  <2>3. CASE \E r \in rows : r.at = n
    <3>1. PICK r \in rows : r.at = n
      BY <2>3
    <3>2. Upto(n) = S \cup {r}
      BY <1>1, <3>1
    <3>3. r \notin S /\ (\A q \in S : q.at < r.at) /\ S \in SUBSET rows
      BY <1>1, <3>1
    <3> HIDE DEF S, Upto, Lists
    <3>4. IsFiniteSet(S \cup {r}) /\ \E u : Lists(u, S \cup {r})
      BY <1>3, <2>1, <3>3
    <3> QED BY <3>2, <3>4
  <2> QED BY <2>2, <2>3
<1> HIDE DEF Good
<1>5. Good(stamped)
  <2> SUFFICES ASSUME ~Good(stamped) PROVE FALSE
    OBVIOUS
  <2> DEFINE T == {n \in Nat : ~Good(n)}
  <2>1. PICK n \in T : \A k \in T : n <= k
    BY <1>1, LeastIndex
  <2>2. n \in Nat /\ ~Good(n) /\ (n # 0 => n - 1 \in Nat /\ ~(n <= n - 1))
    BY <2>1
  <2>3. n = 0 \/ Good(n - 1)
    BY <2>1, <2>2
  <2> QED BY <1>4, <2>2, <2>3
<1>6. Upto(stamped) = rows
  OBVIOUS
<1>7. IsFiniteSet(rows) /\ \E s : Lists(s, rows)
  BY <1>5, <1>6 DEF Good
<1>8. Cardinality(rows) \in Nat
  BY <1>7, FS_CardinalityType
<1>9. Lists(Listing, rows)
  <2>1. \A s : Lists(s, rows) <=>
          /\ s \in [1..Cardinality(rows) -> rows]
          /\ \A a, b \in DOMAIN s : a < b => s[a].at > s[b].at
    OBVIOUS
  <2> HIDE DEF Lists
  <2> QED BY <1>7, <2>1 DEF Listing
<1>10. Listing \in Seq(Row) /\ Len(Listing) = Cardinality(rows)
  BY <1>1, <1>8, <1>9
<1> QED BY <1>9, <1>10

-----------------------------------------------------------------------------
(* What is on the wire.                                                    *)

(* Rows that are committed or may still be. *)
Live == rows \cup Pending

Posted == Live \cup gone

Waits(g) == Keyed(hook[g].pc)

LEMMA PendingAre == \A r : r \in Pending <=> \E g \in Hooks : Waits(g) /\ r = RowOf(g)
BY DEF Pending, Waits, Keyed

LEMMA PendingAreNext ==
  \A r : r \in Pending' <=> \E g \in Hooks : Waits(g)' /\ r = RowOf(g)'
BY DEF Pending, Waits, Keyed

LEMMA UnsentAre ==
  /\ \A r : r \in Unsent <=> \E g \in Hooks : At(g, "send") /\ r = RowOf(g)
  /\ \A r : r \in Unsent' <=> \E g \in Hooks : At(g, "send")' /\ r = RowOf(g)'
BY DEF Unsent, At

(* No two rows, made, inserted or rolled back, are of the same moment; the *)
(* row of a post is not yet there, but for that of a session whose message *)
(* is to leave.                                                            *)
Held == rows \cup gone

MadeApart ==
  \A g, h \in Hooks :
    Made(hook[g].pc) /\ Made(hook[h].pc) /\ hook[g].at = hook[h].at => g = h

Clear(h) ==
  /\ Made(hook[h].pc) => \A r \in Held :
       r.at = hook[h].at => r = RowOf(h) /\ r \in rows /\ ~JobHook(h) /\ At(h, "send")
  /\ At(h, "send") /\ ~JobHook(h) => RowOf(h) \in rows

Apart ==
  /\ MadeApart
  /\ \A h \in Hooks : Clear(h)
  /\ \A r \in Held : r \in Row /\ r.at <= stamped
  /\ \A q, r \in Held : q.at = r.at => q = r
  /\ rows \cap gone = {}

(* Every message on the wire is of a row. *)
WireInv == Apart /\ \A i \in 1..Len(wire) : wire[i] \in Posted

LEMMA PendingTyped ==
  ASSUME TypeInv, NEW g \in Hooks, Waits(g)
  PROVE  RowOf(g) \in Row /\ RowOf(g).at = hook[g].at /\ hook[g].at \in 1..stamped
                          /\ Made(hook[g].pc)
<1>1. Made(hook[g].pc) /\ hook[g] \in Hook /\ Sane(g)
  BY DEF Waits, Keyed, Made, TypeInv, ServerTypeOK
<1>2. RowOf(g) \in Row /\ hook[g].at \in 1..stamped
  BY <1>1, RowTyped DEF Sane, Hook
<1> QED BY <1>1, <1>2 DEF RowOf

LEMMA PostedAre ==
  ASSUME TypeInv, Apart
  PROVE  /\ \A r \in Posted : r \in Row /\ r.at \in Nat /\ r.at <= stamped
         /\ \A q, r \in Posted : q.at = r.at => q = r
         /\ Live \cap gone = {}
<1>1. stamped \in Nat
  BY DEF TypeInv, ServerTypeOK
<1>2. \A r \in Pending : r \in Row /\ r.at \in 1..stamped /\ \E g \in Hooks : Waits(g)
                          /\ r = RowOf(g) /\ r.at = hook[g].at /\ Made(hook[g].pc)
  BY PendingAre, PendingTyped
<1>3. \A r \in Posted : r \in Row /\ r.at \in Nat /\ r.at <= stamped
  BY <1>1, <1>2 DEF Posted, Live, Apart, Held, Row
<1>4. ASSUME NEW q \in Pending, NEW r \in Pending, q.at = r.at PROVE q = r
  <2>1. PICK g \in Hooks : q = RowOf(g) /\ q.at = hook[g].at /\ Made(hook[g].pc)
    BY <1>2
  <2>2. PICK h \in Hooks : r = RowOf(h) /\ r.at = hook[h].at /\ Made(hook[h].pc)
    BY <1>2
  <2>3. g = h
    BY <1>4, <2>1, <2>2 DEF Apart, MadeApart
  <2> QED BY <2>1, <2>2, <2>3
<1>5. ASSUME NEW q \in Pending, NEW r \in Held, q.at = r.at PROVE q = r /\ r \in rows
  <2>1. PICK g \in Hooks : q = RowOf(g) /\ q.at = hook[g].at /\ Made(hook[g].pc)
    BY <1>2
  <2> QED BY <1>5, <2>1 DEF Apart, Clear
<1>6. \A q, r \in Posted : q.at = r.at => q = r
  BY <1>4, <1>5 DEF Posted, Live, Held, Apart
<1>7. Live \cap gone = {}
  BY <1>5 DEF Live, Held, Apart
<1> QED BY <1>3, <1>6, <1>7

(* Rows become fewer, one more, or one that is sent, by a step of a post.  *)
Fewer ==
  /\ rows \subseteq rows' /\ Live' \subseteq Live /\ wire' = wire
  /\ \A r \in Live' : r \in Unsent => r \in Unsent'

More(n) ==
  /\ rows \subseteq rows' /\ Live' = Live \cup {n} /\ wire' = wire
  /\ n \in Unsent' /\ Unsent \subseteq Unsent'

Leaves(n) ==
  /\ rows' = rows /\ Live' = Live /\ n \in Live /\ n \in Row /\ wire' = Append(wire, n)
  /\ \A r \in Unsent : r \in Unsent' \/ r = n

LEMMA FewerLive ==
  ASSUME NEW h \in Hooks, \A g \in Hooks \ {h} : Same(g), rows \subseteq rows',
         Waits(h)' => Waits(h) /\ RowOf(h)' = RowOf(h),
         At(h, "send") => RowOf(h) \notin Live',
         \A r \in rows' : r \in rows \/ (Waits(h) /\ r = RowOf(h)),
         wire' = wire
  PROVE  Fewer
<1>1. \A g \in Hooks \ {h} : (Waits(g)' <=> Waits(g)) /\ RowOf(g)' = RowOf(g)
                              /\ (At(g, "send")' <=> At(g, "send"))
  BY DEF Same, Waits, RowOf, At
<1>2. \A r \in Pending' : r \in Pending
  BY <1>1, PendingAre, PendingAreNext
<1>3. \A r \in rows' : r \in Live
  BY PendingAre DEF Live
<1>4. Live' \subseteq Live
  BY <1>2, <1>3 DEF Live
<1>5. \A r \in Live' : r \in Unsent => r \in Unsent'
  BY <1>1, UnsentAre
<1> QED BY <1>4, <1>5 DEF Fewer

LEMMA LiveByServe ==
  ASSUME TypeInv, Apart, NEW h \in Hooks, Serve(h)
  PROVE  Fewer \/ (\E n \in Row : More(n)) \/ \E n \in Row : Leaves(n)
<1>1. hook \in [Hooks -> Hook] /\ hook[h] \in Hook /\ inserted \in Nat
  BY DEF TypeInv, ServerTypeOK
<1>2. \A g \in Hooks \ {h} : Same(g)
  BY ServeKeeps
<1>3. rows \subseteq rows'
  BY ServeKeeps
<1>10. \A g \in Hooks \ {h} : (Waits(g)' <=> Waits(g)) /\ RowOf(g)' = RowOf(g)
                               /\ (At(g, "send")' <=> At(g, "send"))
  BY <1>2 DEF Same, Waits, RowOf, At
<1>4. CASE Validate(h) \/ ValidateSession(h) \/ Refuse(h) \/ ReadLast(h) \/ Make(h)
  <2>1. ~Waits(h)' /\ ~At(h, "send") /\ rows' = rows /\ wire' = wire
    <3>1. hook'[h].pc \in {"read", "acked", "create", "insert", "refused", "failed"}
      <4>1. CASE Validate(h) BY <1>1, <4>1 DEF Validate, Step
      <4>2. CASE ValidateSession(h) BY <1>1, <4>2 DEF ValidateSession, Hook
      <4>3. CASE Refuse(h) BY <1>1, <4>3 DEF Refuse, Step
      <4>4. CASE ReadLast(h) BY <1>1, <4>4 DEF ReadLast, Step
      <4>5. CASE Make(h) BY <1>1, <4>5 DEF Make, Hook
      <4> QED BY <1>4, <4>1, <4>2, <4>3, <4>4, <4>5
    <3>2. rows' = rows /\ wire' = wire
      BY <1>4 DEF Validate, ValidateSession, Refuse, ReadLast, Make, OnlyHooks
    <3>3. ~At(h, "send")
      BY <1>4 DEF Validate, ValidateSession, Refuse, ReadLast, Make, At
    <3> QED BY <3>1, <3>2, <3>3 DEF Waits, Keyed
  <2> QED BY <1>2, <1>3, <2>1, FewerLive
<1>9. CASE Rollback(h)
  <2>1. ~Waits(h)' /\ rows' = rows /\ wire' = wire
    BY <1>1, <1>9 DEF Rollback, Step, OnlyHooks, Waits, Keyed
  <2>2. ASSUME At(h, "send") PROVE RowOf(h) \notin Live'
    <3>1. Waits(h) /\ JobHook(h)
      BY <1>9, <2>2 DEF Rollback, Waits, Keyed, At
    <3>2. RowOf(h).at = hook[h].at /\ Made(hook[h].pc)
      BY <3>1, PendingTyped
    <3>3. RowOf(h) \notin rows
      BY <3>1, <3>2 DEF Apart, Clear, Held
    <3>4. \A g \in Hooks : Waits(g)' => RowOf(g)' # RowOf(h)
      <4> SUFFICES ASSUME NEW g \in Hooks, Waits(g)', RowOf(g)' = RowOf(h) PROVE FALSE
        OBVIOUS
      <4>1. g # h /\ Waits(g) /\ RowOf(g) = RowOf(h)
        BY <1>10, <2>1
      <4>2. hook[g].at = hook[h].at /\ Made(hook[g].pc)
        BY <3>2, <4>1, PendingTyped
      <4> QED BY <3>2, <4>1, <4>2 DEF Apart, MadeApart
    <3> QED BY <2>1, <3>3, <3>4, PendingAreNext DEF Live
  <2> QED BY <1>2, <1>3, <2>1, <2>2, FewerLive
<1>5. CASE Index(h)
  <2>1. /\ Waits(h) /\ Waits(h)' /\ RowOf(h)' = RowOf(h) /\ ~At(h, "send")
        /\ rows' = rows /\ wire' = wire
    BY <1>1, <1>5 DEF Index, Step, OnlyHooks, Waits, RowOf, At, Hook, Keyed
  <2> QED BY <1>2, <1>3, <2>1, FewerLive
<1>6. CASE Commit(h)
  <2>1. /\ Waits(h) /\ ~Waits(h)' /\ rows' = rows \cup {RowOf(h)} /\ ~At(h, "send")
        /\ wire' = wire
    BY <1>1, <1>6 DEF Commit, Step, OnlyHooks, Waits, At, Keyed
  <2> QED BY <1>2, <1>3, <2>1, FewerLive
<1>7. CASE Create(h)
  <2> DEFINE n == [RowOf(h) EXCEPT !.pk = inserted + 1]
  <2>1. n \in Row
    <3>1. inserted + 1 \in Nat /\ Made(hook[h].pc)
      BY <1>1, <1>7 DEF Create, At, Made
    <3> QED BY <3>1, RowTyped
  <2>2. /\ ~Waits(h) /\ ~At(h, "send") /\ wire' = wire
        /\ Waits(h)' /\ At(h, "send")' /\ RowOf(h)' = n
        /\ rows' = rows \/ rows' = rows \cup {n}
    BY <1>1, <1>7 DEF Create, OnlyHooks, At, Waits, Keyed, RowOf, Hook
  <2> HIDE DEF n
  <2>3. \A r : r \in Pending' <=> r \in Pending \/ r = n
    BY <1>10, <2>2, PendingAre, PendingAreNext
  <2>4. Live' = Live \cup {n}
    BY <2>2, <2>3 DEF Live
  <2>5. n \in Unsent' /\ Unsent \subseteq Unsent'
    BY <1>10, <2>2, UnsentAre
  <2> QED BY <1>3, <2>1, <2>2, <2>4, <2>5 DEF More
<1>8. CASE Send(h)
  <2> DEFINE n == RowOf(h)
  <2>1. At(h, "send") /\ Waits(h) /\ wire' = Append(wire, n) /\ rows' = rows
    BY <1>8 DEF Send, Waits, Keyed, At
  <2>2. n \in Row /\ n \in Live
    BY <2>1, PendingTyped, PendingAre DEF Live
  <2>3. /\ Waits(h)' => RowOf(h)' = n
        /\ ~Waits(h)' => n \in rows
    <3>1. hook' = [hook EXCEPT ![h].pc = hook'[h].pc]
      BY <1>1, <1>8 DEF Send, Step
    <3>2. RowOf(h)' = n
      BY <1>1, <3>1 DEF RowOf, Hook
    <3>3. ASSUME ~Waits(h)' PROVE n \in rows
      <4>1. ~JobHook(h)
        BY <1>1, <1>8, <3>3 DEF Send, Step, Waits, Keyed
      <4> QED BY <2>1, <4>1 DEF Apart, Clear
    <3> QED BY <3>2, <3>3
  <2> HIDE DEF n
  <2>4. \A r : r \in Pending' => r \in Pending
    <3>1. \A r : r = RowOf(h) <=> r = n
      BY DEF n
    <3> QED BY <1>10, <2>1, <2>3, <3>1, PendingAre, PendingAreNext
  <2>5. \A r : r \in Pending => r \in Pending' \/ r \in rows
    <3> SUFFICES ASSUME NEW g \in Hooks, Waits(g) PROVE RowOf(g) \in Pending' \/ RowOf(g) \in rows
      BY PendingAre
    <3>1. CASE g # h
      BY <1>10, <3>1, PendingAreNext
    <3>2. CASE g = h
      <4>1. RowOf(h) = n
        BY DEF n
      <4> QED BY <2>3, <3>2, <4>1, PendingAreNext
    <3> QED BY <3>1, <3>2
  <2>6. Live' = Live
    BY <2>1, <2>4, <2>5 DEF Live
  <2>7. \A r \in Unsent : r \in Unsent' \/ r = n
    <3> SUFFICES ASSUME NEW g \in Hooks, At(g, "send") PROVE RowOf(g) \in Unsent' \/ RowOf(g) = n
      BY UnsentAre
    <3> QED BY <1>10, UnsentAre DEF n
  <2> QED BY <2>1, <2>2, <2>6, <2>7 DEF Leaves
<1> QED BY <1>4, <1>5, <1>6, <1>7, <1>8, <1>9 DEF Serve

LEMMA LiveByServer ==
  ASSUME TypeInv, Apart, ServerSide
  PROVE  /\ Fewer \/ (\E n \in Row : More(n)) \/ \E n \in Row : Leaves(n)
         /\ gone' = gone \cup (Live \ Live')
         /\ behind' = behind \cup {r.job : r \in Live \ Live'}
<1>1. Fewer \/ (\E n \in Row : More(n)) \/ \E n \in Row : Leaves(n)
  <2>1. CASE \E j \in Jobs : JobStep(j)
    <3>1. UNCHANGED <<rows, hook, wire>>
      BY <2>1 DEF JobStep, Advance, Record
    <3> QED BY <3>1 DEF Fewer, Live, Pending, Unsent, At, RowOf
  <2>2. CASE \E h \in Hooks, j \in Jobs :
               DeliverSession(h, j) \/ \E v \in Statuses : Deliver(h, j, v)
    <3>1. PICK h \in Hooks : Delivered(h)
      BY <2>2 DEF Delivered
    <3>2. /\ \A g \in Hooks \ {h} : Same(g)
          /\ ~Waits(h)' /\ ~At(h, "send") /\ UNCHANGED rows
      BY <3>1, DeliveryKeeps DEF At, Waits, Keyed
    <3>3. wire' = wire
      BY <3>1 DEF Delivered, DeliverSession, Deliver
    <3> QED BY <3>2, <3>3, FewerLive
  <2>3. CASE \E h \in Hooks : Serve(h)
    BY <2>3, LiveByServe
  <2> QED BY <2>1, <2>2, <2>3 DEF ServerSide, ServerNext
<1>2. rows \subseteq rows'
  BY <1>1 DEF Fewer, More, Leaves
<1>3. Live \ Live' = Pending \ (Pending' \cup rows')
  BY <1>2 DEF Live
<1> QED BY <1>1, <1>3 DEF ServerSide

(* Posts that go on, or end, without another row. *)
LEMMA ApartKept ==
  ASSUME TypeInv, Apart, Counted, rows' = rows, gone' = gone,
         \A g \in Hooks : Made(hook'[g].pc) =>
           /\ Made(hook[g].pc) /\ hook'[g].at = hook[g].at
           /\ At(g, "send") /\ ~JobHook(g) => Same(g),
         \A g \in Hooks : At(g, "send")' /\ ~JobHook(g)' => Same(g)
  PROVE  Apart'
<1>1. Held' = Held /\ stamped \in Nat
  BY DEF Held, TypeInv, ServerTypeOK
<1>2. MadeApart'
  BY DEF Apart, MadeApart
<1>3. ASSUME NEW g \in Hooks PROVE Clear(g)'
  <2>1. Clear(g)
    BY DEF Apart
  <2>2. Same(g) => Clear(g)'
    BY <1>1, <2>1 DEF Same, Clear, RowOf, JobHook, At
  <2>3. ASSUME Made(hook'[g].pc), NEW r \in Held, r.at = hook'[g].at PROVE Same(g)
    BY <2>1, <2>3 DEF Clear
  <2> QED BY <1>1, <2>2, <2>3 DEF Clear
<1>4. \A r \in Held : r \in Row /\ r.at <= stamped' /\ r.at \in Nat
  BY <1>1 DEF Apart, Counted, Row
<1> QED BY <1>1, <1>2, <1>3, <1>4 DEF Apart

LEMMA ApartByServe ==
  ASSUME TypeInv, Apart, NEW h \in Hooks, Serve(h),
         gone' = gone \cup (Pending \ (Pending' \cup rows'))
  PROVE  Apart'
<1>1. /\ hook \in [Hooks -> Hook] /\ hook[h] \in Hook /\ Sane(h) /\ stamped \in Nat
      /\ inserted \in Nat /\ \A g \in Hooks \ {h} : Same(g)
  BY ServeKeeps DEF TypeInv, ServerTypeOK
<1>2. \A g \in Hooks \ {h} : (Waits(g)' <=> Waits(g)) /\ RowOf(g)' = RowOf(g)
  BY <1>1 DEF Same, Waits, RowOf
<1>3. ASSUME Waits(h) => (Waits(h)' /\ RowOf(h)' = RowOf(h)) \/ RowOf(h) \in rows',
             rows \subseteq rows'
      PROVE  gone' = gone
  <2>1. \A r \in Pending : r \in Pending' \/ r \in rows'
    <3> SUFFICES ASSUME NEW g \in Hooks, Waits(g)
                 PROVE  RowOf(g) \in Pending' \/ RowOf(g) \in rows'
      BY PendingAre
    <3>1. CASE g = h
      BY <1>3, <3>1, PendingAreNext
    <3>2. CASE g # h
      BY <1>2, <3>2, PendingAreNext
    <3> QED BY <3>1, <3>2
  <2> QED BY <2>1
<1>4. ASSUME rows' = rows, gone' = gone, Counted,
             Made(hook'[h].pc) => Made(hook[h].pc) /\ hook'[h].at = hook[h].at /\
                                   (At(h, "send") => JobHook(h)),
             At(h, "send")' => JobHook(h)'
      PROVE  Apart'
  BY <1>1, <1>4, ApartKept DEF Same
<1>5. CASE Validate(h) \/ ValidateSession(h) \/ Refuse(h) \/ ReadLast(h)
  <2>1. hook'[h].pc \in {"read", "acked", "create", "refused", "failed"}
    <3>1. CASE Validate(h) BY <1>1, <3>1 DEF Validate, Step
    <3>2. CASE ValidateSession(h) BY <1>1, <3>2 DEF ValidateSession, Hook
    <3>3. CASE Refuse(h) BY <1>1, <3>3 DEF Refuse, Step
    <3>4. CASE ReadLast(h) BY <1>1, <3>4 DEF ReadLast, Step
    <3> QED BY <1>5, <3>1, <3>2, <3>3, <3>4
  <2>2. rows' = rows /\ UNCHANGED counts /\ ~Waits(h)
    BY <1>5 DEF Validate, ValidateSession, Refuse, ReadLast, At, Waits, Keyed
  <2> QED BY <1>3, <1>4, <2>1, <2>2, Kept DEF Made, At
<1>6. CASE Make(h)
  <2>1. /\ At(h, "create") /\ stamped' = stamped + 1 /\ hook'[h].at = stamped + 1
        /\ At(h, "insert")' /\ rows' = rows
    BY <1>1, <1>6 DEF Make, At, Hook
  <2>2. gone' = gone /\ Held' = Held
    BY <1>3, <2>1 DEF At, Waits, Keyed, Held
  <2>3. \A g \in Hooks : Made(hook[g].pc) => hook[g].at \in 1..stamped
    BY DEF TypeInv, Sane
  <2>4. MadeApart'
    <3>1. \A g \in Hooks \ {h} : Made(hook[g].pc) => hook[g].at # stamped + 1
      BY <1>1, <2>3
    <3> QED BY <1>1, <2>1, <3>1 DEF Apart, MadeApart, Same
  <2>5. \A r \in Held : r.at <= stamped /\ r.at \in Nat /\ r \in Row
    BY DEF Apart, Row
  <2>6. \A g \in Hooks \ {h} : Clear(g)'
    BY <1>1, <2>1, <2>2 DEF Apart, Clear, Same, At, JobHook, RowOf
  <2>7. Clear(h)'
    BY <1>1, <2>1, <2>2, <2>5 DEF Clear, At
  <2>8. \A r \in Held : r.at <= stamped'
    BY <1>1, <2>1, <2>5
  <2> QED BY <2>1, <2>2, <2>4, <2>5, <2>6, <2>7, <2>8 DEF Apart
<1>7. CASE Create(h)
  <2> DEFINE n == [RowOf(h) EXCEPT !.pk = inserted + 1]
  <2>1. n \in Row
    <3>1. inserted + 1 \in Nat /\ Made(hook[h].pc)
      BY <1>1, <1>7 DEF Create, At, Made
    <3> QED BY <3>1, RowTyped
  <2>2. /\ At(h, "insert") /\ Made(hook[h].pc) /\ ~Waits(h)
        /\ stamped' = stamped /\ At(h, "send")' /\ Made(hook'[h].pc)
        /\ hook'[h].at = hook[h].at /\ hook[h].at \in 1..stamped
        /\ (JobHook(h)' <=> JobHook(h)) /\ RowOf(h)' = n /\ n.at = hook[h].at
        /\ rows' = IF JobHook(h) THEN rows ELSE rows \cup {n}
    BY <1>1, <1>7 DEF Create, At, Hook, JobHook, RowOf, Made, Sane, Waits, Keyed
  <2> HIDE DEF n
  <2>3. gone' = gone
    BY <1>3, <2>2
  <2>4. CASE JobHook(h)
    <3>1. Counted
      BY <1>1, <1>7 DEF Create, Counted
    <3> QED BY <1>4, <2>2, <2>3, <2>4, <3>1
  <2>5. CASE ~JobHook(h)
    <3>1. Held' = Held \cup {n}
      BY <2>2, <2>3, <2>5 DEF Held
    <3>2. \A r \in Held : r.at # n.at
      BY <2>2 DEF Apart, Clear, At
    <3>3. MadeApart'
      BY <1>1, <2>2 DEF Apart, MadeApart, Same
    <3>4. Clear(h)'
      BY <2>2, <2>5, <3>1, <3>2 DEF Clear
    <3>5. ASSUME NEW g \in Hooks \ {h} PROVE Clear(g)'
      <4>1. Made(hook[g].pc) => hook[g].at # n.at
        BY <2>2 DEF Apart, MadeApart
      <4> QED BY <1>1, <2>2, <3>1, <4>1 DEF Apart, Clear, Same, At, JobHook, RowOf
    <3>6. \A r \in Held' : r \in Row /\ r.at <= stamped'
      BY <1>1, <2>1, <2>2, <3>1 DEF Apart
    <3>7. \A q, r \in Held' : q.at = r.at => q = r
      BY <3>1, <3>2 DEF Apart
    <3>8. rows' \cap gone' = {}
      BY <2>2, <2>3, <3>2 DEF Apart, Held
    <3> QED BY <3>3, <3>4, <3>5, <3>6, <3>7, <3>8 DEF Apart
  <2> QED BY <2>4, <2>5
<1>8. CASE Send(h)
  <2>1. /\ At(h, "send") /\ rows' = rows /\ UNCHANGED counts /\ Waits(h)
        /\ hook'[h].at = hook[h].at /\ RowOf(h)' = RowOf(h)
        /\ IF JobHook(h) THEN hook'[h].pc \in {"index", "commit"} ELSE hook'[h].pc = "acked"
    BY <1>1, <1>8 DEF Send, Step, At, Waits, Keyed, Hook, RowOf
  <2>2. Waits(h)' \/ RowOf(h) \in rows'
    BY <2>1 DEF Apart, Clear, Waits, Keyed
  <2>3. gone' = gone
    BY <1>3, <2>1, <2>2
  <2>4. Counted
    BY <2>1, Kept
  <2> QED BY <1>4, <2>1, <2>3, <2>4 DEF Made, At
<1>9. CASE Index(h)
  <2>1. /\ rows' = rows /\ UNCHANGED counts /\ Waits(h) /\ Waits(h)' /\ ~At(h, "send")
        /\ ~At(h, "send")' /\ hook'[h].at = hook[h].at /\ RowOf(h)' = RowOf(h)
        /\ Made(hook[h].pc)
    BY <1>1, <1>9 DEF Index, Step, At, Waits, Keyed, Hook, RowOf, Made
  <2>2. gone' = gone
    BY <1>3, <2>1
  <2>3. Counted
    BY <2>1, Kept
  <2> QED BY <1>4, <2>1, <2>2, <2>3
<1>10. CASE Commit(h)
  <2> DEFINE n == RowOf(h)
  <2>1. /\ Waits(h) /\ rows' = rows \cup {n} /\ UNCHANGED counts /\ ~Made(hook'[h].pc)
        /\ ~At(h, "send") /\ ~At(h, "send")' /\ stamped' = stamped
    BY <1>1, <1>10 DEF Commit, Step, At, Waits, Keyed, Made, counts
  <2>2. n \in Row /\ n.at = hook[h].at /\ n.at \in 1..stamped /\ Made(hook[h].pc)
    BY <2>1, PendingTyped
  <2>3. gone' = gone
    BY <1>3, <2>1
  <2>4. \A r \in Held : r.at # n.at
    BY <2>1, <2>2 DEF Apart, Clear
  <2>5. \A g \in Hooks \ {h} : Made(hook[g].pc) => hook[g].at # n.at
    BY <2>2 DEF Apart, MadeApart
  <2> HIDE DEF n
  <2>6. Held' = Held \cup {n}
    BY <2>1, <2>3 DEF Held
  <2>7. MadeApart'
    BY <1>1, <2>1 DEF Apart, MadeApart, Same
  <2>8. Clear(h)'
    BY <2>1 DEF Clear
  <2>9. \A g \in Hooks \ {h} : Clear(g)'
    BY <1>1, <2>1, <2>5, <2>6 DEF Apart, Clear, Same, At, JobHook, RowOf
  <2>10. \A r \in Held' : r \in Row /\ r.at <= stamped'
    BY <1>1, <2>1, <2>2, <2>6 DEF Apart
  <2>11. \A q, r \in Held' : q.at = r.at => q = r
    BY <2>4, <2>6 DEF Apart
  <2>12. rows' \cap gone' = {}
    BY <2>1, <2>3, <2>4 DEF Apart, Held
  <2> QED BY <2>7, <2>8, <2>9, <2>10, <2>11, <2>12 DEF Apart
<1>11. CASE Rollback(h)
  <2> DEFINE n == RowOf(h)
  <2>1. /\ ~Made(hook'[h].pc) /\ ~Waits(h)' /\ ~At(h, "send")' /\ rows' = rows
        /\ UNCHANGED counts /\ stamped' = stamped /\ (At(h, "send") => JobHook(h))
    BY <1>1, <1>11 DEF Rollback, Step, At, Waits, Keyed, Made, counts
  <2>2. CASE ~Waits(h)
    <3>1. gone' = gone
      BY <1>3, <2>1, <2>2
    <3>2. Counted
      BY <2>1, Kept
    <3> QED BY <1>4, <2>1, <3>1, <3>2
  <2>3. CASE Waits(h)
    <3>1. n \in Row /\ n.at = hook[h].at /\ n.at \in 1..stamped /\ Made(hook[h].pc)
      BY <2>3, PendingTyped
    <3>2. \A r \in Held : r.at # n.at
      BY <2>1, <3>1 DEF Apart, Clear
    <3>3. \A g \in Hooks \ {h} : Made(hook[g].pc) => hook[g].at # n.at
      BY <3>1 DEF Apart, MadeApart
    <3>4. gone \subseteq gone' /\ gone' \subseteq gone \cup {n}
      <4>1. \A r \in Pending : r \in Pending' \/ r = n
        <5> SUFFICES ASSUME NEW g \in Hooks, Waits(g) PROVE RowOf(g) \in Pending' \/ RowOf(g) = n
          BY PendingAre
        <5> QED BY <1>2, PendingAreNext
      <4> QED BY <4>1
    <3> HIDE DEF n
    <3>5. Held \subseteq Held' /\ Held' \subseteq Held \cup {n}
      BY <2>1, <3>4 DEF Held
    <3>6. MadeApart'
      BY <1>1, <2>1 DEF Apart, MadeApart, Same
    <3>7. Clear(h)'
      BY <2>1 DEF Clear
    <3>8. \A g \in Hooks \ {h} : Clear(g)'
      BY <1>1, <2>1, <3>3, <3>5 DEF Apart, Clear, Same, At, JobHook, RowOf
    <3>9. \A r \in Held' : r \in Row /\ r.at <= stamped'
      BY <1>1, <2>1, <3>1, <3>5 DEF Apart
    <3>10. \A q, r \in Held' : q.at = r.at => q = r
      BY <3>2, <3>5 DEF Apart
    <3>11. rows' \cap gone' = {}
      BY <2>1, <3>2, <3>4 DEF Apart, Held
    <3> QED BY <3>6, <3>7, <3>8, <3>9, <3>10, <3>11 DEF Apart
  <2> QED BY <2>2, <2>3
<1> QED BY <1>5, <1>6, <1>7, <1>8, <1>9, <1>10, <1>11 DEF Serve

LEMMA WireByServer ==
  ASSUME TypeInv, WireInv, ServerSide
  PROVE  WireInv'
<1>1. Apart /\ wire \in Seq(Row) /\ gone' = gone \cup (Pending \ (Pending' \cup rows'))
  BY DEF WireInv, ServerSide, TypeInv, ServerTypeOK
<1>2. Apart'
  <2>1. CASE \E h \in Hooks : Serve(h)
    BY <1>1, <2>1, ApartByServe
  <2>2. CASE \E h \in Hooks : Delivered(h)
    <3>1. PICK h \in Hooks : Delivered(h)
      BY <2>2
    <3>2. /\ \A g \in Hooks \ {h} : Same(g)
          /\ At(h, "unsent") /\ At(h, "validate")' /\ UNCHANGED <<rows, counts>>
      BY <3>1, DeliveryKeeps
    <3>3. \A r \in Pending : r \in Pending'
      BY <3>2, PendingAre, PendingAreNext DEF Same, Waits, Keyed, At, RowOf
    <3>4. gone' = gone
      BY <1>1, <3>3
    <3> QED BY <1>1, <3>2, <3>4, Kept, ApartKept DEF Same, At, Made
  <2>3. CASE \E j \in Jobs : JobStep(j)
    <3>1. UNCHANGED <<rows, hook, counts>>
      BY <2>3 DEF JobStep, Advance, Record
    <3>2. Pending' = Pending
      BY <3>1 DEF Pending, RowOf
    <3>3. gone' = gone
      BY <1>1, <3>2
    <3> QED BY <1>1, <3>1, <3>3, Kept, ApartKept DEF Same, At
  <2> QED BY <2>1, <2>2, <2>3 DEF ServerSide, ServerNext, Delivered
<1>3. Posted \subseteq Posted'
  BY <1>1, LiveByServer DEF Posted
<1>4. \A i \in 1..Len(wire') : wire'[i] \in Posted'
  <2>1. CASE wire' = wire
    BY <1>3, <2>1 DEF WireInv
  <2>2. ASSUME NEW n \in Row, Leaves(n) PROVE \A i \in 1..Len(wire') : wire'[i] \in Posted'
    <3>1. n \in Posted' /\ wire' = Append(wire, n)
      BY <1>3, <2>2 DEF Leaves, Posted
    <3>2. \A i \in 1..Len(wire') : (i \in 1..Len(wire) /\ wire'[i] = wire[i]) \/ wire'[i] = n
      BY <1>1, <3>1
    <3> QED BY <1>3, <3>1, <3>2 DEF WireInv
  <2> QED BY <1>1, <2>1, <2>2, LiveByServer DEF Fewer, More
<1> QED BY <1>2, <1>4 DEF WireInv

(* The head of the wire is what the step takes. *)
LEMMA TakenIs ==
  ASSUME TypeInv, Taken
  PROVE  /\ wire \in Seq(Row) /\ Len(wire) \in Nat /\ Len(wire) >= 1 /\ Head(wire) = wire[1]
         /\ Len(wire') = Len(wire) - 1
         /\ \A i \in 1..Len(wire') : wire'[i] = wire[i + 1] /\ i + 1 \in 1..Len(wire)
         /\ \A i \in 1..Len(wire) : i # 1 => i - 1 \in 1..Len(wire') /\ wire'[i - 1] = wire[i]
         /\ Live' = Live /\ rows' = rows /\ Unsent' = Unsent /\ hook' = hook /\ stamped' = stamped
<1>1. wire \in Seq(Row) /\ wire # <<>> /\ wire' = Tail(wire)
  BY DEF Taken, TypeInv, ServerTypeOK
<1>2. Len(wire) \in Nat /\ Len(wire) >= 1 /\ Head(wire) = wire[1] /\ Len(wire') = Len(wire) - 1
  BY <1>1
<1>3. \A i \in 1..Len(wire') : wire'[i] = wire[i + 1] /\ i + 1 \in 1..Len(wire)
  BY <1>1, <1>2
<1>4. \A i \in 1..Len(wire) : i # 1 => i - 1 \in 1..Len(wire') /\ wire'[i - 1] = wire[i]
  <2> SUFFICES ASSUME NEW i \in 1..Len(wire), i # 1
               PROVE  i - 1 \in 1..Len(wire') /\ wire'[i - 1] = wire[i]
    OBVIOUS
  <2>1. i - 1 \in 1..Len(wire') /\ (i - 1) + 1 = i
    BY <1>2
  <2> QED BY <1>3, <2>1
<1>5. Live' = Live /\ rows' = rows /\ Unsent' = Unsent /\ hook' = hook /\ stamped' = stamped
  BY DEF Taken, Live, Pending, Unsent, At, RowOf, counts
<1> QED BY <1>1, <1>2, <1>3, <1>4, <1>5

LEMMA WireByTaken ==
  ASSUME TypeInv, WireInv, Taken, gone' = gone
  PROVE  WireInv'
<1>1. Posted' = Posted /\ Counted /\ rows' = rows /\ hook' = hook
  BY TakenIs, Kept DEF Posted, Taken
<1>2. \A i \in 1..Len(wire') : wire'[i] \in Posted'
  BY <1>1, TakenIs DEF WireInv
<1>3. Apart'
  BY <1>1, ApartKept DEF WireInv, Same, At
<1> QED BY <1>2, <1>3 DEF WireInv
-----------------------------------------------------------------------------
(* What the browser has seen.                                              *)

Coming(r) == \E k \in 1..Len(wire) : wire[k] = r

(* On the wire, or still to be sent. *)
OnWay(r) == Coming(r) \/ r \in Unsent

Latest(j, r) == r \in Live /\ r.job = j /\ \A q \in Live : q.job = j => q.at <= r.at

Shown(j, r) == About(notifs, j) # {} /\ First(notifs, j) = r

(* Of a job the browser is not behind on, the latest row is on its way or  *)
(* the first one listed.                                                   *)
SeenInv ==
  /\ \A r \in gone : Coming(r) => r.job \in behind
  /\ \A j \in Jobs \ behind, r \in Live : Latest(j, r) => OnWay(r) \/ Shown(j, r)

LEMMA ElementsAre ==
  ASSUME NEW s \in Seq(Row)
  PROVE  \A r : r \in Elements(s) <=> \E k \in 1..Len(s) : s[k] = r
BY DEF Elements

LEMMA SeenByServer ==
  ASSUME TypeInv, WireInv, SeenInv, ServerSide
  PROVE  SeenInv'
<1>1. wire \in Seq(Row)
  BY DEF TypeInv, ServerTypeOK
<1>2. /\ gone' = gone \cup (Live \ Live')
      /\ behind' = behind \cup {r.job : r \in Live \ Live'}
      /\ Fewer \/ (\E n \in Row : More(n)) \/ \E n \in Row : Leaves(n)
  BY LiveByServer DEF WireInv
<1>3. \A j, r : Shown(j, r)' <=> Shown(j, r)
  BY DEF ServerSide, browser, Shown
<1>4. CASE Fewer
  <2>1. wire' = wire /\ Live' \subseteq Live
    BY <1>4 DEF Fewer
  <2>2. \A r : Coming(r)' <=> Coming(r)
    BY <2>1 DEF Coming
  <2>3. \A r \in gone' : Coming(r)' => r.job \in behind'
    BY <1>2, <2>2 DEF SeenInv
  <2>4. ASSUME NEW j \in Jobs \ behind', NEW r \in Live', Latest(j, r)'
        PROVE  OnWay(r)' \/ Shown(j, r)'
    <3>1. \A q \in Live : q.job = j => q \in Live'
      BY <1>2, <2>4
    <3>2. Latest(j, r) /\ j \in Jobs \ behind /\ r \in Live
      BY <1>2, <2>1, <2>4, <3>1 DEF Latest
    <3>3. r \in Unsent => r \in Unsent'
      BY <1>4, <2>4 DEF Fewer
    <3> QED BY <1>3, <2>2, <3>2, <3>3 DEF SeenInv, OnWay
  <2> QED BY <2>3, <2>4 DEF SeenInv
<1>5. ASSUME NEW n \in Row, More(n) PROVE SeenInv'
  <2>1. /\ Live' = Live \cup {n} /\ gone' = gone /\ behind' = behind /\ wire' = wire
        /\ n \in Unsent' /\ Unsent \subseteq Unsent'
    BY <1>2, <1>5 DEF More
  <2>2. \A r : Coming(r)' <=> Coming(r)
    BY <2>1 DEF Coming
  <2>3. \A r \in gone' : Coming(r)' => r.job \in behind'
    BY <2>1, <2>2 DEF SeenInv
  <2>4. ASSUME NEW j \in Jobs \ behind', NEW r \in Live', Latest(j, r)'
        PROVE  OnWay(r)' \/ Shown(j, r)'
    <3>1. CASE r = n
      BY <2>1, <3>1 DEF OnWay
    <3>2. CASE r # n
      <4>1. Latest(j, r) /\ r \in Live /\ j \in Jobs \ behind
        BY <2>1, <2>4, <3>2 DEF Latest
      <4> QED BY <1>3, <2>1, <2>2, <4>1 DEF SeenInv, OnWay
    <3> QED BY <3>1, <3>2
  <2> QED BY <2>3, <2>4 DEF SeenInv
<1>6. ASSUME NEW n \in Row, Leaves(n) PROVE SeenInv'
  <2>1. /\ Live' = Live /\ gone' = gone /\ behind' = behind /\ wire' = Append(wire, n)
        /\ n \in Live /\ \A r \in Unsent : r \in Unsent' \/ r = n
    BY <1>2, <1>6 DEF Leaves
  <2>2. /\ Len(wire) \in Nat /\ Len(wire') = Len(wire) + 1 /\ wire'[Len(wire) + 1] = n
        /\ \A i \in 1..Len(wire) : wire'[i] = wire[i]
    BY <1>1, <2>1
  <2>3. Coming(n)' /\ \A r : Coming(r) => Coming(r)'
    BY <2>2 DEF Coming
  <2>4. \A r : Coming(r)' => Coming(r) \/ r = n
    <3> SUFFICES ASSUME NEW r, NEW k \in 1..Len(wire'), wire'[k] = r
                 PROVE  Coming(r) \/ r = n
      BY DEF Coming
    <3>1. k \in 1..Len(wire) \/ k = Len(wire) + 1
      BY <2>2
    <3> QED BY <2>2, <3>1 DEF Coming
  <2>5. n \notin gone
    BY <2>1, PostedAre DEF WireInv
  <2>6. \A r \in gone' : Coming(r)' => r.job \in behind'
    BY <2>1, <2>4, <2>5 DEF SeenInv
  <2>7. ASSUME NEW j \in Jobs \ behind', NEW r \in Live', Latest(j, r)'
        PROVE  OnWay(r)' \/ Shown(j, r)'
    <3>1. Latest(j, r) /\ r \in Live /\ j \in Jobs \ behind
      BY <2>1, <2>7 DEF Latest
    <3>2. OnWay(r) \/ Shown(j, r)
      BY <3>1 DEF SeenInv
    <3>3. OnWay(r) => OnWay(r)'
      BY <2>1, <2>3 DEF OnWay
    <3> QED BY <1>3, <3>2, <3>3
  <2> QED BY <2>6, <2>7 DEF SeenInv
<1> QED BY <1>2, <1>4, <1>5, <1>6

(* Every message but the one taken is still on its way. *)
LEMMA ComingByTaken ==
  ASSUME TypeInv, WireInv, Taken
  PROVE  /\ Head(wire) \in Row /\ Head(wire) \in Posted /\ Coming(Head(wire))
         /\ \A r : Coming(r) => r = Head(wire) \/ Coming(r)'
         /\ \A r : Coming(r)' => Coming(r)
<1>1. 1 \in 1..Len(wire) /\ Head(wire) = wire[1]
  BY TakenIs
<1>2. Head(wire) \in Posted /\ Coming(Head(wire)) /\ Head(wire) \in Row
  BY <1>1, PostedAre DEF WireInv, Coming
<1>3. \A r : Coming(r) => r = Head(wire) \/ Coming(r)'
  BY <1>1, TakenIs DEF Coming
<1>4. \A r : Coming(r)' => Coming(r)
  BY TakenIs DEF Coming
<1> QED BY <1>2, <1>3, <1>4

LEMMA SeenByReceive ==
  ASSUME TypeInv, WireInv, SeenInv, notifs \in Seq(Row), Taken,
         NewNotification(Head(wire)), behind' = BehindWith(Head(wire)), gone' = gone
  PROVE  SeenInv'
<1> DEFINE m == Head(wire)
           last == /\ \A r \in Live : r.job = m.job => r.at <= m.at
                   /\ \A r \in gone : Coming(r) => r.job # m.job
<1>1. /\ m \in Row /\ m \in Posted /\ Coming(m)
      /\ \A r : Coming(r) => r = m \/ Coming(r)'
      /\ \A r : Coming(r)' => Coming(r)
  BY ComingByTaken
<1>2. Live' = Live /\ Unsent' = Unsent
  BY TakenIs
<1>3. behind' = IF last THEN behind \ {m.job} ELSE behind \cup {m.job}
  <2>1. wire \in Seq(Row)
    BY DEF TypeInv, ServerTypeOK
  <2>2. \A r : r \in Elements(wire) <=> Coming(r)
    BY <2>1, ElementsAre DEF Coming
  <2>3. last <=> /\ \A r \in rows \cup Pending : r.job = m.job => r.at <= m.at
                 /\ \A r \in gone \cap Elements(wire) : r.job # m.job
    BY <2>2 DEF Live
  <2> HIDE DEF last
  <2> QED BY <2>3 DEF BehindWith
<1>4. notifs' = <<m>> \o notifs
  BY DEF NewNotification
<1>5. /\ \A q, r \in Live : q.at = r.at => q = r
      /\ \A r \in Live : r.at \in Nat
  BY PostedAre DEF WireInv, Posted
<1> HIDE DEF m
<1>6. ASSUME NEW r \in gone', Coming(r)' PROVE r.job \in behind'
  <2>1. r \in gone /\ Coming(r) /\ r.job \in behind
    BY <1>1, <1>6 DEF SeenInv
  <2> QED BY <1>3, <2>1
<1>7. ASSUME NEW j \in Jobs \ behind', NEW r \in Live', Latest(j, r)'
      PROVE  OnWay(r)' \/ Shown(j, r)'
  <2>1. Latest(j, r) /\ r \in Live /\ r \in Posted /\ r.job = j
    BY <1>2, <1>7 DEF Latest, Posted
  <2>2. CASE j = m.job
    <3>1. About(notifs', j) # {} /\ First(notifs', j) = m
      BY <1>1, <1>4, <2>2, FirstOfNew
    <3>2. r = m => Shown(j, r)'
      BY <3>1 DEF Shown
    <3>3. last
      BY <1>3, <1>7, <2>2
    <3>4. m \in Live
      BY <1>1, <3>3 DEF Posted
    <3>5. m.at <= r.at /\ r.at <= m.at
      BY <2>1, <2>2, <3>3, <3>4 DEF Latest
    <3>6. r = m
      BY <1>5, <2>1, <3>4, <3>5
    <3> QED BY <3>2, <3>6
  <2>3. CASE j # m.job
    <3>1. j \in Jobs \ behind
      BY <1>3, <1>7, <2>3
    <3>2. OnWay(r) \/ Shown(j, r)
      BY <2>1, <3>1 DEF SeenInv
    <3>3. OnWay(r) => OnWay(r)'
      BY <1>1, <1>2, <2>1, <2>3 DEF OnWay
    <3>4. Shown(j, r) => Shown(j, r)'
      BY <1>1, <1>4, <2>3, FirstOfNew DEF Shown
    <3> QED BY <3>2, <3>3, <3>4
  <2> QED BY <2>2, <2>3
<1> QED BY <1>6, <1>7 DEF SeenInv

LEMMA SeenByLose ==
  ASSUME TypeInv, WireInv, SeenInv, Lose
  PROVE  SeenInv'
<1>1. /\ Taken /\ behind' = behind \cup {Head(wire).job} /\ gone' = gone /\ notifs' = notifs
  BY DEF Lose, browser
<1>2. Live' = Live /\ Unsent' = Unsent
  BY <1>1, TakenIs
<1>3. \A j, r : Shown(j, r)' <=> Shown(j, r)
  BY <1>1 DEF Shown
<1>4. \A r \in gone' : Coming(r)' => r.job \in behind'
  BY <1>1, ComingByTaken DEF SeenInv
<1>5. ASSUME NEW j \in Jobs \ behind', NEW r \in Live', Latest(j, r)'
      PROVE  OnWay(r)' \/ Shown(j, r)'
  <2>1. Latest(j, r) /\ r \in Live /\ r.job = j /\ j \in Jobs \ behind /\ j # Head(wire).job
    BY <1>1, <1>2, <1>5 DEF Latest
  <2>2. OnWay(r) \/ Shown(j, r)
    BY <2>1 DEF SeenInv
  <2> QED BY <1>1, <1>2, <1>3, <2>1, <2>2, ComingByTaken DEF OnWay
<1> QED BY <1>4, <1>5 DEF SeenInv

(* A listing that was answered holds committed rows, the newest first. *)
FetchInv ==
  ntfFetch.pc = "answered" =>
    /\ ntfFetch.got \in Seq(Row)
    /\ \A i \in 1..Len(ntfFetch.got) : ntfFetch.got[i] \in rows
    /\ \A a, b \in 1..Len(ntfFetch.got) : a < b => ntfFetch.got[a].at > ntfFetch.got[b].at

LEMMA SeenByListing ==
  ASSUME TypeInv, WireInv, SeenInv, FetchInv, ApplyNotifications
  PROVE  SeenInv'
<1> DEFINE got == ntfFetch.got
<1>1. /\ got \in Seq(Row)
      /\ \A i \in 1..Len(got) : got[i] \in rows
      /\ \A a, b \in 1..Len(got) : a < b => got[a].at > got[b].at
  BY DEF ApplyNotifications, FetchInv
<1>2. /\ notifs' = got /\ behind' = BehindAfter(got) /\ gone' = gone
      /\ UNCHANGED <<rows, hook, wire>>
  BY DEF ApplyNotifications, OnlyBrowser, server
<1> HIDE DEF got
<1>3. Live' = Live /\ Unsent' = Unsent /\ \A r : Coming(r)' <=> Coming(r)
  BY <1>2 DEF Live, Pending, Unsent, At, RowOf, Coming
<1>4. wire \in Seq(Row)
  BY DEF TypeInv, ServerTypeOK
<1>5. \A j : j \in behind' <=>
        \/ \E r \in Live : r.job = j /\ ~(\E k \in 1..Len(got) : got[k] = r) /\ ~OnWay(r)
        \/ \E r \in gone : r.job = j /\ Coming(r)
  BY <1>1, <1>2, <1>4, ElementsAre DEF BehindAfter, Coming, OnWay, Live
<1>6. \A r \in gone' : Coming(r)' => r.job \in behind'
  BY <1>2, <1>3, <1>5
<1>7. ASSUME NEW j \in Jobs \ behind', NEW r \in Live', Latest(j, r)', ~OnWay(r)'
      PROVE  Shown(j, r)'
  <2>1. r \in Live /\ r.job = j /\ \A q \in Live : q.job = j => q.at <= r.at
    BY <1>3, <1>7 DEF Latest
  <2>2. PICK i \in 1..Len(got) : got[i] = r
    BY <1>3, <1>5, <1>7, <2>1 DEF OnWay
  <2>3. About(got, j) # {}
    BY <2>1, <2>2 DEF About
  <2>4. PICK f \in 1..Len(got) : /\ First(got, j) = got[f] /\ got[f].job = j
                                 /\ \A k \in 1..Len(got) : got[k].job = j => f <= k
    BY <1>1, <2>3, FirstExists
  <2>5. f <= i /\ got[f] \in Live
    BY <1>1, <2>1, <2>2, <2>4 DEF Live
  <2>6. got[f].at <= r.at /\ got[f].at \in Nat /\ r.at \in Nat
    BY <2>1, <2>4, <2>5, PostedAre DEF WireInv, Posted
  <2>7. ~(f < i)
    BY <1>1, <2>2, <2>6
  <2>8. f = i
    BY <2>5, <2>7
  <2> QED BY <1>2, <2>2, <2>3, <2>4, <2>8 DEF Shown
<1> QED BY <1>6, <1>7 DEF SeenInv

-----------------------------------------------------------------------------
(* The table of jobs.                                                      *)

(* A job listed shows what the first of its notifications says. *)
TableInv ==
  \A j \in Jobs \ aside :
    table[j] # Absent /\ About(notifs, j) # {} => table[j] = First(notifs, j).status

(* A job that was submitted has a status. *)
DetailsInv ==
  /\ \A j \in recorded : stage[j] > 0
  /\ detFetch # Idle => detFetch.job \in Jobs /\ stage[detFetch.job] > 0
  /\ detFetch.pc = "answered" => detFetch.got \in Statuses

FeedInv ==
  TypeInv /\ TypeOK /\ WireInv /\ SeenInv /\ FetchInv /\ TableInv /\ DetailsInv

LEMMA FeedStart == FeedInit => FeedInv
<1> SUFFICES ASSUME FeedInit PROVE FeedInv
  OBVIOUS
<1>1. TypeInv
  BY TypeInit DEF FeedInit
<1>2. rows = {} /\ Pending = {} /\ gone = {} /\ wire = <<>> /\ recorded = {} /\ notifs = <<>>
  BY DEF FeedInit, Init, Pending
<1>8. \A h \in Hooks : hook[h].pc = "unsent"
  BY DEF FeedInit, Init
<1>3. WireInv /\ SeenInv
  BY <1>2, <1>8 DEF WireInv, SeenInv, Posted, Live, Coming, Apart, Held, MadeApart, Clear, Made, At
<1>4. ntfFetch.pc # "answered" /\ table = Empty /\ detFetch = Idle
  BY DEF FeedInit, Sent, Idle
<1>5. TypeOK
  <2>1. ntfFetch.pc = "sent" /\ notifs \in Seq(Row) /\ table \in Table /\ jobFetch \in Fetch(Table)
    BY DEF FeedInit, Sent, Empty, Table, Fetch
  <2> QED BY <1>1, <2>1 DEF TypeInv, TypeOK, FeedInit
<1>6. FetchInv /\ DetailsInv
  BY <1>2, <1>4 DEF FetchInv, DetailsInv, Idle
<1>7. TableInv
  BY <1>4 DEF TableInv, Empty
<1> QED BY <1>1, <1>3, <1>5, <1>6, <1>7 DEF FeedInv

LEMMA ToldTyped ==
  ASSUME NEW t \in Table, NEW events \in Seq(Row)
  PROVE  /\ Told(t, events) \in Table
         /\ \A j \in Jobs : t[j] = Absent => Told(t, events)[j] = Absent
         /\ \A j \in Jobs : t[j] # Absent /\ About(events, j) # {} =>
                              Told(t, events)[j] = First(events, j).status
         /\ \A j \in Jobs : About(events, j) = {} => Told(t, events)[j] = t[j]
<1>1. \A j \in Jobs : About(events, j) # {} => First(events, j).status \in Statuses
  <2> SUFFICES ASSUME NEW j \in Jobs, About(events, j) # {}
               PROVE  First(events, j).status \in Statuses
    OBVIOUS
  <2>1. PICK i \in 1..Len(events) : First(events, j) = events[i]
    BY FirstExists
  <2>2. events[i] \in Row
    OBVIOUS
  <2> QED BY <2>1, <2>2 DEF Row
<1> QED BY <1>1 DEF Told, Table

(* Jobs keep the statuses they have had. *)
LEMMA StageStep ==
  ASSUME TypeInv, [Next]_server
  PROVE  \A j \in Jobs : stage[j] > 0 => stage'[j] > 0
<1>1. stage \in [Jobs -> 0..Len(Life)] /\ Len(Life) \in Nat
  BY LifeAssumption DEF TypeInv, ServerTypeOK
<1>2. CASE stage' = stage
  BY <1>2
<1>3. ASSUME NEW j \in Jobs, Advance(j) PROVE \A k \in Jobs : stage[k] > 0 => stage'[k] > 0
  BY <1>1, <1>3 DEF Advance
<1>4. CASE \E h \in Hooks : Serve(h)
  <2>1. stage' = stage
    BY <1>4 DEF Serve, Validate, ValidateSession, Refuse, ReadLast, Make, Create, Send,
      Index, Commit, Rollback, OnlyHooks, tapis
  <2> QED BY <2>1
<1>5. CASE \E h \in Hooks, j \in Jobs :
             DeliverSession(h, j) \/ \E v \in Statuses : Deliver(h, j, v)
  <2>1. stage' = stage
    BY <1>5 DEF DeliverSession, Deliver, tapis
  <2> QED BY <2>1
<1>6. CASE Taken \/ (\E j \in Jobs : Record(j)) \/ UNCHANGED server
  <2>1. stage' = stage
    BY <1>6 DEF Taken, Record, server, tapis
  <2> QED BY <2>1
<1> QED BY <1>2, <1>3, <1>4, <1>5, <1>6 DEF Next, ServerNext, JobStep

LEMMA RecordedStep ==
  ASSUME TypeInv, [Next]_server
  PROVE  \A j \in recorded' : j \in recorded \/ stage[j] > 0
<1>1. CASE \E h \in Hooks : Serve(h)
  <2>1. recorded' = recorded
    BY <1>1 DEF Serve, Validate, ValidateSession, Refuse, ReadLast, Make, Create, Send,
      Index, Commit, Rollback, OnlyHooks, tapis
  <2> QED BY <2>1
<1>2. CASE \E h \in Hooks, j \in Jobs :
             DeliverSession(h, j) \/ \E v \in Statuses : Deliver(h, j, v)
  <2>1. recorded' = recorded
    BY <1>2 DEF DeliverSession, Deliver, tapis
  <2> QED BY <2>1
<1>3. CASE \E j \in Jobs : JobStep(j)
  BY <1>3 DEF JobStep, Advance, Record
<1>4. CASE Taken \/ UNCHANGED server
  BY <1>4 DEF Taken, server, tapis
<1> QED BY <1>1, <1>2, <1>3, <1>4 DEF Next, ServerNext
-----------------------------------------------------------------------------
(* Every step of the feed.                                                 *)

(* What a step of anybody but the pages does to the details asked for. *)
LEMMA DetailsKept ==
  ASSUME FeedInv, [Next]_server, detFetch' \in {Idle, detFetch}
  PROVE  DetailsInv'
<1>1. \A j \in recorded' : stage'[j] > 0
  <2>1. \A j \in recorded' : stage[j] > 0 /\ j \in Jobs
    BY RecordedStep, TypeStep DEF FeedInv, DetailsInv, TypeInv, ServerTypeOK
  <2> QED BY <2>1, StageStep DEF FeedInv
<1>2. detFetch' # Idle => detFetch' = detFetch /\ stage'[detFetch.job] > 0
  BY StageStep DEF FeedInv, DetailsInv
<1>3. Idle.pc # "answered"
  BY DEF Idle
<1> QED BY <1>1, <1>2, <1>3 DEF FeedInv, DetailsInv

LEMMA FeedByServer ==
  ASSUME FeedInv, ServerSide
  PROVE  FeedInv'
<1>1. [Next]_server /\ UNCHANGED browser /\ aside' = aside
  BY DEF ServerSide, Next
<1>2. TypeInv'
  BY <1>1, TypeStep DEF FeedInv
<1>3. WireInv' /\ SeenInv'
  BY WireByServer, SeenByServer DEF FeedInv
<1>4. rows \subseteq rows' /\ gone' = gone \cup (Live \ Live')
      /\ behind' = behind \cup {r.job : r \in Live \ Live'}
  BY LiveByServer DEF FeedInv, WireInv, Fewer, More, Leaves
<1>5. TypeOK'
  <2>1. \A r \in Live : r \in Row /\ r.job \in Jobs
    BY PostedAre DEF FeedInv, WireInv, Posted, Row
  <2>2. gone' \subseteq Row /\ behind' \subseteq Jobs
    BY <1>4, <2>1 DEF FeedInv, TypeOK
  <2> QED BY <1>1, <1>2, <2>2 DEF FeedInv, TypeOK, TypeInv, browser
<1>6. FetchInv' /\ TableInv'
  BY <1>1, <1>4 DEF FeedInv, FetchInv, TableInv, browser
<1>7. DetailsInv'
  BY <1>1, DetailsKept DEF browser
<1> QED BY <1>2, <1>3, <1>5, <1>6, <1>7 DEF FeedInv

LEMMA FeedByReceive ==
  ASSUME FeedInv, Receive
  PROVE  FeedInv'
<1> DEFINE m == Head(wire)
<1>1. /\ Taken /\ NewNotification(m) /\ behind' = BehindWith(m)
      /\ gone' = gone /\ UNCHANGED <<ntfFetch, detFetch, visited>>
  BY DEF Receive, ReceiveListed, ReceiveUnlisted, ReceiveSession
<1>2. [Next]_server /\ rows' = rows
  BY <1>1 DEF Next, Taken
<1>3. TypeInv' /\ WireInv'
  BY <1>1, <1>2, TypeStep, WireByTaken DEF FeedInv
<1>4. SeenInv'
  BY <1>1, SeenByReceive DEF FeedInv, TypeOK
<1>5. m \in Row /\ m.job \in Jobs /\ notifs \in Seq(Row) /\ table \in Table
  BY <1>1, ComingByTaken DEF FeedInv, TypeOK, Row
<1>6. notifs' = <<m>> \o notifs
  BY <1>1 DEF NewNotification
<1> HIDE DEF m
<1>7. notifs' \in Seq(Row)
  BY <1>5, <1>6
<1>8. behind' \subseteq Jobs
  BY <1>1, <1>5 DEF BehindWith, FeedInv, TypeOK
<1>9. /\ table' \in Table /\ aside' \subseteq Jobs
      /\ jobFetch' \in Fetch(Table)
      /\ TableInv'
  <2>1. CASE ReceiveListed
    <3> DEFINE s == <<m>>
    <3>1. /\ s \in Seq(Row)
          /\ \A j : About(s, j) # {} <=> m.job = j
          /\ \A j : m.job = j => First(s, j) = m
      BY <1>5, FirstOfOne
    <3>2. table' = Told(table, s) /\ aside' = aside \ {m.job} /\ jobFetch' = jobFetch
      BY <2>1 DEF ReceiveListed, m
    <3> HIDE DEF s
    <3>3. /\ table' \in Table
          /\ \A j \in Jobs : table[j] = Absent => table'[j] = Absent
          /\ \A j \in Jobs : table[j] # Absent /\ About(s, j) # {} =>
                               table'[j] = First(s, j).status
          /\ \A j \in Jobs : About(s, j) = {} => table'[j] = table[j]
      BY <1>5, <3>1, <3>2, ToldTyped
    <3>4. ASSUME NEW j \in Jobs \ aside', table'[j] # Absent, About(notifs', j) # {}
          PROVE  table'[j] = First(notifs', j).status
      <4>1. CASE j = m.job
        <5>1. First(notifs', j) = m
          BY <1>5, <1>6, <4>1, FirstOfNew
        <5>2. table'[j] = First(s, j).status /\ First(s, j) = m
          BY <3>1, <3>3, <3>4, <4>1
        <5> QED BY <5>1, <5>2
      <4>2. CASE j # m.job
        <5>1. table'[j] = table[j] /\ j \in Jobs \ aside
          BY <3>1, <3>2, <3>3, <4>2
        <5>2. About(notifs, j) # {} /\ First(notifs', j) = First(notifs, j)
          BY <1>5, <1>6, <3>4, <4>2, FirstOfNew
        <5> QED BY <3>4, <5>1, <5>2 DEF FeedInv, TableInv
      <4> QED BY <4>1, <4>2
    <3> QED BY <3>2, <3>3, <3>4 DEF FeedInv, TypeOK, TableInv
  <2>2. CASE ReceiveUnlisted
    <3>1. table' = Empty /\ jobFetch' = Sent /\ aside' = aside
      BY <2>2 DEF ReceiveUnlisted, GetJobs
    <3> QED BY <3>1 DEF Empty, Table, TableInv, FeedInv, TypeOK, Fetch
  <2>3. CASE ReceiveSession
    <3>1. table' = table /\ jobFetch' = jobFetch /\ aside' = aside \cup {m.job}
      BY <2>3 DEF ReceiveSession, m
    <3>2. TableInv'
      BY <1>5, <1>6, <3>1, FirstOfNew DEF FeedInv, TableInv
    <3> QED BY <1>5, <3>1, <3>2 DEF FeedInv, TypeOK
  <2> QED BY <2>1, <2>2, <2>3 DEF Receive
<1>10. TypeOK'
  BY <1>1, <1>3, <1>7, <1>8, <1>9 DEF FeedInv, TypeOK, TypeInv
<1>11. FetchInv'
  BY <1>1, <1>2 DEF FeedInv, FetchInv
<1>12. DetailsInv'
  BY <1>1, <1>2, DetailsKept
<1> QED BY <1>3, <1>4, <1>9, <1>10, <1>11, <1>12 DEF FeedInv

LEMMA FeedByLose ==
  ASSUME FeedInv, Lose
  PROVE  FeedInv'
<1>1. /\ Taken /\ behind' = behind \cup {Head(wire).job} /\ UNCHANGED <<browser, gone, aside>>
  BY DEF Lose
<1>2. [Next]_server /\ rows' = rows
  BY <1>1 DEF Next, Taken
<1>3. TypeInv' /\ WireInv' /\ SeenInv'
  BY <1>1, <1>2, TypeStep, WireByTaken, SeenByLose DEF FeedInv
<1>4. behind' \subseteq Jobs
  BY <1>1, ComingByTaken DEF FeedInv, TypeOK, Row
<1>5. TypeOK' /\ FetchInv' /\ TableInv'
  BY <1>1, <1>2, <1>3, <1>4 DEF FeedInv, TypeOK, TypeInv, FetchInv, TableInv, browser
<1>6. DetailsInv'
  BY <1>1, <1>2, DetailsKept DEF browser
<1> QED BY <1>3, <1>5, <1>6 DEF FeedInv

(* A step of the browser alone leaves what the server has where it is. *)
LEMMA ServerRests ==
  ASSUME FeedInv, UNCHANGED <<server, gone>>
  PROVE  /\ TypeInv' /\ WireInv' /\ rows' = rows /\ stage' = stage /\ recorded' = recorded
         /\ [Next]_server
         /\ UNCHANGED <<notifs, behind>> => SeenInv'
<1>1. [Next]_server
  OBVIOUS
<1>2. UNCHANGED <<rows, inserted, stamped, hook, wire, stage, recorded>>
  BY DEF server, tapis, counts
<1>3. Live' = Live /\ Posted' = Posted /\ Unsent' = Unsent
  BY <1>2 DEF Live, Pending, Unsent, At, RowOf, Posted
<1>6. UNCHANGED counts
  BY DEF server
<1>7. Apart'
  BY <1>2, <1>6, Kept, ApartKept DEF FeedInv, WireInv, Same, At
<1>4. WireInv'
  BY <1>2, <1>3, <1>7 DEF FeedInv, WireInv
<1>5. UNCHANGED <<notifs, behind>> => SeenInv'
  BY <1>2, <1>3 DEF FeedInv, SeenInv, Coming, OnWay, Latest, Shown
<1> QED BY <1>1, <1>2, <1>4, <1>5, TypeStep DEF FeedInv

LEMMA FeedByFetching ==
  ASSUME FeedInv, Fetching
  PROVE  FeedInv'
<1>1. UNCHANGED <<server, visited, gone>>
  BY DEF Fetching, OnlyBrowser, AnswerNotifications, ApplyNotifications,
    NotificationsFail, AnswerJobs, ApplyJobs, JobsFail, AnswerDetails, ApplyDetails, DetailsFail
<1>2. /\ TypeInv' /\ WireInv' /\ rows' = rows /\ stage' = stage /\ recorded' = recorded
      /\ [Next]_server
      /\ UNCHANGED <<notifs, behind>> => SeenInv'
  BY <1>1, ServerRests
<1>3. /\ TypeInv /\ TypeOK /\ WireInv /\ SeenInv /\ FetchInv /\ TableInv /\ DetailsInv
      /\ notifs \in Seq(Row) /\ table \in Table /\ gone' \subseteq Row /\ visited' \subseteq Visits
      /\ ServerTypeOK'
  BY <1>1, <1>2 DEF FeedInv, TypeOK, TypeInv
<1>4. CASE AnswerNotifications
  <2>1. /\ Listing \in Seq(Row)
        /\ \A i \in 1..Len(Listing) : Listing[i] \in rows
        /\ \A a, b \in 1..Len(Listing) : a < b => Listing[a].at > Listing[b].at
    BY <1>3, ListingLists DEF TypeInv, WireInv, Apart, Held
  <2>2. /\ ntfFetch' = Got(Listing)
        /\ UNCHANGED <<notifs, table, jobFetch, detFetch, behind, aside>>
    BY <1>4 DEF AnswerNotifications
  <2>3. ntfFetch'.got = Listing
    BY <2>2 DEF Got
  <2>4. FetchInv' /\ TypeOK'
    BY <1>2, <1>3, <2>1, <2>2, <2>3 DEF FetchInv, TypeOK
  <2>5. TableInv' /\ DetailsInv'
    BY <1>2, <1>3, <2>2 DEF TableInv, DetailsInv
  <2> QED BY <1>2, <2>2, <2>4, <2>5 DEF FeedInv
<1>5. CASE ApplyNotifications
  <2> DEFINE got == ntfFetch.got
  <2>1. /\ notifs' = got /\ table' = Told(table, got) /\ ntfFetch' = Idle
        /\ behind' = BehindAfter(got) /\ aside' = aside \ Updated(table, got)
        /\ UNCHANGED <<jobFetch, detFetch>> /\ ntfFetch.pc = "answered"
    BY <1>5 DEF ApplyNotifications
  <2>2. got \in Seq(Row)
    BY <1>3, <2>1 DEF FetchInv
  <2>3. SeenInv'
    BY <1>3, <1>5, SeenByListing
  <2>4. FetchInv'
    BY <2>1 DEF FetchInv, Idle
  <2> HIDE DEF got
  <2>5. table' \in Table
    BY <1>3, <2>1, <2>2, ToldTyped
  <2>6. TableInv'
    <3> SUFFICES ASSUME NEW j \in Jobs, table'[j] # Absent, About(got, j) # {}
                 PROVE  table'[j] = First(got, j).status
      BY <2>1 DEF TableInv
    <3>1. table[j] # Absent
      BY <1>3, <2>1, <2>2, ToldTyped
    <3> QED BY <1>3, <2>1, <2>2, <3>1, ToldTyped
  <2>7. behind' \subseteq Jobs /\ aside' \subseteq Jobs
    <3>1. \A r \in Posted : r.job \in Jobs
      BY <1>3, PostedAre DEF WireInv, Row
    <3>2. \A r \in rows \cup Pending \cup gone : r.job \in Jobs
      BY <3>1 DEF Posted, Live
    <3> QED BY <1>3, <2>1, <3>2 DEF BehindAfter, TypeOK
  <2>8. TypeOK'
    BY <1>3, <2>1, <2>2, <2>5, <2>7 DEF TypeOK, Idle
  <2>9. DetailsInv'
    BY <1>2, <1>3, <2>1 DEF DetailsInv
  <2> QED BY <1>2, <2>3, <2>4, <2>6, <2>8, <2>9 DEF FeedInv
<1>6. CASE NotificationsFail
  <2>1. ntfFetch' = Idle /\ UNCHANGED <<notifs, table, jobFetch, detFetch, behind, aside>>
    BY <1>6 DEF NotificationsFail
  <2>2. FetchInv' /\ TypeOK'
    BY <1>3, <2>1 DEF FetchInv, TypeOK, Idle
  <2>3. TableInv' /\ DetailsInv'
    BY <1>2, <1>3, <2>1 DEF TableInv, DetailsInv
  <2> QED BY <1>2, <2>1, <2>2, <2>3 DEF FeedInv
<1>7. CASE AnswerJobs \/ JobsFail
  <2>1. UNCHANGED <<notifs, table, ntfFetch, detFetch, behind, aside>>
    BY <1>7 DEF AnswerJobs, JobsFail
  <2>2. jobFetch' \in Fetch(Table)
    <3>1. CASE AnswerJobs
      <4> DEFINE v == [j \in Jobs |-> IF j \in recorded THEN Status(j) ELSE Absent]
      <4>1. \A j \in Jobs : j \in recorded => Status(j) \in Statuses
        BY <1>3, StatusTyped DEF DetailsInv
      <4>2. v \in Table
        BY <4>1 DEF Table
      <4>3. jobFetch' = Got(v)
        BY <3>1 DEF AnswerJobs
      <4> HIDE DEF v
      <4> QED BY <4>2, <4>3 DEF Fetch
    <3>2. CASE JobsFail
      BY <3>2 DEF JobsFail, Fetch
    <3> QED BY <1>7, <3>1, <3>2
  <2>3. FetchInv' /\ TypeOK'
    BY <1>2, <1>3, <2>1, <2>2 DEF FetchInv, TypeOK
  <2>4. TableInv' /\ DetailsInv'
    BY <1>2, <1>3, <2>1 DEF TableInv, DetailsInv
  <2> QED BY <1>2, <2>1, <2>3, <2>4 DEF FeedInv
<1>8. CASE ApplyJobs
  <2> DEFINE got == jobFetch.got
  <2>1. /\ jobFetch.pc = "answered" /\ table' = Told(got, notifs) /\ jobFetch' = Idle
        /\ aside' = aside \ Updated(got, notifs)
        /\ UNCHANGED <<notifs, ntfFetch, detFetch, behind>>
    BY <1>8 DEF ApplyJobs
  <2>2. got \in Table
    <3>1. jobFetch \in Fetch(Table) /\ jobFetch # Idle /\ jobFetch # Sent
      BY <1>3, <2>1 DEF TypeOK, Idle, Sent
    <3>2. PICK v \in Table : jobFetch = Got(v)
      BY <3>1 DEF Fetch
    <3> QED BY <3>2 DEF Got
  <2> HIDE DEF got
  <2>3. table' \in Table
    BY <1>3, <2>1, <2>2, ToldTyped
  <2>4. TableInv'
    <3> SUFFICES ASSUME NEW j \in Jobs, table'[j] # Absent, About(notifs, j) # {}
                 PROVE  table'[j] = First(notifs, j).status
      BY <2>1 DEF TableInv
    <3>1. got[j] # Absent
      BY <1>3, <2>1, <2>2, ToldTyped
    <3> QED BY <1>3, <2>1, <2>2, <3>1, ToldTyped
  <2>5. aside' \subseteq Jobs /\ Idle \in Fetch(Table)
    BY <1>3, <2>1 DEF TypeOK, Fetch
  <2>6. TypeOK' /\ FetchInv'
    BY <1>2, <1>3, <2>1, <2>3, <2>5 DEF TypeOK, FetchInv
  <2>7. DetailsInv'
    BY <1>2, <1>3, <2>1 DEF DetailsInv
  <2> QED BY <1>2, <2>1, <2>4, <2>6, <2>7 DEF FeedInv
<1>9. CASE AnswerDetails
  <2> DEFINE d == [detFetch EXCEPT !.pc = "answered", !.got = Status(detFetch.job)]
  <2>1. /\ detFetch.pc = "sent" /\ detFetch' = d
        /\ UNCHANGED <<notifs, table, ntfFetch, jobFetch, behind, aside>>
    BY <1>9 DEF AnswerDetails
  <2>2. detFetch # Idle
    BY <2>1 DEF Idle
  <2>3. detFetch \in [pc : {"sent", "answered"}, job : Jobs, got : Statuses \cup {NoStatus}]
    BY <1>3, <2>2 DEF TypeOK
  <2>4. stage[detFetch.job] > 0 /\ Status(detFetch.job) \in Statuses
    BY <1>3, <2>2, <2>3, StatusTyped DEF DetailsInv
  <2>5. /\ d \in [pc : {"sent", "answered"}, job : Jobs, got : Statuses \cup {NoStatus}]
        /\ d.job = detFetch.job /\ d.got \in Statuses
    BY <2>3, <2>4
  <2> HIDE DEF d
  <2>6. TypeOK' /\ FetchInv' /\ TableInv'
    BY <1>2, <1>3, <2>1, <2>5 DEF TypeOK, FetchInv, TableInv
  <2>7. DetailsInv'
    BY <1>2, <1>3, <2>1, <2>3, <2>4, <2>5 DEF DetailsInv
  <2> QED BY <1>2, <2>1, <2>6, <2>7 DEF FeedInv
<1>10. CASE ApplyDetails
  <2> DEFINE j == detFetch.job
  <2>1. /\ detFetch.pc = "answered" /\ detFetch' = Idle
        /\ table' = [table EXCEPT ![j] = IF @ = Absent THEN @ ELSE detFetch.got]
        /\ aside' = IF table[j] = Absent THEN aside ELSE aside \cup {j}
        /\ UNCHANGED <<notifs, ntfFetch, jobFetch, behind>>
    BY <1>10 DEF ApplyDetails
  <2>2. j \in Jobs /\ detFetch.got \in Statuses
    BY <1>3, <2>1 DEF DetailsInv, Idle
  <2> HIDE DEF j
  <2>3. /\ table' \in Table /\ aside' \subseteq Jobs
        /\ \A k \in Jobs \ aside' : table'[k] = table[k] /\ k \notin aside
    BY <1>3, <2>1, <2>2 DEF Table, TypeOK
  <2>4. TypeOK' /\ FetchInv'
    BY <1>2, <1>3, <2>1, <2>3 DEF TypeOK, FetchInv
  <2>5. TableInv'
    BY <1>3, <2>1, <2>3 DEF TableInv
  <2>6. DetailsInv'
    BY <1>2, <2>1, DetailsKept
  <2> QED BY <1>2, <2>1, <2>4, <2>5, <2>6 DEF FeedInv
<1>11. CASE DetailsFail
  <2>1. detFetch' = Idle /\ UNCHANGED <<notifs, table, ntfFetch, jobFetch, behind, aside>>
    BY <1>11 DEF DetailsFail
  <2>2. TypeOK' /\ FetchInv' /\ TableInv'
    BY <1>2, <1>3, <2>1 DEF TypeOK, FetchInv, TableInv
  <2>3. DetailsInv'
    BY <1>2, <2>1, DetailsKept
  <2> QED BY <1>2, <2>1, <2>2, <2>3 DEF FeedInv
<1> QED BY <1>4, <1>5, <1>6, <1>7, <1>8, <1>9, <1>10, <1>11 DEF Fetching

LEMMA FeedByVisit ==
  ASSUME FeedInv, NEW v \in Visits, Visit(v)
  PROVE  FeedInv'
<1>1. UNCHANGED <<server, notifs, gone, behind, aside>> /\ visited' = visited \cup {v}
  BY DEF Visit, OpenHistory, MarkAll, ShowDetails, OnlyVisit
<1>2. /\ TypeInv' /\ WireInv' /\ rows' = rows /\ stage' = stage /\ recorded' = recorded
      /\ [Next]_server /\ SeenInv'
  BY <1>1, ServerRests
<1>3. /\ TypeInv /\ TypeOK /\ FetchInv /\ TableInv /\ DetailsInv /\ ServerTypeOK'
      /\ visited' \subseteq Visits
  BY <1>1, <1>2 DEF FeedInv, TypeInv, TypeOK
<1>4. /\ ntfFetch' \in {ntfFetch, Sent} /\ jobFetch' \in {jobFetch, Sent}
      /\ table' \in {table, Empty}
      /\ detFetch' = detFetch \/ \E j \in Jobs :
           stage[j] > 0 /\ detFetch' = [pc |-> "sent", job |-> j, got |-> NoStatus]
  BY DEF Visit, OpenHistory, MarkAll, ShowDetails, GetJobs
<1>5. Sent \in Fetch(Table) /\ Sent.pc = "sent" /\ Empty \in Table
      /\ \A j \in Jobs : Empty[j] = Absent
  BY DEF Fetch, Sent, Empty, Table
<1>6. \A j \in Jobs : [pc |-> "sent", job |-> j, got |-> NoStatus] \in
        [pc : {"sent", "answered"}, job : Jobs, got : Statuses \cup {NoStatus}]
  OBVIOUS
<1>7. ntfFetch'.pc \in {"idle", "sent"} \/ ntfFetch'.got \in Seq(Row)
  BY <1>3, <1>4, <1>5 DEF TypeOK
<1>8. jobFetch' \in Fetch(Table) /\ table' \in Table
  BY <1>3, <1>4, <1>5 DEF TypeOK
<1>9. detFetch' = Idle \/ detFetch' \in
        [pc : {"sent", "answered"}, job : Jobs, got : Statuses \cup {NoStatus}]
  BY <1>3, <1>4, <1>6 DEF TypeOK
<1>10. TypeOK'
  BY <1>1, <1>3, <1>7, <1>8, <1>9 DEF TypeOK
<1>11. FetchInv'
  BY <1>2, <1>3, <1>4, <1>5 DEF FetchInv
<1>12. TableInv'
  BY <1>1, <1>3, <1>4, <1>5 DEF TableInv
<1>13. DetailsInv'
  <2>1. CASE detFetch' = detFetch
    BY <1>2, <1>3, <2>1 DEF DetailsInv
  <2>2. ASSUME NEW j \in Jobs, stage[j] > 0,
               detFetch' = [pc |-> "sent", job |-> j, got |-> NoStatus]
        PROVE  DetailsInv'
    BY <1>2, <1>3, <2>2 DEF DetailsInv
  <2> QED BY <1>4, <2>1, <2>2
<1> QED BY <1>2, <1>10, <1>11, <1>12, <1>13 DEF FeedInv

LEMMA FeedInvStep == FeedInv /\ [FeedNext]_vars => FeedInv'
<1> SUFFICES ASSUME FeedInv, [FeedNext]_vars PROVE FeedInv'
  OBVIOUS
<1>1. CASE UNCHANGED vars
  <2>1. UNCHANGED <<server, gone, notifs, behind, table, ntfFetch, jobFetch, detFetch, visited, aside>>
    BY <1>1 DEF vars, browser
  <2>2. TypeInv' /\ WireInv' /\ SeenInv' /\ rows' = rows /\ stage' = stage /\ recorded' = recorded
    BY <2>1, ServerRests
  <2> QED BY <2>1, <2>2 DEF FeedInv, TypeInv, TypeOK, FetchInv, TableInv, DetailsInv
<1> QED BY <1>1, FeedByServer, FeedByReceive, FeedByLose, FeedByFetching, FeedByVisit
  DEF FeedNext

LEMMA FeedHolds == FeedSpec => []FeedInv
BY FeedStart, FeedInvStep, PTL DEF FeedSpec

(* Server, store and fetches keep their types, whatever is fetched, told,  *)
(* lost and applied.                                                       *)
THEOREM FeedTypes == FeedSpec => []TypeOK
<1>1. FeedInv => TypeOK
  BY DEF FeedInv
<1> QED BY <1>1, FeedHolds, PTL

(* Once everything is at rest, the jobs table shows of every listed job    *)
(* what its newest notification says, for any jobs, posts and visits, in   *)
(* whatever order listings, messages and cancellations came; left out are  *)
(* the jobs the browser is behind on, and those written apart.             *)
THEOREM FeedComesToRest == FeedSpec => []FeedIsCurrent
<1>1. FeedInv => FeedIsCurrent
  <2> SUFFICES ASSUME FeedInv, AtRest, NEW j \in Jobs \ (behind \cup aside), table[j] # Absent,
                      NEW r \in rows, r.job = j, \A q \in rows : q.job = j => q.at <= r.at
               PROVE  table[j] = r.status
    BY DEF FeedIsCurrent
  <2>1. Pending = {} /\ ~OnWay(r)
    BY DEF AtRest, Serving, Pending, Unsent, At, Coming, OnWay
  <2>2. r \in Live /\ Latest(j, r)
    BY <2>1 DEF Live, Latest
  <2>3. Shown(j, r)
    BY <2>1, <2>2 DEF FeedInv, SeenInv
  <2> QED BY <2>3 DEF Shown, FeedInv, TableInv
<1> QED BY <1>1, FeedHolds, PTL
=============================================================================
