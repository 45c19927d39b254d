------------------------ MODULE ProjectMembersProofs ------------------------
(***************************************************************************)
(* What holds of the team of a project for any users and any requests.     *)
(***************************************************************************)
EXTENDS ProjectMembers, TLAPS

-----------------------------------------------------------------------------
(* The changes of a request.                                               *)

(* Where a request that is making a change stands among its changes. *)
Stage(r) ==
  request[r].pc \in {"roles", "role", "relate"} =>
    /\ request[r].act \in {"add", "remove", "transfer"}
    /\ request[r].at \in IF request[r].act = "transfer" THEN 1..3 ELSE {1}

Counted(r) ==
  /\ request[r].pc = "load" => request[r].at = 1 /\ request[r].act # "none"
  /\ request[r].pc = "save" =>
       /\ request[r].act \in {"add", "remove", "transfer", "edit"}
       /\ request[r].at \in IF request[r].act = "transfer" THEN 1..3 ELSE {1}
  /\ request[r].pc = "idle" => request[r].at = 1

LEMMA TheChange ==
  ASSUME NEW r \in Requests, Stage(r), request[r].pc \in {"roles", "role", "relate"}
  PROVE  /\ request[r].act = "add" =>
              Method(r) = "add_co_pi" /\ User(r) = request[r].target
         /\ request[r].act = "remove" =>
              Method(r) = "remove_co_pi" /\ User(r) = request[r].target
         /\ request[r].act = "transfer" =>
              /\ request[r].at = 1 => Method(r) = "remove_co_pi" /\ User(r) = request[r].target
              /\ request[r].at = 2 => Method(r) = "add_pi" /\ User(r) = request[r].target
              /\ request[r].at = 3 => Method(r) = "add_co_pi" /\ User(r) = request[r].old
BY DEF Stage, Method, User, Todo, Changes

LEMMA HowMany ==
  ASSUME NEW r \in Requests, Counted(r), request[r].pc = "save"
  PROVE  Len(Todo(r)) = IF request[r].act = "transfer" THEN 3
                        ELSE IF request[r].act = "edit" THEN 0 ELSE 1
BY DEF Counted, Todo, Changes

-----------------------------------------------------------------------------
(* Types.                                                                  *)

TypeInv == TypeOK /\ \A r \in Requests : Stage(r) /\ Counted(r)

LEMMA TypeInit == Init => TypeInv
BY UsersAssumption DEF Init, TypeInv, TypeOK, Roles, Request, Record, Stage, Counted

(* A request's own step leaves the others where they are. *)
LEMMA OthersStay ==
  ASSUME TypeInv, NEW r \in Requests, NEW f, request' = [request EXCEPT ![r] = f]
  PROVE  /\ request'[r] = f
         /\ \A q \in Requests : q # r => request'[q] = request[q]
         /\ f \in Request => request' \in [Requests -> Request]
         /\ \A q \in Requests : q # r => Stage(q)' /\ Counted(q)'
BY DEF TypeInv, TypeOK, Stage, Counted

LEMMA StepTyped ==
  ASSUME TypeInv, NEW r \in Requests, NEW f \in Request, request' = [request EXCEPT ![r] = f],
         role' \in [Users -> Roles], pi' \in Users, co_pis' \subseteq Users,
         shown' = shown \cup {Record(pi', co_pis')},
         misled' \subseteq Users, disturbed' \subseteq Users,
         Stage(r)', Counted(r)'
  PROVE  TypeInv'
<1>1. \A q \in Requests : Stage(q)' /\ Counted(q)'
  BY OthersStay
<1>2. request' \in [Requests -> Request]
  BY OthersStay
<1>3. shown' \subseteq [pi : Users, co_pis : SUBSET Users] /\ Record(pi', co_pis') \in shown'
  <2>1. shown \subseteq [pi : Users, co_pis : SUBSET Users]
    BY DEF TypeInv, TypeOK
  <2>2. Record(pi', co_pis') \in [pi : Users, co_pis : SUBSET Users]
    BY DEF Record
  <2>3. QED
    BY ONLY <2>1, <2>2, shown' = shown \cup {Record(pi', co_pis')}
<1>4. QED
  BY <1>1, <1>2, <1>3 DEF TypeInv, TypeOK, Record

LEMMA TypeNext == TypeInv /\ [Next]_vars => TypeInv'
<1> SUFFICES ASSUME TypeInv, [Next]_vars PROVE TypeInv'
  OBVIOUS
<1>1. TypeOK /\ \A r \in Requests : Stage(r) /\ Counted(r)
  BY DEF TypeInv
<1>2. \A r \in Requests : request[r] \in Request
  BY <1>1 DEF TypeOK
<1> USE DEF At
<1>3. ASSUME NEW r \in Requests, NEW u \in Users, NEW act \in Actions, NEW target \in Users,
             NEW s \in shown, Press(r, u, act, target, s)
      PROVE  TypeInv'
  <2> DEFINE f == [request[r] EXCEPT !.pc = "load", !.act = act, !.by = u,
                                     !.target = target, !.old = s.pi]
  <2>0. s.pi \in Users
    BY <1>1 DEF TypeOK
  <2>1. f \in Request /\ f.pc = "load" /\ f.at = 1 /\ f.act \in Actions
    BY <1>1, <1>2, <1>3, <2>0 DEF Press, TypeOK, Request, Counted
  <2>2. request' = [request EXCEPT ![r] = f]
    BY <1>1, <1>3 DEF Press, TypeOK
  <2> HIDE DEF f
  <2>3. Stage(r)' /\ Counted(r)'
    BY <2>1, <2>2, OthersStay, ActionsAssumption DEF Stage, Counted
  <2>4. /\ role' \in [Users -> Roles] /\ pi' \in Users /\ co_pis' \subseteq Users
        /\ shown' = shown \cup {Record(pi', co_pis')}
        /\ misled' \subseteq Users /\ disturbed' \subseteq Users
    <3>1. About(act, target, s.pi) \subseteq Users
      BY <2>0, ActionsAssumption DEF About
    <3>2. QED
      BY <1>1, <1>3, <3>1 DEF Press, TypeOK
  <2>5. QED
    BY <2>1, <2>2, <2>3, <2>4, StepTyped
<1>4. ASSUME NEW r \in Requests, Load(r) PROVE TypeInv'
  <2> DEFINE f == [request[r] EXCEPT !.pc = IF request[r].act = "edit" THEN "save" ELSE "roles", !.pi = pi]
  <2>1. f \in Request
    BY <1>1, <1>2, <1>4 DEF Load, TypeOK, Request, Counted
  <2>2. request' = [request EXCEPT ![r] = f]
    BY <1>1, <1>4 DEF Load, TypeOK
  <2>3. Stage(r)' /\ Counted(r)'
    BY <1>1, <1>2, <1>4, <2>2, ActionsAssumption DEF Load, TypeOK, Request, Stage, Counted
  <2> HIDE DEF f
  <2>4. /\ role' \in [Users -> Roles] /\ pi' \in Users /\ co_pis' \subseteq Users
        /\ shown' = shown \cup {Record(pi', co_pis')}
        /\ misled' \subseteq Users /\ disturbed' \subseteq Users
    BY <1>1, <1>2, <1>4 DEF Load, TypeOK, Roles, Request, Record
  <2>5. QED
    BY <2>1, <2>2, <2>3, <2>4, StepTyped
<1>5. ASSUME NEW r \in Requests, NoAccess(r) PROVE TypeInv'
  <2> DEFINE f == [request[r] EXCEPT !.pc = "refused"]
  <2>1. f \in Request
    BY <1>1, <1>2, <1>5 DEF NoAccess, TypeOK, Request, Counted
  <2>2. request' = [request EXCEPT ![r] = f]
    BY <1>1, <1>5 DEF NoAccess, TypeOK
  <2>3. Stage(r)' /\ Counted(r)'
    BY <1>1, <1>2, <1>5, <2>2 DEF NoAccess, TypeOK, Request, Stage, Counted
  <2> HIDE DEF f
  <2>4. /\ role' \in [Users -> Roles] /\ pi' \in Users /\ co_pis' \subseteq Users
        /\ shown' = shown \cup {Record(pi', co_pis')}
        /\ misled' \subseteq Users /\ disturbed' \subseteq Users
    BY <1>1, <1>2, <1>5 DEF NoAccess, TypeOK, Roles, Request, Record
  <2>5. QED
    BY <2>1, <2>2, <2>3, <2>4, StepTyped
<1>6. ASSUME NEW r \in Requests, ReadRoles(r) PROVE TypeInv'
  <2> DEFINE f == [request[r] EXCEPT !.pc = "role", !.known = role[User(r)] # "NONE"]
  <2>1. f \in Request
    BY <1>1, <1>2, <1>6 DEF ReadRoles, TypeOK, Request, Counted
  <2>2. request' = [request EXCEPT ![r] = f]
    BY <1>1, <1>6 DEF ReadRoles, TypeOK
  <2>3. Stage(r)' /\ Counted(r)'
    BY <1>1, <1>2, <1>6, <2>2 DEF ReadRoles, TypeOK, Request, Stage, Counted
  <2> HIDE DEF f
  <2>4. /\ role' \in [Users -> Roles] /\ pi' \in Users /\ co_pis' \subseteq Users
        /\ shown' = shown \cup {Record(pi', co_pis')}
        /\ misled' \subseteq Users /\ disturbed' \subseteq Users
    BY <1>1, <1>2, <1>6 DEF ReadRoles, TypeOK, Roles, Request, Record
  <2>5. QED
    BY <2>1, <2>2, <2>3, <2>4, StepTyped
<1>7. ASSUME NEW r \in Requests, NotAuthorized(r) PROVE TypeInv'
  <2> DEFINE f == [request[r] EXCEPT !.pc = "refused"]
  <2>1. f \in Request
    BY <1>1, <1>2, <1>7 DEF NotAuthorized, TypeOK, Request, Counted
  <2>2. request' = [request EXCEPT ![r] = f]
    BY <1>1, <1>7 DEF NotAuthorized, TypeOK
  <2>3. Stage(r)' /\ Counted(r)'
    BY <1>1, <1>2, <1>7, <2>2 DEF NotAuthorized, TypeOK, Request, Stage, Counted
  <2> HIDE DEF f
  <2>4. /\ role' \in [Users -> Roles] /\ pi' \in Users /\ co_pis' \subseteq Users
        /\ shown' = shown \cup {Record(pi', co_pis')}
        /\ misled' \subseteq Users /\ disturbed' \subseteq Users
    BY <1>1, <1>2, <1>7 DEF NotAuthorized, TypeOK, Roles, Request, Record
  <2>5. QED
    BY <2>1, <2>2, <2>3, <2>4, StepTyped
<1>8. ASSUME NEW r \in Requests, SaveRole(r) PROVE TypeInv'
  <2> DEFINE f == [request[r] EXCEPT !.pc = "relate"]
  <2>0. User(r) \in Users /\ Method(r) \in {"add_pi", "add_co_pi", "remove_co_pi"}
    BY <1>1, <1>2, <1>8, TheChange DEF SaveRole, Stage, Request
  <2>1. f \in Request
    BY <1>1, <1>2, <1>8, <2>0 DEF SaveRole, TypeOK, Request, Counted
  <2>2. request' = [request EXCEPT ![r] = f]
    BY <1>1, <1>8 DEF SaveRole, TypeOK
  <2>3. Stage(r)' /\ Counted(r)'
    BY <1>1, <1>2, <1>8, <2>2, <2>0 DEF SaveRole, TypeOK, Request, Stage, Counted
  <2> HIDE DEF f
  <2>4. /\ role' \in [Users -> Roles] /\ pi' \in Users /\ co_pis' \subseteq Users
        /\ shown' = shown \cup {Record(pi', co_pis')}
        /\ misled' \subseteq Users /\ disturbed' \subseteq Users
    BY <1>1, <1>2, <1>8, <2>0 DEF SaveRole, TypeOK, Roles, Request, NewRole, Record
  <2>5. QED
    BY <2>1, <2>2, <2>3, <2>4, StepTyped
<1>9. ASSUME NEW r \in Requests, Relate(r) PROVE TypeInv'
  <2> DEFINE f == [request[r] EXCEPT !.pc = "save", !.pi = IF Method(r) = "add_pi" THEN User(r) ELSE request[r].pi]
  <2>0. User(r) \in Users /\ Method(r) \in {"add_pi", "add_co_pi", "remove_co_pi"}
    BY <1>1, <1>2, <1>9, TheChange DEF Relate, Stage, Request
  <2>1. f \in Request
    BY <1>1, <1>2, <1>9, <2>0 DEF Relate, TypeOK, Request, Counted
  <2>2. request' = [request EXCEPT ![r] = f]
    BY <1>1, <1>9 DEF Relate, TypeOK
  <2>3. Stage(r)' /\ Counted(r)'
    BY <1>1, <1>2, <1>9, <2>2, <2>0 DEF Relate, TypeOK, Request, Stage, Counted
  <2> HIDE DEF f
  <2>4. /\ role' \in [Users -> Roles] /\ pi' \in Users /\ co_pis' \subseteq Users
        /\ shown' = shown \cup {Record(pi', co_pis')}
        /\ misled' \subseteq Users /\ disturbed' \subseteq Users
    BY <1>1, <1>2, <1>9, <2>0 DEF Relate, TypeOK, Roles, Request, Record
  <2>5. QED
    BY <2>1, <2>2, <2>3, <2>4, StepTyped
<1>10. ASSUME NEW r \in Requests, SaveMetadata(r) PROVE TypeInv'
  <2> DEFINE f == [request[r] EXCEPT !.pc = IF request[r].at < Len(Todo(r)) THEN "roles" ELSE "done", !.at = IF request[r].at < Len(Todo(r)) THEN request[r].at + 1 ELSE request[r].at]
  <2>0. Len(Todo(r)) = IF request[r].act = "transfer" THEN 3
                       ELSE IF request[r].act = "edit" THEN 0 ELSE 1
    BY <1>1, <1>10, HowMany DEF SaveMetadata
  <2>1. f \in Request
    <3>1. request[r].at \in 1..3 /\ (request[r].at < Len(Todo(r)) => request[r].at + 1 \in 1..4)
      BY <1>1, <1>10, <2>0 DEF SaveMetadata, Counted
    <3>2. f.at \in 1..4 /\ f.pc \in {"roles", "done"}
      BY <1>2, <3>1 DEF Request
    <3>3. f = [request[r] EXCEPT !.pc = f.pc, !.at = f.at]
      BY <1>2 DEF Request
    <3> HIDE DEF f
    <3>4. QED
      BY <1>2, <3>2, <3>3 DEF Request
  <2>2. request' = [request EXCEPT ![r] = f]
    BY <1>1, <1>10 DEF SaveMetadata, TypeOK
  <2>3. Stage(r)' /\ Counted(r)'
    BY <1>1, <1>2, <1>10, <2>2, <2>0 DEF SaveMetadata, TypeOK, Request, Stage, Counted
  <2> HIDE DEF f
  <2>4. /\ role' \in [Users -> Roles] /\ pi' \in Users /\ co_pis' \subseteq Users
        /\ shown' = shown \cup {Record(pi', co_pis')}
        /\ misled' \subseteq Users /\ disturbed' \subseteq Users
    BY <1>1, <1>2, <1>10, <2>0 DEF SaveMetadata, TypeOK, Roles, Request, Record
  <2>5. QED
    BY <2>1, <2>2, <2>3, <2>4, StepTyped
<1>11. ASSUME NEW r \in Requests, Fail(r) PROVE TypeInv'
  <2> DEFINE f == [request[r] EXCEPT !.pc = "failed"]
  <2>1. f \in Request
    BY <1>1, <1>2, <1>11 DEF Fail, TypeOK, Request, Counted
  <2>2. request' = [request EXCEPT ![r] = f]
    BY <1>1, <1>11 DEF Fail, TypeOK
  <2>3. Stage(r)' /\ Counted(r)'
    BY <1>1, <1>2, <1>11, <2>2 DEF Fail, TypeOK, Request, Stage, Counted
  <2> HIDE DEF f
  <2>4. /\ role' \in [Users -> Roles] /\ pi' \in Users /\ co_pis' \subseteq Users
        /\ shown' = shown \cup {Record(pi', co_pis')}
        /\ misled' \subseteq Users /\ disturbed' \subseteq Users
    <3>1. AboutOf(r) \subseteq Users
      BY <1>2, ActionsAssumption DEF About, AboutOf, Request
    <3>2. QED
      BY <1>1, <1>11, <3>1 DEF Fail, TypeOK, Record
  <2>5. QED
    BY <2>1, <2>2, <2>3, <2>4, StepTyped
<1>12. CASE UNCHANGED vars
  BY <1>12 DEF vars, TypeInv, TypeOK, Stage, Counted
<1>13. QED
  BY <1>3, <1>4, <1>5, <1>6, <1>7, <1>8, <1>9, <1>10, <1>11, <1>12 DEF Next, Serve

(* Roles, record and requests keep their types, however requests interleave. *)
THEOREM TypeCorrect == Spec => []TypeOK
<1>1. TypeInv => TypeOK
  BY DEF TypeInv
<1>2. QED
  BY <1>1, TypeInit, TypeNext, PTL DEF Spec

-----------------------------------------------------------------------------
(* The PI owns the storage system when a transfer runs alone, whatever     *)
(* else overlaps, and even if requests stop half-way, unless a window took *)
(* another for the PI.                                                     *)

(* A transfer from the PI to another.  It has removed the new PI from the  *)
(* co-PIs when it makes its second change, and has named the new PI when   *)
(* it makes its third.                                                     *)
HandsOver(r) ==
  /\ request[r].at = 1 =>
       /\ request[r].target # pi /\ request[r].old = pi
       /\ request[r].pc # "load" => request[r].pi = pi
       /\ request[r].pc = "save" => request[r].target \notin co_pis
  /\ request[r].at = 2 =>
       /\ request[r].target # pi /\ request[r].old = pi
       /\ request[r].target \notin co_pis
       /\ request[r].pc \in {"relate", "save"} => role[request[r].target] = "OWNER"
       /\ request[r].pi = IF request[r].pc = "save" THEN request[r].target ELSE pi
  /\ request[r].at = 3 =>
       request[r].target = pi /\ request[r].old # pi /\ request[r].pi = pi

(* A transfer by a window that took another for the PI. *)
Misleads(r) ==
  /\ {request[r].target, request[r].old, pi} \subseteq misled
  /\ request[r].pc # "load" => request[r].pi \in {pi, request[r].target}

(* What a request knows of the project while it is served. *)
Proceeds(r) ==
  /\ request[r].act \in {"add", "remove"} =>
       /\ request[r].target # pi \/ request[r].target \in misled
       /\ request[r].pc # "load" => request[r].pi = pi
  /\ request[r].act = "edit" => (request[r].pc # "load" => request[r].pi = pi)
  /\ request[r].act = "transfer" => HandsOver(r) \/ Misleads(r)

Lead == pi \notin misled => role[pi] = "OWNER" /\ pi \notin co_pis

(* While a transfer is under way nothing else is. *)
TransferAlone ==
  \A r, q \in Requests :
    request[r].act = "transfer" /\ ~Over(r) /\ ~Over(q) => r = q

TransferInv ==
  /\ TypeInv
  /\ TransferAlone
  /\ Lead
  /\ \A r \in Requests : ~Over(r) => Proceeds(r)

LEMMA TransferInit == Init => TransferInv
BY TypeInit, UsersAssumption DEF Init, TransferInv, TransferAlone, Over, Lead

(* It is enough to look at the request that moves: only a transfer, which  *)
(* is alone, names another PI.                                             *)
LEMMA MoverDecides ==
  ASSUME TransferInv, TypeInv', NEW r \in Requests, ~Over(r),
         \A q \in Requests : q # r => request'[q] = request[q],
         request'[r].act = request[r].act,
         request[r].act # "transfer" => pi' = pi, misled' = misled,
         Lead', ~Over(r)' => Proceeds(r)'
  PROVE  TransferInv'
<1>1. \A q \in Requests : q # r => (Over(q)' <=> Over(q))
  BY DEF Over
<1>2. \A q \in Requests : request'[q].act = request[q].act
  OBVIOUS
<1>3. \A q \in Requests : ~Over(q)' => ~Over(q)
  BY <1>1
<1>4. TransferAlone'
  BY <1>2, <1>3 DEF TransferInv, TransferAlone
<1>5. ASSUME NEW q \in Requests, q # r, ~Over(q)' PROVE Proceeds(q)'
  <2>1. ~Over(q) /\ Proceeds(q) /\ request'[q] = request[q]
    BY <1>3, <1>5 DEF TransferInv
  <2>2. request[r].act # "transfer" /\ request[q].act # "transfer"
    BY <1>5, <2>1 DEF TransferInv, TransferAlone
  <2>3. QED
    BY <2>1, <2>2 DEF Proceeds
<1>6. QED
  BY <1>4, <1>5 DEF TransferInv

LEMMA TransferNext ==
  ASSUME "transfer" \in Exclusive, TransferInv, TypeInv', [Next]_vars
  PROVE  TransferInv'
<1> USE DEF At
<1>1. TypeOK /\ Lead /\ \A r \in Requests : Stage(r) /\ Counted(r) /\ request[r] \in Request
  BY DEF TransferInv, TypeInv, TypeOK
<1>2. ASSUME NEW r \in Requests, NEW u \in Users, NEW act \in Actions, NEW target \in Users,
             NEW s \in shown, Press(r, u, act, target, s)
      PROVE  TransferInv'
  <2>1. \A q \in Requests : q # r => request'[q] = request[q]
    BY <1>1, <1>2 DEF Press, TypeOK
  <2>2. request'[r].act = act /\ Over(r)
    BY <1>1, <1>2 DEF Press, TypeOK, Request, Over
  <2>3. \A q \in Requests : q # r /\ ~Over(q)' => ~Over(q) /\ act # "transfer" /\ request[q].act # "transfer"
    BY <1>2, <2>1 DEF Press, Apart, UnderWay, Over
  <2>4. TransferAlone'
    BY <2>1, <2>2, <2>3 DEF TransferAlone
  <2>5. Lead' /\ misled \subseteq misled' /\ pi' = pi
    BY <1>1, <1>2 DEF Press, Lead
  <2>6. Proceeds(r)'
    <3>1. /\ request'[r].pc = "load" /\ request'[r].at = 1 /\ request'[r].act = act
          /\ request'[r].target = target /\ request'[r].old = s.pi
      BY <1>1, <1>2 DEF Press, TypeOK, Request, Counted
    <3>2. act \in {"add", "remove"} => target # pi' \/ target \in misled'
      BY <1>2, <2>5 DEF Press, Mistakes, About
    <3>3. act = "transfer" => (target # pi' /\ s.pi = pi') \/ {target, s.pi, pi'} \subseteq misled'
      BY <1>2, <2>5 DEF Press, Mistakes, About
    <3>4. QED
      BY <3>1, <3>2, <3>3 DEF Proceeds, HandsOver, Misleads
  <2>7. \A q \in Requests : q # r /\ ~Over(q)' => Proceeds(q)'
    BY <2>1, <2>3, <2>5 DEF TransferInv, Proceeds
  <2>8. QED
    BY <2>4, <2>5, <2>6, <2>7 DEF TransferInv
<1>3. ASSUME NEW r \in Requests, Load(r) PROVE TransferInv'
  <2>1. ~Over(r) /\ Proceeds(r)
    BY <1>3 DEF Load, Over, TransferInv
  <2>2. /\ \A q \in Requests : q # r => request'[q] = request[q]
        /\ request'[r].act = request[r].act
        /\ request[r].act # "transfer" => pi' = pi
        /\ misled' = misled
    BY <1>1, <1>3, <2>1 DEF Load, TypeOK, Request
  <2>3. Lead'
    BY <1>1, <1>3 DEF Load, Lead
  <2>4. Proceeds(r)'
    BY <1>1, <1>3, <2>1 DEF Load, Proceeds, HandsOver, Misleads, TypeOK, Request, Stage, Counted
  <2>5. QED
    BY <2>1, <2>2, <2>3, <2>4, MoverDecides
<1>4. ASSUME NEW r \in Requests, NoAccess(r) PROVE TransferInv'
  <2>1. ~Over(r) /\ Proceeds(r)
    BY <1>4 DEF NoAccess, Over, TransferInv
  <2>2. /\ \A q \in Requests : q # r => request'[q] = request[q]
        /\ request'[r].act = request[r].act
        /\ request[r].act # "transfer" => pi' = pi
        /\ misled' = misled
    BY <1>1, <1>4, <2>1 DEF NoAccess, TypeOK, Request
  <2>3. Lead' /\ Over(r)'
    BY <1>1, <1>4 DEF NoAccess, Lead, Over, TypeOK
  <2>4. QED
    BY <2>1, <2>2, <2>3, MoverDecides
<1>5. ASSUME NEW r \in Requests, ReadRoles(r) PROVE TransferInv'
  <2>1. ~Over(r) /\ Proceeds(r)
    BY <1>5 DEF ReadRoles, Over, TransferInv
  <2>2. /\ \A q \in Requests : q # r => request'[q] = request[q]
        /\ request'[r].act = request[r].act
        /\ request[r].act # "transfer" => pi' = pi
        /\ misled' = misled
    BY <1>1, <1>5, <2>1 DEF ReadRoles, TypeOK, Request
  <2>3. Lead'
    BY <1>1, <1>5 DEF ReadRoles, Lead
  <2>4. Proceeds(r)'
    BY <1>1, <1>5, <2>1 DEF ReadRoles, Proceeds, HandsOver, Misleads, TypeOK, Request, Stage, Counted
  <2>5. QED
    BY <2>1, <2>2, <2>3, <2>4, MoverDecides
<1>6. ASSUME NEW r \in Requests, NotAuthorized(r) PROVE TransferInv'
  <2>1. ~Over(r) /\ Proceeds(r)
    BY <1>6 DEF NotAuthorized, Over, TransferInv
  <2>2. /\ \A q \in Requests : q # r => request'[q] = request[q]
        /\ request'[r].act = request[r].act
        /\ request[r].act # "transfer" => pi' = pi
        /\ misled' = misled
    BY <1>1, <1>6, <2>1 DEF NotAuthorized, TypeOK, Request
  <2>3. Lead' /\ Over(r)'
    BY <1>1, <1>6 DEF NotAuthorized, Lead, Over, TypeOK
  <2>4. QED
    BY <2>1, <2>2, <2>3, MoverDecides
<1>7. ASSUME NEW r \in Requests, SaveRole(r) PROVE TransferInv'
  <2>1. ~Over(r) /\ Proceeds(r)
    BY <1>7 DEF SaveRole, Over, TransferInv
  <2>2. /\ \A q \in Requests : q # r => request'[q] = request[q]
        /\ request'[r].act = request[r].act
        /\ request[r].act # "transfer" => pi' = pi
        /\ misled' = misled
    BY <1>1, <1>7, <2>1 DEF SaveRole, TypeOK, Request
  <2>3. User(r) \in Users /\ Stage(r)
    BY <1>1, <1>7, TheChange DEF SaveRole, Stage, Request
  <2>4. Lead'
    BY <1>1, <1>7, <2>1, <2>3, TheChange DEF SaveRole, Lead, Proceeds, HandsOver, Misleads, Stage, TypeOK, NewRole
  <2>5. Proceeds(r)'
    BY <1>1, <1>7, <2>1, <2>3, TheChange DEF SaveRole, Proceeds, HandsOver, Misleads, TypeOK, Request, Stage, NewRole
  <2>6. QED
    BY <2>1, <2>2, <2>4, <2>5, MoverDecides
<1>8. ASSUME NEW r \in Requests, Relate(r) PROVE TransferInv'
  <2>1. ~Over(r) /\ Proceeds(r)
    BY <1>8 DEF Relate, Over, TransferInv
  <2>2. /\ \A q \in Requests : q # r => request'[q] = request[q]
        /\ request'[r].act = request[r].act
        /\ request[r].act # "transfer" => pi' = pi
        /\ misled' = misled
    BY <1>1, <1>8, <2>1 DEF Relate, TypeOK, Request
  <2>3. User(r) \in Users /\ Stage(r)
    BY <1>1, <1>8, TheChange DEF Relate, Stage, Request
  <2>4. Lead'
    BY <1>1, <1>8, <2>1, <2>3, TheChange DEF Relate, Lead, Proceeds, HandsOver, Misleads, Stage, TypeOK
  <2>5. Proceeds(r)'
    BY <1>1, <1>8, <2>1, <2>3, TheChange DEF Relate, Proceeds, HandsOver, Misleads, TypeOK, Request, Stage
  <2>6. QED
    BY <2>1, <2>2, <2>4, <2>5, MoverDecides
<1>9. ASSUME NEW r \in Requests, SaveMetadata(r) PROVE TransferInv'
  <2>1. ~Over(r) /\ Proceeds(r)
    BY <1>9 DEF SaveMetadata, Over, TransferInv
  <2>2. /\ \A q \in Requests : q # r => request'[q] = request[q]
        /\ request'[r].act = request[r].act
        /\ request[r].act # "transfer" => pi' = pi
        /\ misled' = misled
    BY <1>1, <1>9, <2>1 DEF SaveMetadata, TypeOK, Request, Proceeds, HandsOver, Misleads, Counted
  <2>3. Len(Todo(r)) = IF request[r].act = "transfer" THEN 3
                       ELSE IF request[r].act = "edit" THEN 0 ELSE 1
    BY <1>1, <1>9, HowMany DEF SaveMetadata
  <2>4. Lead'
    BY <1>1, <1>9, <2>1, <2>3 DEF SaveMetadata, Lead, Proceeds, HandsOver, Misleads, TypeOK, Request, Counted
  <2>5. ~Over(r)' => Proceeds(r)'
    BY <1>1, <1>9, <2>1, <2>3 DEF SaveMetadata, Proceeds, HandsOver, Misleads, TypeOK, Request, Counted, Over
  <2>6. QED
    BY <2>1, <2>2, <2>4, <2>5, MoverDecides
<1>10. ASSUME NEW r \in Requests, Fail(r) PROVE TransferInv'
  <2>1. ~Over(r) /\ Proceeds(r)
    BY <1>10 DEF Fail, Over, TransferInv
  <2>2. /\ \A q \in Requests : q # r => request'[q] = request[q]
        /\ request'[r].act = request[r].act
        /\ request[r].act # "transfer" => pi' = pi
        /\ misled' = misled
    BY <1>1, <1>10, <2>1 DEF Fail, TypeOK, Request
  <2>3. Lead' /\ Over(r)'
    BY <1>1, <1>10 DEF Fail, Lead, Over, TypeOK
  <2>4. QED
    BY <2>1, <2>2, <2>3, MoverDecides
<1>11. CASE UNCHANGED vars
  BY <1>11 DEF vars, TransferInv, TransferAlone, TypeInv, TypeOK, Stage, Counted, Over, Lead,
     Proceeds, HandsOver, Misleads
<1>12. QED
  BY <1>2, <1>3, <1>4, <1>5, <1>6, <1>7, <1>8, <1>9, <1>10, <1>11 DEF Next, Serve

(* The PI that the record names holds the role OWNER at every moment, when *)
(* a transfer is made alone, unless a window that took another for the PI  *)
(* asked for something that is the PI's: the order in which transfer_pi    *)
(* makes its changes survives a failure after any of its steps, and no     *)
(* adding, removing or editing, however these overlap and however old the  *)
(* teams are that their windows show, can disturb it.                      *)
THEOREM PiStaysOwner == ASSUME "transfer" \in Exclusive PROVE Spec => []PiIsOwner
<1>1. TransferInv /\ TypeInv' /\ [Next]_vars => TransferInv'
  BY TransferNext
<1>2. TransferInv => PiIsOwner
  BY DEF TransferInv, Lead, PiIsOwner
<1>3. QED
  BY <1>1, <1>2, TransferInit, TypeInit, TypeNext, PTL DEF Spec
-----------------------------------------------------------------------------
(* Roles and record agree on everybody no two requests were about at the   *)
(* same time, when a transfer runs alone and windows know the PI.          *)

Joined(u) == role[u] = "ADMIN" /\ u \in co_pis
Left(u) == role[u] = "NONE" /\ u \notin co_pis

(* How far a request has come with u, whom it adds...                      *)
Adding(r, u) ==
  /\ request[r].pc \in {"load", "roles", "role"} => Left(u) \/ Joined(u)
  /\ request[r].pc = "relate" => role[u] = "ADMIN"
  /\ request[r].pc = "save" => Joined(u)

(* ... or removes, the role, if there was one, having been read...         *)
Removing(r, u) ==
  /\ request[r].pc \in {"load", "roles", "role"} => Joined(u) \/ Left(u)
  /\ request[r].pc = "role" => (Joined(u) => request[r].known)
  /\ request[r].pc = "relate" => role[u] = "NONE"
  /\ request[r].pc = "save" => Left(u)

(* ... or makes co-PI in the end.                                          *)
Resigning(r, u) ==
  /\ request[r].pc \in {"roles", "role"} => role[u] = "OWNER" /\ u \notin co_pis
  /\ request[r].pc = "relate" => role[u] = "ADMIN" /\ u \notin co_pis
  /\ request[r].pc = "save" => Joined(u)

Halfway(r, u) ==
  /\ request[r].act = "add" => Adding(r, u)
  /\ request[r].act = "remove" => Removing(r, u)
  /\ request[r].act = "transfer" =>
       /\ u = request[r].target /\ request[r].at = 1 => Removing(r, u)
       /\ u = request[r].target /\ request[r].at = 2
            => (request[r].pc \in {"roles", "role"} => Left(u))
       /\ u = request[r].old /\ request[r].at = 3 => Resigning(r, u)

(* A user nobody disturbed is in the hands of one request, or settled. *)
InHand(u) ==
  /\ \A r, q \in UnderWay : u \in AboutOf(r) /\ u \in AboutOf(q) => r = q
  /\ \A r \in UnderWay : u \in AboutOf(r) => Halfway(r, u)
  /\ (\A r \in UnderWay : u \notin AboutOf(r)) => Matches(u)

LoneInv == \A u \in Users \ (disturbed \cup misled) : InHand(u)

(* What a request does to those it is not about: nothing. *)
Spares(u) ==
  /\ role'[u] = role[u]
  /\ u \in co_pis' <=> u \in co_pis
  /\ pi' = u <=> pi = u

LEMMA Settled ==
  ASSUME TypeOK, NEW u \in Users
  PROVE  /\ pi # u /\ (Joined(u) \/ Left(u)) => Matches(u)
         /\ pi # u /\ Matches(u) => Joined(u) \/ Left(u)
         /\ pi = u /\ role[u] = "OWNER" /\ u \notin co_pis => Matches(u)
BY DEF TypeOK, Roles, Matches, Joined, Left

LEMMA WhoIsAbout ==
  ASSUME NEW r \in Requests
  PROVE  /\ request[r].act \in {"add", "remove"} => AboutOf(r) = {request[r].target}
         /\ request[r].act = "transfer" => AboutOf(r) = {request[r].target, request[r].old}
         /\ request[r].act \in {"edit", "none"} => AboutOf(r) = {}
BY DEF AboutOf, About

(* It is enough to look at the request that moves and at those it is about. *)
LEMMA LoneMover ==
  ASSUME LoneInv, NEW r \in Requests, ~Over(r),
         \A q \in Requests : q # r => request'[q] = request[q],
         request'[r].act = request[r].act, request'[r].target = request[r].target,
         request'[r].old = request[r].old,
         disturbed \subseteq disturbed', misled' = misled,
         \A u \in Users \ (AboutOf(r) \cup misled) : Spares(u),
         \A u \in AboutOf(r) \ (disturbed' \cup misled) :
           u \in Users /\ Halfway(r, u) => IF Over(r)' THEN Matches(u)' ELSE Halfway(r, u)'
  PROVE  LoneInv'
<1>1. \A q \in Requests : AboutOf(q)' = AboutOf(q)
  BY DEF AboutOf
<1>2. \A q \in Requests : q # r => (q \in UnderWay' <=> q \in UnderWay)
  BY DEF UnderWay, Over
<1>3. r \in UnderWay /\ (r \in UnderWay' <=> ~Over(r)') /\ UnderWay \subseteq Requests
      /\ UnderWay' \subseteq Requests
  BY DEF UnderWay
<1> SUFFICES ASSUME NEW u \in Users, u \notin disturbed', u \notin misled PROVE InHand(u)'
  BY DEF LoneInv
<1>4. InHand(u)
  BY DEF LoneInv
<1>5. \A x, q \in UnderWay' : u \in AboutOf(x)' /\ u \in AboutOf(q)' => x = q
  BY <1>1, <1>2, <1>3, <1>4 DEF InHand
<1>6. CASE u \in AboutOf(r)
  <2>1. Halfway(r, u) /\ \A q \in UnderWay : q # r => u \notin AboutOf(q)
    BY <1>3, <1>4, <1>6 DEF InHand
  <2>2. \A q \in UnderWay' : q # r => u \notin AboutOf(q)'
    BY <1>1, <1>2, <1>3, <2>1
  <2>3. IF Over(r)' THEN Matches(u)' ELSE Halfway(r, u)'
    BY <1>6, <2>1
  <2>4. \A q \in UnderWay' : u \in AboutOf(q)' => Halfway(q, u)'
    BY <1>3, <2>2, <2>3
  <2>5. (\A q \in UnderWay' : u \notin AboutOf(q)') => Matches(u)'
    BY <1>1, <1>3, <1>6, <2>3
  <2>6. QED
    BY <1>5, <2>4, <2>5 DEF InHand
<1>7. CASE u \notin AboutOf(r)
  <2>1. Spares(u)
    BY <1>7
  <2>2. Matches(u) => Matches(u)'
    BY <2>1 DEF Spares, Matches
  <2>3. ASSUME NEW q \in UnderWay', u \in AboutOf(q)' PROVE Halfway(q, u)'
    <3>1. q # r /\ q \in UnderWay /\ u \in AboutOf(q) /\ request'[q] = request[q]
      BY <1>1, <1>2, <1>3, <1>7, <2>3
    <3>2. Halfway(q, u)
      BY <1>4, <3>1 DEF InHand
    <3>3. QED
      BY <2>1, <3>1, <3>2 DEF Spares, Halfway, Adding, Removing, Resigning, Joined, Left
  <2>4. (\A q \in UnderWay' : u \notin AboutOf(q)') => Matches(u)'
    <3>1. (\A q \in UnderWay' : u \notin AboutOf(q)') => \A q \in UnderWay : u \notin AboutOf(q)
      BY <1>1, <1>2, <1>3, <1>7
    <3>2. QED
      BY <1>4, <2>2, <3>1 DEF InHand
  <2>5. QED
    BY <1>5, <2>3, <2>4 DEF InHand
<1>8. QED
  BY <1>6, <1>7

LEMMA LoneNext ==
  ASSUME "transfer" \in Exclusive, TransferInv, TypeInv', LoneInv, [Next]_vars
  PROVE  LoneInv'
<1> USE DEF At
<1>1. TypeOK /\ Lead /\ \A r \in Requests : Stage(r) /\ Counted(r) /\ request[r] \in Request
  BY DEF TransferInv, TypeInv, TypeOK
<1>2. TypeOK' /\ \A r \in Requests : ~Over(r) => Proceeds(r)
  BY DEF TransferInv, TypeInv
<1>3. ASSUME NEW r \in Requests, NEW u \in Users, NEW act \in Actions, NEW target \in Users,
             NEW s \in shown, Press(r, u, act, target, s)
      PROVE  LoneInv'
  <2>1. /\ \A q \in Requests : q # r => request'[q] = request[q]
        /\ UNCHANGED <<role, pi, co_pis>>
        /\ request'[r].pc = "load" /\ request'[r].act = act
        /\ request'[r].target = target /\ request'[r].old = s.pi /\ request'[r].at = 1
    BY <1>1, <1>3 DEF Press, TypeOK, Request, Counted
  <2>2. UnderWay' = UnderWay \cup {r} /\ r \notin UnderWay
    BY <1>3, <2>1 DEF Press, UnderWay, Over
  <2>3. /\ AboutOf(r)' = About(act, target, s.pi)
        /\ \A q \in UnderWay : AboutOf(q)' = AboutOf(q) /\ request'[q] = request[q]
    BY <2>1, <2>2 DEF AboutOf, UnderWay
  <2>4. \A x : x \in disturbed' <=>
          x \in disturbed \/ (x \in AboutOf(r)' /\ \E q \in UnderWay : x \in AboutOf(q))
    BY <1>3, <2>3 DEF Press
  <2>0. misled \subseteq misled'
    BY <1>3 DEF Press
  <2> SUFFICES ASSUME NEW x \in Users, x \notin disturbed', x \notin misled' PROVE InHand(x)'
    BY DEF LoneInv
  <2>5. InHand(x) /\ (x \in AboutOf(r)' => \A q \in UnderWay : x \notin AboutOf(q))
    BY <2>0, <2>4 DEF LoneInv
  <2>6. \A p, q \in UnderWay' : x \in AboutOf(p)' /\ x \in AboutOf(q)' => p = q
    BY <2>2, <2>3, <2>5 DEF InHand
  <2>7. Matches(x)' <=> Matches(x)
    BY <2>1 DEF Matches
  <2>8. ASSUME x \in AboutOf(r)' PROVE Halfway(r, x)'
    <3>1. Matches(x)
      BY <2>5, <2>8 DEF InHand
    <3>2. act \in {"add", "remove", "transfer"} /\ x \in About(act, target, s.pi)
      BY <2>3, <2>8, ActionsAssumption DEF About
    <3>3. ~Mistakes(act, target, s.pi)
      BY <1>3, <2>3, <2>8 DEF Press
    <3>4. target # pi /\ (act = "transfer" => s.pi = pi)
      BY <3>2, <3>3 DEF Mistakes
    <3>5. x = target => Joined(x) \/ Left(x)
      BY <1>1, <3>1, <3>4, Settled
    <3>6. act \in {"add", "remove"} => x = target
      BY <3>2 DEF About
    <3>7. (Joined(x) => Joined(x)') /\ (Left(x) => Left(x)')
      BY <2>1 DEF Joined, Left
    <3>8. QED
      BY <2>1, <3>2, <3>5, <3>6, <3>7 DEF Halfway, Adding, Removing
  <2>9. \A q \in UnderWay' : x \in AboutOf(q)' => Halfway(q, x)'
    <3>1. ASSUME NEW q \in UnderWay, x \in AboutOf(q)' PROVE Halfway(q, x)'
      <4>1. Halfway(q, x) /\ request'[q] = request[q]
        BY <2>3, <2>5, <3>1 DEF InHand
      <4>2. QED
        BY <2>1, <4>1 DEF Halfway, Adding, Removing, Resigning, Joined, Left
    <3>2. QED
      BY <2>2, <2>8, <3>1
  <2>10. QED
    BY <2>2, <2>3, <2>5, <2>6, <2>7, <2>9 DEF InHand
<1>4. ASSUME NEW r \in Requests, Load(r) \/ ReadRoles(r) \/ NoAccess(r) \/ NotAuthorized(r)
      PROVE  LoneInv'
  <2>1. ~Over(r) /\ request[r].pc \in {"load", "roles"} /\ UNCHANGED <<role, pi, co_pis, misled, disturbed>>
    BY <1>4 DEF Load, ReadRoles, NoAccess, NotAuthorized, Over
  <2>2. /\ \A q \in Requests : q # r => request'[q] = request[q]
        /\ request'[r].act = request[r].act /\ request'[r].target = request[r].target
        /\ request'[r].old = request[r].old /\ request'[r].at = request[r].at
    BY <1>1, <1>4 DEF Load, ReadRoles, NoAccess, NotAuthorized, TypeOK, Request
  <2>3. ASSUME NEW u \in AboutOf(r) \ (disturbed \cup misled), u \in Users, Halfway(r, u)
        PROVE  IF Over(r)' THEN Matches(u)' ELSE Halfway(r, u)'
    <3>1. request[r].act \in {"add", "remove", "transfer"} /\ Proceeds(r)
      <4>1. request[r].act \in {"add", "remove", "transfer", "edit", "none"}
        BY <1>1, ActionsAssumption DEF Request
      <4>2. QED
        BY <1>2, <2>1, <2>3, <4>1, WhoIsAbout
    <3>2. CASE Load(r)
      <4>1. request[r].pc = "load" /\ request'[r].pc = "roles" /\ request[r].at = 1
        BY <1>1, <3>1, <3>2 DEF Load, TypeOK, Request, Counted
      <4>2. QED
        BY <2>1, <2>2, <2>3, <4>1 DEF Over, Halfway, Adding, Removing, Resigning, Joined, Left
    <3>3. CASE ReadRoles(r)
      <4>1. /\ request[r].pc = "roles" /\ request'[r].pc = "role"
            /\ request'[r].known = (role[User(r)] # "NONE")
        BY <1>1, <3>3 DEF ReadRoles, TypeOK, Request
      <4>2. request[r].act = "remove" \/ (request[r].act = "transfer" /\ request[r].at = 1)
              => User(r) = request[r].target
        BY <1>1, <4>1, TheChange
      <4>3. request[r].act = "remove" => u = request[r].target
        BY <2>3, WhoIsAbout
      <4>4. Removing(r, u) /\ User(r) = u => Removing(r, u)'
        <5>1. Joined(u) => role[u] = "ADMIN"
          BY DEF Joined
        <5>2. role[u] = "ADMIN" /\ User(r) = u => (role[User(r)] # "NONE") = TRUE
          OBVIOUS
        <5>3. Joined(u) /\ User(r) = u => request'[r].known = TRUE
          BY <4>1, <5>1, <5>2
        <5>4. QED
          BY <2>1, <4>1, <5>3 DEF Removing, Joined, Left
      <4>5. /\ Adding(r, u) => Adding(r, u)'
            /\ Resigning(r, u) => Resigning(r, u)'
            /\ Left(u) => Left(u)'
        BY <2>1, <4>1 DEF Adding, Resigning, Joined, Left
      <4>6. ~Over(r)'
        BY <4>1 DEF Over
      <4>7. Halfway(r, u)'
        <5>1. request[r].act = "add" => Adding(r, u)'
          BY <2>3, <4>5 DEF Halfway
        <5>2. request[r].act = "remove" => Removing(r, u)'
          BY <2>3, <4>2, <4>3, <4>4 DEF Halfway
        <5>3. request[r].act = "transfer" =>
                /\ u = request[r].target /\ request[r].at = 1 => Removing(r, u)'
                /\ u = request[r].target /\ request[r].at = 2 => Left(u)'
                /\ u = request[r].old /\ request[r].at = 3 => Resigning(r, u)'
          BY <2>3, <4>1, <4>2, <4>4, <4>5 DEF Halfway
        <5>4. QED
          BY <2>2, <5>1, <5>2, <5>3 DEF Halfway
      <4>8. QED
        BY <4>6, <4>7
    <3>4. CASE NoAccess(r) \/ NotAuthorized(r)
      <4>1. /\ request[r].act \in {"add", "remove"} /\ request'[r].pc = "refused"
            /\ request[r].pc \in {"load", "roles"}
        BY <1>1, <3>1, <3>4 DEF NoAccess, NotAuthorized, TypeOK, Request
      <4>2. u = request[r].target /\ u # pi
        BY <2>3, <3>1, <4>1, WhoIsAbout DEF Proceeds
      <4>3. Joined(u) \/ Left(u)
        BY <2>3, <4>1 DEF Halfway, Adding, Removing
      <4>4. Matches(u)'
        <5>1. Matches(u)
          BY <1>1, <2>3, <4>2, <4>3, Settled
        <5>2. QED
          BY <2>1, <5>1 DEF Matches
      <4>5. QED
        BY <4>1, <4>4 DEF Over
    <3>5. QED
      BY <1>4, <3>2, <3>3, <3>4
  <2>4. \A u \in Users \ (AboutOf(r) \cup misled) : Spares(u)
    BY <2>1 DEF Spares
  <2>5. QED
    BY <2>1, <2>2, <2>3, <2>4, LoneMover
<1>5. ASSUME NEW r \in Requests, SaveRole(r) \/ Relate(r) PROVE LoneInv'
  <2>1. ~Over(r) /\ request[r].pc \in {"role", "relate"} /\ UNCHANGED <<pi, misled, disturbed>>
    BY <1>5 DEF SaveRole, Relate, Over
  <2>2. /\ \A q \in Requests : q # r => request'[q] = request[q]
        /\ request'[r].act = request[r].act /\ request'[r].target = request[r].target
        /\ request'[r].old = request[r].old /\ request'[r].at = request[r].at
        /\ request'[r].known = request[r].known
    BY <1>1, <1>5 DEF SaveRole, Relate, TypeOK, Request
  <2>3. /\ request[r].act \in {"add", "remove", "transfer"} /\ Proceeds(r)
        /\ request[r].act = "transfer" => request[r].at \in 1..3
    BY <1>1, <1>2, <2>1 DEF Stage
  <2>4. User(r) \in AboutOf(r) /\ User(r) \in Users
    BY <1>1, <2>1, <2>3, TheChange, WhoIsAbout DEF Request
  <2>5. CASE SaveRole(r)
    <3>1. /\ request[r].pc = "role" /\ request'[r].pc = "relate" /\ co_pis' = co_pis
          /\ role' = [role EXCEPT ![User(r)] = NewRole(r)] /\ role \in [Users -> Roles]
      BY <1>1, <2>5 DEF SaveRole, TypeOK, Request
    <3>2. \A u \in Users : role'[u] = IF u = User(r) THEN NewRole(r) ELSE role[u]
      BY <2>4, <3>1
    <3>3. ASSUME NEW u \in AboutOf(r) \ (disturbed \cup misled), u \in Users, Halfway(r, u)
          PROVE  Halfway(r, u)'
      <4>1. CASE request[r].act = "add"
        <5>1. u = User(r) /\ NewRole(r) = "ADMIN"
          BY <1>1, <2>1, <3>3, <4>1, TheChange, WhoIsAbout DEF NewRole
        <5>2. QED
          BY <2>2, <3>1, <3>2, <3>3, <4>1, <5>1 DEF Halfway, Adding
      <4>2. CASE request[r].act = "remove"
        <5>1. u = User(r) /\ Removing(r, u) /\ Method(r) = "remove_co_pi"
          BY <1>1, <2>1, <3>3, <4>2, TheChange, WhoIsAbout DEF Halfway
        <5>2. NewRole(r) = "NONE"
          BY <3>1, <5>1 DEF NewRole, Removing, Left
        <5>3. QED
          BY <2>2, <3>1, <3>2, <3>3, <4>2, <5>1, <5>2 DEF Halfway, Removing
      <4>3. CASE request[r].act = "transfer"
        <5>1. u \in {request[r].target, request[r].old} /\ request[r].target # request[r].old
          BY <2>3, <3>3, <4>3, WhoIsAbout DEF Proceeds, HandsOver, Misleads
        <5>2. CASE request[r].at = 1
          <6>1. User(r) = request[r].target /\ Method(r) = "remove_co_pi"
            BY <1>1, <2>1, <4>3, <5>2, TheChange
          <6>2. u = request[r].target => Removing(r, u) /\ NewRole(r) = "NONE"
            BY <3>1, <3>3, <4>3, <5>2, <6>1 DEF Halfway, NewRole, Removing, Left
          <6>3. QED
            BY <2>2, <3>1, <3>2, <3>3, <4>3, <5>2, <6>1, <6>2 DEF Halfway, Removing
        <5>3. CASE request[r].at = 2
          BY <2>2, <3>1, <4>3, <5>3 DEF Halfway
        <5>4. CASE request[r].at = 3
          <6>1. User(r) = request[r].old /\ NewRole(r) = "ADMIN"
            BY <1>1, <2>1, <4>3, <5>4, TheChange DEF NewRole
          <6>2. QED
            BY <2>2, <3>1, <3>2, <3>3, <4>3, <5>4, <6>1 DEF Halfway, Resigning
        <5>5. QED
          BY <2>3, <4>3, <5>2, <5>3, <5>4
      <4>4. QED
        BY <2>3, <4>1, <4>2, <4>3
    <3>4. ~Over(r)'
      BY <3>1 DEF Over
    <3>5. \A u \in Users \ (AboutOf(r) \cup misled) : Spares(u)
      BY <2>1, <2>4, <3>1, <3>2 DEF Spares
    <3>6. QED
      BY <2>1, <2>2, <3>3, <3>4, <3>5, LoneMover
  <2>6. CASE Relate(r)
    <3>1. /\ request[r].pc = "relate" /\ request'[r].pc = "save" /\ role' = role
          /\ Method(r) \in {"add_pi", "add_co_pi", "remove_co_pi"}
      BY <1>1, <2>3, <2>6, TheChange DEF Relate, TypeOK, Request
    <3>2. /\ \A u : u # User(r) => (u \in co_pis' <=> u \in co_pis)
          /\ Method(r) = "add_co_pi" => User(r) \in co_pis'
          /\ Method(r) = "remove_co_pi" => User(r) \notin co_pis'
      BY <2>6, <3>1 DEF Relate
    <3>3. ASSUME NEW u \in AboutOf(r) \ (disturbed \cup misled), u \in Users, Halfway(r, u)
          PROVE  Halfway(r, u)'
      <4>1. CASE request[r].act = "add"
        <5>1. u = User(r) /\ Method(r) = "add_co_pi"
          BY <1>1, <2>1, <3>3, <4>1, TheChange, WhoIsAbout
        <5>2. QED
          BY <2>2, <3>1, <3>2, <3>3, <4>1, <5>1 DEF Halfway, Adding, Joined
      <4>2. CASE request[r].act = "remove"
        <5>1. u = User(r) /\ Method(r) = "remove_co_pi"
          BY <1>1, <2>1, <3>3, <4>2, TheChange, WhoIsAbout
        <5>2. QED
          BY <2>2, <3>1, <3>2, <3>3, <4>2, <5>1 DEF Halfway, Removing, Left
      <4>3. CASE request[r].act = "transfer"
        <5>1. request[r].at = 1 => User(r) = request[r].target /\ Method(r) = "remove_co_pi"
          BY <1>1, <2>1, <4>3, TheChange
        <5>2. request[r].at = 3 => User(r) = request[r].old /\ Method(r) = "add_co_pi"
          BY <1>1, <2>1, <4>3, TheChange
        <5>3. QED
          BY <2>2, <2>3, <3>1, <3>2, <3>3, <4>3, <5>1, <5>2
             DEF Halfway, Removing, Resigning, Joined, Left
      <4>4. QED
        BY <2>3, <4>1, <4>2, <4>3
    <3>4. ~Over(r)'
      BY <3>1 DEF Over
    <3>5. \A u \in Users \ (AboutOf(r) \cup misled) : Spares(u)
      BY <2>1, <2>4, <3>1, <3>2 DEF Spares
    <3>6. QED
      BY <2>1, <2>2, <3>3, <3>4, <3>5, LoneMover
  <2>7. QED
    BY <1>5, <2>5, <2>6
<1>6. ASSUME NEW r \in Requests, SaveMetadata(r) PROVE LoneInv'
  <2>1. ~Over(r) /\ request[r].pc = "save" /\ UNCHANGED <<role, co_pis, misled, disturbed>>
        /\ pi' = request[r].pi /\ Proceeds(r) /\ Counted(r)
    BY <1>1, <1>2, <1>6 DEF SaveMetadata, Over
  <2>2. Len(Todo(r)) = IF request[r].act = "transfer" THEN 3
                       ELSE IF request[r].act = "edit" THEN 0 ELSE 1
    BY <2>1, HowMany
  <2>3. /\ \A q \in Requests : q # r => request'[q] = request[q]
        /\ request'[r].act = request[r].act /\ request'[r].target = request[r].target
        /\ request'[r].old = request[r].old
    BY <1>1, <1>6 DEF SaveMetadata, TypeOK, Request
  <2>4. CASE request[r].act = "transfer"
    <3>1. request[r].at \in 1..3 /\ AboutOf(r) = {request[r].target, request[r].old}
          /\ request[r].target \in Users /\ request[r].old \in Users
      BY <1>1, <2>1, <2>4, WhoIsAbout DEF Counted, Request
    <3>2. /\ request[r].at < 3 => request'[r].pc = "roles" /\ request'[r].at = request[r].at + 1
          /\ request[r].at = 3 => request'[r].pc = "done"
      BY <1>1, <1>6, <2>2, <2>4, <3>1 DEF SaveMetadata, TypeOK, Request
    <3>3. \A u \in Users \ (AboutOf(r) \cup misled) : Spares(u)
      BY <2>1, <2>4, <3>1 DEF Spares, Proceeds, HandsOver, Misleads
    <3>4. ASSUME NEW u \in AboutOf(r) \ (disturbed \cup misled), u \in Users, Halfway(r, u)
          PROVE  IF Over(r)' THEN Matches(u)' ELSE Halfway(r, u)'
      <4>0. HandsOver(r) /\ u \notin misled
        BY <2>1, <2>4, <3>1, <3>4 DEF Proceeds, Misleads
      <4>1. request[r].target # request[r].old
        BY <3>1, <4>0 DEF HandsOver
      <4>2. CASE request[r].at = 1
        <5>1. request'[r].pc = "roles" /\ request'[r].at = 2
          BY <3>2, <4>2
        <5>2. u = request[r].target => Left(u)
          BY <2>1, <2>4, <3>4, <4>2 DEF Halfway, Removing
        <5>3. QED
          BY <2>1, <2>3, <2>4, <5>1, <5>2 DEF Over, Halfway, Left
      <4>3. CASE request[r].at = 2
        <5>1. request'[r].pc = "roles" /\ request'[r].at = 3
          BY <3>2, <4>3
        <5>2. request[r].old = pi
          BY <4>0, <4>3 DEF HandsOver
        <5>3. QED
          BY <1>1, <2>1, <2>3, <2>4, <4>0, <4>1, <5>1, <5>2 DEF Over, Halfway, Resigning, Lead
      <4>4. CASE request[r].at = 3
        <5>1. /\ request'[r].pc = "done" /\ request[r].target = pi /\ pi' = pi
              /\ request[r].old # pi
          BY <2>1, <3>2, <4>0, <4>4 DEF HandsOver
        <5>2. u = request[r].old => Joined(u)
          BY <2>1, <2>4, <3>4, <4>4 DEF Halfway, Resigning
        <5>3. Matches(u)
          BY <1>1, <3>1, <3>4, <4>0, <5>1, <5>2, Settled DEF Lead
        <5>4. QED
          BY <2>1, <5>1, <5>3 DEF Over, Matches
      <4>5. QED
        BY <3>1, <4>2, <4>3, <4>4
    <3>5. QED
      BY <2>1, <2>3, <3>3, <3>4, LoneMover
  <2>5. CASE request[r].act # "transfer"
    <3>1. pi' = pi /\ request[r].at = 1 /\ request'[r].pc = "done"
      <4>1. request[r].act \in {"add", "remove", "edit"} /\ request[r].at = 1
        BY <2>1, <2>5 DEF Counted
      <4>2. pi' = pi
        BY <2>1, <4>1 DEF Proceeds
      <4>3. ~(request[r].at < Len(Todo(r)))
        BY <2>2, <4>1
      <4>4. QED
        BY <1>1, <1>6, <4>1, <4>2, <4>3 DEF SaveMetadata, TypeOK, Request
    <3>2. \A u \in Users \ (AboutOf(r) \cup misled) : Spares(u)
      BY <2>1, <3>1 DEF Spares
    <3>3. ASSUME NEW u \in AboutOf(r) \ (disturbed \cup misled), u \in Users, Halfway(r, u)
          PROVE  Matches(u)'
      <4>1. request[r].act \in {"add", "remove"} /\ u = request[r].target
        BY <2>1, <2>5, <3>3, WhoIsAbout DEF Counted
      <4>2. u # pi /\ (Joined(u) \/ Left(u))
        BY <2>1, <3>3, <4>1 DEF Proceeds, Halfway, Adding, Removing
      <4>3. Matches(u)
        BY <1>1, <3>3, <4>2, Settled
      <4>4. QED
        BY <2>1, <3>1, <4>3 DEF Matches
    <3>4. Over(r)'
      BY <3>1 DEF Over
    <3>5. QED
      BY <2>1, <2>3, <3>2, <3>3, <3>4, LoneMover
  <2>6. QED
    BY <2>4, <2>5
<1>7. ASSUME NEW r \in Requests, Fail(r) PROVE LoneInv'
  <2>1. /\ ~Over(r) /\ UNCHANGED <<role, pi, co_pis, misled>>
        /\ disturbed' = disturbed \cup AboutOf(r)
    BY <1>7 DEF Fail
  <2>2. /\ \A q \in Requests : q # r => request'[q] = request[q]
        /\ request'[r].act = request[r].act /\ request'[r].target = request[r].target
        /\ request'[r].old = request[r].old
    BY <1>1, <1>7 DEF Fail, TypeOK, Request
  <2>3. \A u \in Users \ (AboutOf(r) \cup misled) : Spares(u)
    BY <2>1 DEF Spares
  <2>4. QED
    BY <2>1, <2>2, <2>3, LoneMover
<1>8. CASE UNCHANGED vars
  BY <1>8 DEF vars, LoneInv, InHand, UnderWay, Over, AboutOf, Halfway, Adding, Removing,
     Resigning, Joined, Left, Matches
<1>9. QED
  BY <1>3, <1>4, <1>5, <1>6, <1>7, <1>8 DEF Next, Serve

(* When no request is under way, the roles and the record agree on         *)
(* everybody whom no two requests at the same time were about, none that   *)
(* failed, and none of a window that took another for the PI, if a         *)
(* transfer is made alone: requests about other people, however many and   *)
(* however they interleave, cost nobody a role or a place in the record,   *)
(* and adding whom another window added, or removing whom it removed, does *)
(* no harm either.                                                         *)
THEOREM LoneChangesAgree ==
  ASSUME "transfer" \in Exclusive PROVE Spec => []LoneChangesMatch
<1>1. Init => LoneInv
  BY UsersAssumption DEF Init, LoneInv, InHand, UnderWay, Over, Matches
<1>2. TransferInv /\ TypeInv' /\ LoneInv /\ [Next]_vars => LoneInv'
  BY LoneNext
<1>3. TransferInv /\ TypeInv' /\ [Next]_vars => TransferInv'
  BY TransferNext
<1>4. LoneInv => LoneChangesMatch
  BY DEF LoneInv, InHand, LoneChangesMatch
<1>5. QED
  BY <1>1, <1>2, <1>3, <1>4, TransferInit, TypeInit, TypeNext, PTL DEF Spec
=============================================================================
