--------------------------- MODULE ProjectMembers ---------------------------
(***************************************************************************)
(* The team of one project: who has which role on the project's Tapis      *)
(* storage system, and who the metadata record names as PI and co-PIs.     *)
(*                                                                         *)
(* Every request of the Manage Team window is served by a web process of   *)
(* its own: it loads the project, and for each change reads the roles,     *)
(* saves the new role with a remote call, changes the many-to-many table   *)
(* and saves the metadata row.  Each of these is a step; there is no       *)
(* transaction, and the row is saved whole, with the pi it was loaded      *)
(* with.  A request that fails stops where it is.                          *)
(*                                                                         *)
(* A window shows the record as it was when it was fetched, and the server *)
(* checks who asks, not what place the users have whom it is asked about.  *)
(*                                                                         *)
(* Nothing in the code keeps requests apart.  Exclusive names the kinds    *)
(* that users are taken to make while nothing else is going on: what holds *)
(* with {} holds of the code, the rest needs that restraint.               *)
(***************************************************************************)
EXTENDS Naturals, Sequences, FiniteSets

CONSTANTS
  Users,     \* people who may be members
  Creator,   \* the PI the project starts with
  CoPis,     \* the co-PIs it starts with
  Requests,  \* requests of the Manage Team window (bounds their number)
  Actions,   \* what is requested: "add", "remove", "transfer", "edit"
  Exclusive, \* the actions that are taken one at a time, and alone
  Fails      \* requests may fail half-way

ASSUME UsersAssumption ==
  Creator \in Users /\ CoPis \subseteq Users \ {Creator}
ASSUME ActionsAssumption == Actions \subseteq {"add", "remove", "transfer", "edit"}
ASSUME FlagsAssumption == Exclusive \subseteq Actions /\ Fails \in BOOLEAN

VARIABLES
  role,    \* the role of every user on the storage system
  pi,      \* ProjectMetadata.pi
  co_pis,  \* ProjectMetadata.co_pis
  request, \* what a request is at
  shown,   \* history: the records there have been, which windows may show still
  misled,  \* history: whom a request that took another for the PI was about
  disturbed  \* history: the users two requests were about at the same time,
             \* or a request that failed

vars == <<role, pi, co_pis, request, shown, misled, disturbed>>

Record(p, c) == [pi |-> p, co_pis |-> c]

Roles == {"NONE", "ADMIN", "OWNER"}

(* Faulty: the old PI is made co-PI before there is a new one. *)
ChangesDemotingFirst(act, target, old) ==
  CASE act = "add"      -> <<<<"add_co_pi", target>>>>
    [] act = "remove"   -> <<<<"remove_co_pi", target>>>>
    [] act = "transfer" -> <<<<"remove_co_pi", target>>, <<"add_co_pi", old>>,
                             <<"add_pi", target>>>>
    [] act \in {"edit", "none"} -> <<>>

(* What a request consists of: transfer_pi is three calls, adding and      *)
(* removing a member one; edit (of title or description) saves the row.    *)
Changes(act, target, old) ==
  CASE act = "add"      -> <<<<"add_co_pi", target>>>>
    [] act = "remove"   -> <<<<"remove_co_pi", target>>>>
    [] act = "transfer" -> <<<<"remove_co_pi", target>>, <<"add_pi", target>>,
                             <<"add_co_pi", old>>>>
    [] act \in {"edit", "none"} -> <<>>

(* username and newOwner are target, oldOwner is old; at: the change being *)
(* made; pi: the field of the record in memory; known: the roles that were *)
(* read name the user of the change.                                       *)
Request == [pc : {"idle", "load", "roles", "role", "relate", "save",
                  "done", "refused", "failed"},
            act : Actions \cup {"none"}, by : Users, target : Users, old : Users,
            at : 1..4, pi : Users, known : BOOLEAN]

Init ==
  /\ role = [u \in Users |-> IF u = Creator THEN "OWNER"
                             ELSE IF u \in CoPis THEN "ADMIN" ELSE "NONE"]
  /\ pi = Creator
  /\ co_pis = CoPis
  /\ request = [r \in Requests |->
                  [pc |-> "idle", act |-> "none", by |-> Creator, target |-> Creator,
                   old |-> Creator, at |-> 1, pi |-> Creator, known |-> FALSE]]
  /\ shown = {Record(Creator, CoPis)}
  /\ misled = {}
  /\ disturbed = {}

At(r, pc) == request[r].pc = pc

Over(r) == request[r].pc \in {"idle", "done", "refused", "failed"}

UnderWay == {r \in Requests : ~Over(r)}

(* The users whose role or place in the record a request changes. *)
About(act, target, old) ==
  CASE act \in {"add", "remove"}  -> {target}
    [] act = "transfer"           -> {target, old}
    [] act \in {"edit", "none"}   -> {}

AboutOf(r) == About(request[r].act, request[r].target, request[r].old)

Todo(r) == Changes(request[r].act, request[r].target, request[r].old)

(* The change being made: the method called and its user. *)
Method(r) == Todo(r)[request[r].at][1]

User(r) == Todo(r)[request[r].at][2]

CanEdit(u) == role[u] \in {"ADMIN", "OWNER"}

-----------------------------------------------------------------------------
(* What a window offers for the team s it shows: anyone who is not a       *)
(* member can be added, any co-PI removed, and the PI may hand the project *)
(* to a co-PI.  Members see the window.                                    *)
Offers(s, u, act, target) ==
  /\ u \in s.co_pis \cup {s.pi}
  /\ \/ act = "add" /\ target \notin s.co_pis \cup {s.pi}
     \/ act = "remove" /\ target \in s.co_pis
     \/ act = "transfer" /\ u = s.pi /\ target \in s.co_pis
     \/ act = "edit" /\ target = u

Apart(act) ==
  /\ act \in Exclusive => UnderWay = {}
  /\ \A q \in UnderWay : request[q].act \notin Exclusive

(* The window does not know who the PI is: it has them added or removed,   *)
(* made PI again, or has another give the project away.                    *)
Mistakes(act, target, old) ==
  \/ act \in {"add", "remove", "transfer"} /\ target = pi
  \/ act = "transfer" /\ old # pi

(* The request of a window that shows the record s. *)
Press(r, u, act, target, s) ==
  /\ At(r, "idle")
  /\ Apart(act)
  /\ Offers(s, u, act, target)
  /\ misled' = IF Mistakes(act, target, s.pi)
               THEN misled \cup About(act, target, s.pi) \cup {pi} ELSE misled
  /\ disturbed' =
       disturbed \cup (About(act, target, s.pi) \cap UNION {AboutOf(q) : q \in UnderWay})
  /\ request' = [request EXCEPT ![r].pc = "load", ![r].act = act, ![r].by = u,
                                ![r].target = target, ![r].old = s.pi]
  /\ UNCHANGED <<role, pi, co_pis, shown>>

(* Project.__init__: the storage system is read with the user's client,    *)
(* or the service account's for a transfer, then the metadata row.         *)
Load(r) ==
  /\ At(r, "load")
  /\ request[r].act # "transfer" => role[request[r].by] # "NONE"
  /\ request' = [request EXCEPT
       ![r].pc = IF request[r].act = "edit" THEN "save" ELSE "roles", ![r].pi = pi]
  /\ UNCHANGED <<role, pi, co_pis, shown, misled, disturbed>>

(* Without a role the system cannot be read: "Invalid storage system". *)
NoAccess(r) ==
  /\ At(r, "load")
  /\ request[r].act # "transfer" /\ role[request[r].by] = "NONE"
  /\ request' = [request EXCEPT ![r].pc = "refused"]
  /\ UNCHANGED <<role, pi, co_pis, shown, misled, disturbed>>

(* _auth_check reads the roles, which are kept until they are saved. *)
ReadRoles(r) ==
  /\ At(r, "roles")
  /\ request[r].act # "transfer" => CanEdit(request[r].by)
  /\ request' = [request EXCEPT ![r].pc = "role", ![r].known = role[User(r)] # "NONE"]
  /\ UNCHANGED <<role, pi, co_pis, shown, misled, disturbed>>

NotAuthorized(r) ==
  /\ At(r, "roles")
  /\ request[r].act # "transfer" /\ ~CanEdit(request[r].by)
  /\ request' = [request EXCEPT ![r].pc = "refused"]
  /\ UNCHANGED <<role, pi, co_pis, shown, misled, disturbed>>

(* Faulty: delete_for_user forgets to mark the role as updated. *)
NewRoleUnmarked(r) ==
  CASE Method(r) = "add_pi"       -> "OWNER"
    [] Method(r) = "add_co_pi"    -> "ADMIN"
    [] Method(r) = "remove_co_pi" -> role[User(r)]

(* roles.add(user, ...) or roles.delete_for_user(user), and roles.save(): *)
(* a role that was not there is not deleted.                              *)
NewRole(r) ==
  CASE Method(r) = "add_pi"       -> "OWNER"
    [] Method(r) = "add_co_pi"    -> "ADMIN"
    [] Method(r) = "remove_co_pi" ->
         IF request[r].known THEN "NONE" ELSE role[User(r)]

SaveRole(r) ==
  /\ At(r, "role")
  /\ role' = [role EXCEPT ![User(r)] = NewRole(r)]
  /\ request' = [request EXCEPT ![r].pc = "relate"]
  /\ UNCHANGED <<pi, co_pis, shown, misled, disturbed>>

(* metadata.co_pis.add(user) or .remove(user) write their table at once;   *)
(* metadata.pi = user waits for the save.                                  *)
Relate(r) ==
  /\ At(r, "relate")
  /\ co_pis' = CASE Method(r) = "add_co_pi"    -> co_pis \cup {User(r)}
                 [] Method(r) = "remove_co_pi" -> co_pis \ {User(r)}
                 [] Method(r) = "add_pi"       -> co_pis
  /\ request' = [request EXCEPT
       ![r].pc = "save",
       ![r].pi = IF Method(r) = "add_pi" THEN User(r) ELSE request[r].pi]
  /\ shown' = shown \cup {Record(pi, co_pis')}
  /\ UNCHANGED <<role, pi, misled, disturbed>>

(* Faulty: an edit clears the fields it was not given. *)
SaveMetadataBlank(r) ==
  LET more == request[r].at < Len(Todo(r)) IN
  /\ At(r, "save")
  /\ pi' = IF request[r].act = "edit" THEN "null" ELSE request[r].pi
  /\ request' = [request EXCEPT ![r].pc = IF more THEN "roles" ELSE "done",
                                ![r].at = IF more THEN @ + 1 ELSE @]
  /\ shown' = shown \cup {Record(pi', co_pis)}
  /\ UNCHANGED <<role, co_pis, misled, disturbed>>

(* save_metadata, and on to the next change. *)
SaveMetadata(r) ==
  LET more == request[r].at < Len(Todo(r)) IN
  /\ At(r, "save")
  /\ pi' = request[r].pi
  /\ request' = [request EXCEPT ![r].pc = IF more THEN "roles" ELSE "done",
                                ![r].at = IF more THEN @ + 1 ELSE @]
  /\ shown' = shown \cup {Record(pi', co_pis)}
  /\ UNCHANGED <<role, co_pis, misled, disturbed>>

(* A remote call, a save or the whole process fails: nothing is undone. *)
Fail(r) ==
  /\ Fails
  /\ ~Over(r)
  /\ request' = [request EXCEPT ![r].pc = "failed"]
  /\ disturbed' = disturbed \cup AboutOf(r)
  /\ UNCHANGED <<role, pi, co_pis, shown, misled>>

Serve(r) ==
  \/ Load(r) \/ NoAccess(r) \/ ReadRoles(r) \/ NotAuthorized(r)
  \/ SaveRole(r) \/ Relate(r) \/ SaveMetadata(r) \/ Fail(r)

Next == \E r \in Requests :
  \/ \E u \in Users, act \in Actions, target \in Users, s \in shown :
        Press(r, u, act, target, s)
  \/ Serve(r)

Spec == Init /\ [][Next]_vars

-----------------------------------------------------------------------------
(* Properties.                                                             *)

(* Roles, record and requests are of their types. *)
TypeOK ==
  /\ role \in [Users -> Roles]
  /\ pi \in Users
  /\ co_pis \subseteq Users
  /\ request \in [Requests -> Request]
  /\ Record(pi, co_pis) \in shown
  /\ shown \subseteq [pi : Users, co_pis : SUBSET Users]
  /\ misled \subseteq Users /\ disturbed \subseteq Users

(* "A project's PI will have an OWNER system role": also while a transfer  *)
(* is going on, and when it stops half-way.  All that takes it from the PI *)
(* is a window that shows a record with another PI, when its request is to *)
(* add, to remove or to promote them, or to hand on what is theirs.  A     *)
(* window that is behind on the co-PIs only does no harm.                  *)
PiIsOwner == role[pi] = "OWNER" \/ pi \in misled

Matches(u) ==
  /\ role[u] = "OWNER" <=> pi = u
  /\ role[u] = "ADMIN" <=> u \in co_pis

(* Once no request is under way, every user has the role the record gives *)
(* them, and the record names nobody without it: all but the users that    *)
(* two requests were about at the same time, or a request that failed, or  *)
(* one that took another for the PI, however the requests about other      *)
(* users interleaved and whatever else their windows were behind on.       *)
LoneChangesMatch ==
  UnderWay = {} => \A u \in Users \ (disturbed \cup misled) : Matches(u)
=============================================================================
