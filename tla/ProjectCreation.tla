-------------------------- MODULE ProjectCreation --------------------------
(***************************************************************************)
(* ProjectsManager.create: the number of a new project comes from the      *)
(* ProjectId table, then a directory is made, a storage system registered, *)
(* a metadata row written and the creator made ADMIN of the system.        *)
(*                                                                         *)
(* Each call is served by a web process of its own; the number is handed   *)
(* out inside a database transaction that locks its row, everything else   *)
(* is a separate remote call or a separate commit, so calls interleave     *)
(* between any two of them.  When the number turns out to be in use, the   *)
(* call scans the tenant for the largest number, resets the counter to it  *)
(* and tries once more.  The management command projects_id resets the     *)
(* counter the same way while the portal runs.                             *)
(*                                                                         *)
(* The tenant may hold systems and directories this portal never made.     *)
(***************************************************************************)
EXTENDS Naturals

CONSTANTS
  Creators,        \* calls of create (bounds their number)
  Commands,        \* runs of the management command (bounds their number)
  ForeignSystems,  \* numbers storage systems made elsewhere may have
  ForeignDirs,     \* numbers directories made elsewhere may have
  ForeignMax,      \* none of these numbers is larger
  Seed,            \* the ProjectId row in place at the start
  SeedValue,       \* its value
  NoRow,           \* no ProjectId row
  FirstRows,       \* what the table may start with: Seed, or NoRow
  Elsewhere,       \* the maker of what this portal did not make
  Serial,          \* calls and commands run one at a time
  RemoteFails      \* Tapis calls and the writing of records may fail

ASSUME SeedAssumption ==
  /\ Seed \notin Creators \cup Commands
  /\ NoRow \notin {Seed} \cup Creators \cup Commands
  /\ SeedValue \in Nat
  /\ FirstRows \subseteq {Seed, NoRow}
ASSUME ActorsAssumption == Elsewhere \notin Creators /\ Creators \cap Commands = {}
ASSUME FlagsAssumption == Serial \in BOOLEAN /\ RemoteFails \in BOOLEAN
ASSUME ForeignAssumption ==
  /\ ForeignMax \in Nat
  /\ ForeignSystems \cup ForeignDirs \subseteq 0..ForeignMax

VARIABLES
  value,    \* ProjectId.value of every row
  newest,   \* the row updated last (NoRow: the table is empty)
  dirs,     \* numbers whose project directory exists
  systems,  \* registered storage systems, as [id, by]
  records,  \* ProjectMetadata rows, as [id, owner]
  admins,   \* ADMIN roles given to creators, as [id, by]
  creator,  \* what a call of create is at
  command   \* what a run of the management command is at

vars == <<value, newest, dirs, systems, records, admins, creator, command>>

(* A row is named for who inserted it. *)
Rows == {Seed} \cup Creators \cup Commands

Ids == Nat

Makers == Creators \cup {Elsewhere}

System == [id : Ids, by : Makers]

SystemIds == {s.id : s \in systems}

Registered(n) == n \in SystemIds

(* max(found, the largest number of S): the scans of models/utils.py start *)
(* from -1 and the caller takes max(..., 0).                               *)
Largest(S, found) ==
  CHOOSE n \in S \cup {found} : \A k \in S \cup {found} : k <= n

Quiet ==
  /\ \A c \in Creators : creator[c].pc \in {"idle", "done", "failed"}
  /\ \A m \in Commands : command[m].pc \in {"idle", "done"}

-----------------------------------------------------------------------------
CreatorPcs ==
  {"idle", "pick", "bump", "seedStorages", "seedDirs", "insert", "resave",
   "mkdir", "lookup", "add", "getRecord", "addRecord", "role",
   "undo", "scanStorages", "scanDirs", "updatePick", "updateWrite",
   "done", "failed"}

(* id: the number in hand; found: what the scans have found; row: the row  *)
(* select_for_update() settled on; tries: calls of Project.create so far;  *)
(* exists: the error being handled is ValueError, "already exists".        *)
Creator == [pc : CreatorPcs, id : Ids, found : Nat, row : Rows \cup {NoRow},
            tries : 0..2, exists : BOOLEAN]

Command == [pc : {"idle", "dirs", "pick", "write", "done"}, found : Nat,
            row : Rows \cup {NoRow}]

Init ==
  /\ value = [r \in Rows |-> IF r = Seed THEN SeedValue ELSE 0]
  /\ newest \in FirstRows
  /\ dirs \in SUBSET ForeignDirs
  /\ systems \in SUBSET [id : ForeignSystems, by : {Elsewhere}]
  /\ records = {}
  /\ admins = {}
  /\ creator = [c \in Creators |-> [pc |-> "idle", id |-> 0, found |-> 0,
                                    row |-> NoRow, tries |-> 0, exists |-> FALSE]]
  /\ command = [m \in Commands |-> [pc |-> "idle", found |-> 0, row |-> NoRow]]

At(c, pc) == creator[c].pc = pc

Goto(c, pc) == creator' = [creator EXCEPT ![c].pc = pc]

(* The call of create raises and the request ends in an error. *)
Fail(c) == Goto(c, "failed")

(* A save() of a ProjectId row: last_updated is auto_now. *)
Save(r, v) == value' = [value EXCEPT ![r] = v] /\ newest' = r

tenant == <<dirs, systems, records, admins>>

-----------------------------------------------------------------------------
(* Handing out a number.                                                   *)

Start(c) ==
  /\ At(c, "idle")
  /\ Serial => Quiet
  /\ Goto(c, "pick")
  /\ UNCHANGED <<value, newest, tenant, command>>

(* next_id: latest('last_updated') settles on a row... *)
Pick(c) ==
  /\ At(c, "pick")
  /\ newest # NoRow
  /\ creator' = [creator EXCEPT ![c].pc = "bump", ![c].row = newest]
  /\ UNCHANGED <<value, newest, tenant, command>>

(* Faulty: next_id without row.save(). *)
BumpUnsaved(c) ==
  LET r == creator[c].row IN
  /\ At(c, "bump")
  /\ creator' = [creator EXCEPT ![c].pc = "mkdir", ![c].id = value[r] + 1,
                                ![c].tries = @ + 1]
  /\ UNCHANGED <<value, newest, tenant, command>>

(* ... and once the row is locked its value goes up by one. *)
Bump(c) ==
  LET r == creator[c].row IN
  /\ At(c, "bump")
  /\ Save(r, value[r] + 1)
  /\ creator' = [creator EXCEPT ![c].pc = "mkdir", ![c].id = value[r] + 1,
                                ![c].tries = @ + 1]
  /\ UNCHANGED <<tenant, command>>

(* ObjectDoesNotExist: no row yet. *)
PickNothing(c) ==
  /\ At(c, "pick")
  /\ newest = NoRow
  /\ Goto(c, "seedStorages")
  /\ UNCHANGED <<value, newest, tenant, command>>

(* Faulty: max(..., 0) left out, and an empty tenant yields -1. *)
ScanStoragesRaw(c) ==
  /\ At(c, "seedStorages") \/ At(c, "scanStorages")
  /\ creator' = [creator EXCEPT
       ![c].pc = IF At(c, "seedStorages") THEN "seedDirs" ELSE "scanDirs",
       ![c].found = Largest(SystemIds, 0 - 1)]
  /\ UNCHANGED <<value, newest, tenant, command>>

(* get_latest_project_storage and get_latest_project_directory, for the    *)
(* first number of all and for the recovery.                               *)
ScanStorages(c) ==
  /\ At(c, "seedStorages") \/ At(c, "scanStorages")
  /\ creator' = [creator EXCEPT
       ![c].pc = IF At(c, "seedStorages") THEN "seedDirs" ELSE "scanDirs",
       ![c].found = Largest(SystemIds, 0)]
  /\ UNCHANGED <<value, newest, tenant, command>>

(* Faulty: the directory scan replaces what the storage scan found. *)
ScanDirsOnly(c) ==
  /\ At(c, "seedDirs") \/ At(c, "scanDirs")
  /\ creator' = [creator EXCEPT
       ![c].pc = IF At(c, "seedDirs") THEN "insert" ELSE "updatePick",
       ![c].found = Largest(dirs, 0)]
  /\ UNCHANGED <<value, newest, tenant, command>>

ScanDirs(c) ==
  /\ At(c, "seedDirs") \/ At(c, "scanDirs")
  /\ creator' = [creator EXCEPT
       ![c].pc = IF At(c, "seedDirs") THEN "insert" ELSE "updatePick",
       ![c].found = Largest(dirs, creator[c].found)]
  /\ UNCHANGED <<value, newest, tenant, command>>

(* ProjectId.objects.create(value=...) commits the row; ... *)
Insert(c) ==
  /\ At(c, "insert")
  /\ Save(c, creator[c].found)
  /\ Goto(c, "resave")
  /\ UNCHANGED <<tenant, command>>

(* ... and .save() writes the same value once more. *)
Resave(c) ==
  /\ At(c, "resave")
  /\ Save(c, creator[c].found)
  /\ Goto(c, "pick")
  /\ UNCHANGED <<tenant, command>>

-----------------------------------------------------------------------------
(* Project.create.                                                         *)

(* Making a directory that exists is not an error for Tapis. *)
Mkdir(c) ==
  /\ At(c, "mkdir")
  /\ dirs' = dirs \cup {creator[c].id}
  /\ Goto(c, "lookup")
  /\ UNCHANGED <<value, newest, systems, records, admins, command>>

(* _create_dir is outside the try: its error ends the call. *)
MkdirFails(c) ==
  /\ RemoteFails
  /\ At(c, "mkdir")
  /\ Fail(c)
  /\ UNCHANGED <<value, newest, tenant, command>>

(* storage.save(): is the system there already? *)
LookUp(c) ==
  /\ At(c, "lookup")
  /\ creator' = [creator EXCEPT
       ![c].pc = IF Registered(creator[c].id) THEN "undo" ELSE "add",
       ![c].exists = Registered(creator[c].id)]
  /\ UNCHANGED <<value, newest, tenant, command>>

(* systems.add: the tenant keeps one system per id. *)
AddSystem(c) ==
  systems' = {s \in systems : s.id # creator[c].id}
               \cup {[id |-> creator[c].id, by |-> c]}

Add(c) ==
  /\ At(c, "add")
  /\ AddSystem(c)
  /\ Goto(c, "getRecord")
  /\ UNCHANGED <<value, newest, dirs, records, admins, command>>

(* Faulty: an error of _create_storage that is logged and not raised. *)
StorageFailsSilently(c) ==
  /\ RemoteFails
  /\ \/ At(c, "lookup") /\ UNCHANGED systems
     \/ At(c, "add") /\ (AddSystem(c) \/ UNCHANGED systems)
  /\ Goto(c, "getRecord")
  /\ UNCHANGED <<value, newest, dirs, records, admins, command>>

(* Any error of _create_storage, the lost answer of an add that took       *)
(* effect included: the directory goes.                                    *)
StorageFails(c) ==
  /\ RemoteFails
  /\ \/ At(c, "lookup") /\ UNCHANGED systems
     \/ At(c, "add") /\ (AddSystem(c) \/ UNCHANGED systems)
  /\ creator' = [creator EXCEPT ![c].pc = "undo", ![c].exists = FALSE]
  /\ UNCHANGED <<value, newest, dirs, records, admins, command>>

(* ProjectMetadata.get_or_create: the row is adopted if there is one... *)
GetRecord(c) ==
  /\ At(c, "getRecord")
  /\ Goto(c, IF \E m \in records : m.id = creator[c].id THEN "role" ELSE "addRecord")
  /\ UNCHANGED <<value, newest, tenant, command>>

(* ... and inserted if not: nothing makes project_id unique. *)
AddRecord(c) ==
  /\ At(c, "addRecord")
  /\ records' = records \cup {[id |-> creator[c].id, owner |-> c]}
  /\ Goto(c, "role")
  /\ UNCHANGED <<value, newest, dirs, systems, admins, command>>

(* The row cannot be read or written, or its indexing cannot be queued,    *)
(* which happens inside get_or_create's transaction: no row is left, and   *)
(* the system just registered stays.                                       *)
RecordFails(c) ==
  /\ RemoteFails
  /\ At(c, "getRecord") \/ At(c, "addRecord")
  /\ creator' = [creator EXCEPT ![c].pc = "undo", ![c].exists = FALSE]
  /\ UNCHANGED <<value, newest, tenant, command>>

(* except Exception: _delete_dir, and the error is raised again: a         *)
(* ValueError of the first try starts the recovery.                        *)
Undo(c) ==
  /\ At(c, "undo")
  /\ dirs' = dirs \ {creator[c].id}
  /\ Goto(c, IF creator[c].exists /\ creator[c].tries = 1
             THEN "scanStorages" ELSE "failed")
  /\ UNCHANGED <<value, newest, systems, records, admins, command>>

(* _delete_dir raises an error of its own, which nobody recovers from. *)
UndoFails(c) ==
  /\ RemoteFails
  /\ At(c, "undo")
  /\ Fail(c)
  /\ UNCHANGED <<value, newest, tenant, command>>

(* prj.storage.update_role(username, 'ADMIN'), and create returns. *)
GiveRole(c) ==
  /\ At(c, "role")
  /\ admins' = admins \cup {[id |-> creator[c].id, by |-> c]}
  /\ Goto(c, "done")
  /\ UNCHANGED <<value, newest, dirs, systems, records, command>>

(* The role, or reading the new system back in Project.__init__, fails:    *)
(* nothing is undone.                                                      *)
RoleFails(c) ==
  /\ RemoteFails
  /\ At(c, "role")
  /\ Fail(c)
  /\ UNCHANGED <<value, newest, tenant, command>>

-----------------------------------------------------------------------------
(* ProjectId.update: a row is locked, or inserted if there is none.        *)

UpdatePick(c) ==
  /\ At(c, "updatePick")
  /\ creator' = [creator EXCEPT ![c].pc = "updateWrite", ![c].row = newest]
  /\ UNCHANGED <<value, newest, tenant, command>>

UpdateWrite(c) ==
  /\ At(c, "updateWrite")
  /\ Save(creator[c].row, creator[c].found)
  /\ Goto(c, "pick")
  /\ UNCHANGED <<tenant, command>>

(* manage.py projects_id --update-using-max-value-found *)
CommandStorages(m) ==
  /\ command[m].pc = "idle"
  /\ Serial => Quiet
  /\ command' = [command EXCEPT ![m].pc = "dirs",
                                ![m].found = Largest(SystemIds, 0)]
  /\ UNCHANGED <<value, newest, tenant, creator>>

(* Faulty: the directory scan replaces what the storage scan found. *)
CommandDirsOnly(m) ==
  /\ command[m].pc = "dirs"
  /\ command' = [command EXCEPT ![m].pc = "pick", ![m].found = Largest(dirs, 0)]
  /\ UNCHANGED <<value, newest, tenant, creator>>

CommandDirs(m) ==
  /\ command[m].pc = "dirs"
  /\ command' = [command EXCEPT ![m].pc = "pick", ![m].found = Largest(dirs, command[m].found)]
  /\ UNCHANGED <<value, newest, tenant, creator>>

CommandPick(m) ==
  /\ command[m].pc = "pick"
  /\ command' = [command EXCEPT ![m].pc = "write", ![m].row = newest]
  /\ UNCHANGED <<value, newest, tenant, creator>>

CommandWrite(m) ==
  LET r == IF command[m].row = NoRow THEN m ELSE command[m].row IN
  /\ command[m].pc = "write"
  /\ Save(r, command[m].found)
  /\ command' = [command EXCEPT ![m].pc = "done"]
  /\ UNCHANGED <<tenant, creator>>

-----------------------------------------------------------------------------
Create(c) ==
  \/ Start(c) \/ Pick(c) \/ PickNothing(c) \/ Bump(c)
  \/ ScanStorages(c) \/ ScanDirs(c) \/ Insert(c) \/ Resave(c)
  \/ Mkdir(c) \/ MkdirFails(c) \/ LookUp(c) \/ Add(c) \/ StorageFails(c)
  \/ GetRecord(c) \/ AddRecord(c) \/ RecordFails(c) \/ Undo(c) \/ UndoFails(c)
  \/ GiveRole(c) \/ RoleFails(c) \/ UpdatePick(c) \/ UpdateWrite(c)

RunCommand(m) ==
  CommandStorages(m) \/ CommandDirs(m) \/ CommandPick(m) \/ CommandWrite(m)

Next == (\E c \in Creators : Create(c)) \/ (\E m \in Commands : RunCommand(m))

Spec == Init /\ [][Next]_vars
-----------------------------------------------------------------------------
(* Properties.                                                             *)

Answered == {[id |-> creator[c].id, by |-> c] : c \in {d \in Creators : At(d, "done")}}

Registry == INSTANCE ProjectRegistry
              WITH Others <- {Elsewhere}, answered <- Answered

(* The state of every call, row and record is of its type. *)
TypeOK ==
  /\ value \in [Rows -> Nat]
  /\ newest \in Rows \cup {NoRow}
  /\ dirs \subseteq Ids
  /\ systems \subseteq System
  /\ records \subseteq [id : Ids, owner : Creators]
  /\ admins \subseteq [id : Ids, by : Creators]
  /\ creator \in [Creators -> Creator]
  /\ command \in [Commands -> Command]

Holds(c) == creator[c].pc \in
  {"mkdir", "lookup", "add", "getRecord", "addRecord", "role", "undo", "done"}

(* No two calls of create work with, or have made, the same number,        *)
(* however their transactions, scans and retries interleave.               *)
DistinctIds ==
  \A c, d \in Creators :
    c # d /\ Holds(c) /\ Holds(d) => creator[c].id # creator[d].id

(* A project that create returned is complete and its creator's alone: its *)
(* directory, its storage system with the creator as maker and ADMIN, and  *)
(* one metadata record that names the creator as owner; no other call has  *)
(* since taken any of it away or taken it over.                            *)
CreatedIsWhole ==
  \A c \in Creators :
    LET n == creator[c].id IN
    At(c, "done") =>
      /\ n \in dirs
      /\ {s \in systems : s.id = n} = {[id |-> n, by |-> c]}
      /\ {m \in records : m.id = n} = {[id |-> n, owner |-> c]}
      /\ {a \in admins : a.id = n} = {[id |-> n, by |-> c]}

(* The recovery recovers: the number it settles on is not in use, so the   *)
(* second Project.create never finds the system registered.                *)
RecoverySettles ==
  \A c \in Creators : ~(At(c, "undo") /\ creator[c].exists /\ creator[c].tries = 2)

(* The management command leaves a counter that is safe: the next number   *)
(* handed out is in no call's hands and names no directory or system.      *)
CommandIsSafe ==
  [][\A m \in Commands : CommandWrite(m) =>
       /\ \A c \in Creators : Holds(c) => creator[c].id <= value'[newest']
       /\ \A n \in dirs \cup SystemIds : n <= value'[newest']]_vars

(* The tenant as seen from outside behaves as ProjectRegistry says.        *)
RegistryKept == Registry!Spec
=============================================================================
