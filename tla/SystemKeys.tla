------------------------------ MODULE SystemKeys ------------------------------
(***************************************************************************)
(* The key pairs with which Tapis logs in to the hosts for a user.  A pair *)
(* lives in four places that no transaction spans: the definition of the   *)
(* system in Tapis, the portal's row for the system and its row for the    *)
(* host, and the authorized_keys of the account on the host.  Systems that *)
(* share a host share that row.                                            *)
(*                                                                         *)
(* A pair is the number of its making, 0 stands for none.  Every call to   *)
(* Tapis, to a host or to the database is a step, and may be the last of   *)
(* its request.                                                            *)
(***************************************************************************)
EXTENDS Naturals, Sequences

CONSTANTS
    Systems,      \* the systems of one user
    StorageHost,  \* the host of each system's files
    LoginHost,    \* the host each execution system logs in to
    Callers,      \* bound: requests and tasks at a time
    MaxKeys       \* bound: key pairs made

VARIABLES store, calls, ui, alive

vars == <<store, calls, ui, alive>>

Execution == DOMAIN LoginHost
HostsOf(s) == {StorageHost[s]} \cup (IF s \in Execution THEN {LoginHost[s]} ELSE {})
Hosts == UNION {HostsOf(s) : s \in Systems}
Related(s, t) == HostsOf(s) \cap HostsOf(t) # {}

KeysAssumption == MaxKeys \in Nat /\ Execution \subseteq Systems

\* The window pushes to the first host of a system; the saga takes no second.
PushHost(s) == IF s \in Execution THEN LoginHost[s] ELSE StorageHost[s]

\* The steps of a request: its place, and what it has still to do.
Idle == [todo |-> <<>>]
Op(kind, s, k, login, todo) ==
    [todo |-> todo, kind |-> kind, s |-> s, key |-> k, login |-> login, alone |-> TRUE]

At(c, step) == calls[c].todo # <<>> /\ Head(calls[c].todo) = step

Open == {c \in Callers : calls[c] # Idle}

\* A request about a system is no longer alone when another one of the system,
\* or of a host of it, is open at the same time.
Begin(c, op) ==
    LET near == {d \in Open : Related(calls[d].s, op.s)} IN
    /\ calls[c] = Idle
    /\ calls' = [d \in Callers |->
          IF d = c THEN [op EXCEPT !.alone = near = {}]
          ELSE IF d \in near THEN [calls[d] EXCEPT !.alone = FALSE] ELSE calls[d]]
    /\ ui' = [ui EXCEPT !.kept = @ \ {op.s}, !.pushed = @ \ {op.s}]
    /\ UNCHANGED alive

Finish(c) == calls' = [calls EXCEPT ![c] = Idle]

\* After its last step, Tapis and the row of the system are to agree.
Proceed(c) ==
    LET op == calls[c] IN
    /\ IF Len(op.todo) > 1
       THEN calls' = [calls EXCEPT ![c].todo = Tail(@)] /\ UNCHANGED ui
       ELSE /\ Finish(c)
            /\ ui' = [ui EXCEPT !.kept =
                  IF op.alone /\ op.kind # "clone" THEN @ \cup {op.s} ELSE @]
    /\ UNCHANGED alive

FreshKey == store.made + 1

\* A system gets a new pair, for itself or to be pushed to its host.  Tapis has
\* it first if the system is for storage, otherwise after two of the rows.
reset_system_keys == \E c \in Callers, s \in Systems, kind \in {"reset", "push"} :
    /\ store.status[s] # "absent"
    /\ store.made < MaxKeys
    /\ store' = [store EXCEPT !.made = FreshKey]
    /\ Begin(c, Op(kind, s, FreshKey, FreshKey,
          (IF s \in Execution THEN <<"row", "storageHost", "tapis", "loginHost">>
                              ELSE <<"tapis", "row", "storageHost">>)
          \o (IF kind = "push" THEN <<"read", "add">> ELSE <<>>)))

\* The whole definition of the system goes to Tapis.
set_keys == \E c \in Callers :
    LET op == calls[c] IN
    /\ At(c, "tapis")
    /\ store' = [store EXCEPT !.status[op.s] = IF @ = "absent" THEN "available" ELSE @,
                              !.tapis[op.s] = [storage |-> op.key, login |-> op.login]]
    /\ Proceed(c)

update_keys == \E c \in Callers :
    /\ At(c, "row")
    /\ store' = [store EXCEPT !.row[calls[c].s] = calls[c].key]
    /\ Proceed(c)

(* Faulty: the pair of the host is kept. *)
HostRowKept(h, k) == [store.host EXCEPT ![h] = IF @ = 0 THEN k ELSE @]
HostRow(h, k) == [store.host EXCEPT ![h] = k]

update_hostname_keys == \E c \in Callers :
    LET op == calls[c] IN
    /\ \/ At(c, "storageHost")
          /\ store' = [store EXCEPT !.host = HostRow(StorageHost[op.s], op.key)]
       \/ At(c, "loginHost")
          /\ store' = [store EXCEPT !.host = HostRow(LoginHost[op.s], op.key)]
    /\ Proceed(c)

----------------------------------------------------------------------------
(* The push to the host.                                                   *)

\* Logged in, the request reads the pair of the host,
for_hostname == \E c \in Callers :
    LET op == calls[c]
        h == PushHost(op.s) IN
    /\ At(c, "read")
    /\ store.host[h] # 0 \/ store.row[op.s] # 0
    /\ calls' = [calls EXCEPT ![c].todo = Tail(@),
          ![c].key = IF store.host[h] # 0 THEN store.host[h] ELSE store.row[op.s]]
    /\ UNCHANGED <<store, ui, alive>>

\* and adds its public half to those the host accepts.
add_public_key == \E c \in Callers :
    LET op == calls[c] IN
    /\ At(c, "add")
    /\ store' = [store EXCEPT !.authorized[PushHost(op.s)] = @ \cup {op.key}]
    /\ ui' = IF op.alone
             THEN [ui EXCEPT !.pushed = @ \cup {op.s}, !.kept = @ \cup {op.s}] ELSE ui
    /\ Finish(c)
    /\ UNCHANGED alive

\* Without an exit status nothing may have been added, and all is well too.
NoResponse == \E c \in Callers :
    /\ At(c, "add")
    /\ Finish(c)
    /\ UNCHANGED <<store, ui, alive>>

----------------------------------------------------------------------------
(* Systems the portal makes, or makes available again.                     *)

\* The storage system of a user is made with the pair of its host, if any.
validate_storage_system == \E c \in Callers, s \in Systems \ Execution :
    LET known == store.host[StorageHost[s]] # 0
        k == IF known THEN store.host[StorageHost[s]] ELSE FreshKey IN
    /\ store.status[s] # "available"
    /\ known \/ store.made < MaxKeys
    /\ store' = IF known THEN store ELSE [store EXCEPT !.made = FreshKey]
    /\ Begin(c, Op("setup", s, k, k, <<"enable", "tapis", "storageHost", "row">>))

enable == \E c \in Callers :
    LET s == calls[c].s IN
    /\ At(c, "enable")
    /\ store' = [store EXCEPT !.status[s] = IF @ = "disabled" THEN "available" ELSE @]
    /\ Proceed(c)

\* An execution system is cloned, or enabled, with the pairs of its hosts.
validate_exec_system == \E c \in Callers, s \in Execution :
    /\ store.status[s] # "available"
    /\ store' = [store EXCEPT !.status[s] = "available"]
    /\ Begin(c, Op("clone", s, store.host[StorageHost[s]], store.host[LoginHost[s]],
                   <<"tapis">>))

\* Tapis or staff takes a system out of service.
disable == \E s \in Systems :
    /\ store.status[s] = "available"
    /\ store' = [store EXCEPT !.status[s] = "disabled"]
    /\ UNCHANGED <<calls, ui, alive>>

\* A call fails, the password is wrong, the worker is restarted.
fail == \E c \in Open : Finish(c) /\ UNCHANGED <<store, ui, alive>>

----------------------------------------------------------------------------
None == [storage |-> 0, login |-> 0]

Init ==
    /\ store = [tapis |-> [s \in Systems |-> None], status |-> [s \in Systems |-> "absent"],
                row |-> [s \in Systems |-> 0], host |-> [h \in Hosts |-> 0],
                authorized |-> [h \in Hosts |-> {}], made |-> 0]
    /\ calls = [c \in Callers |-> Idle]
    /\ ui = [kept |-> {}, pushed |-> {}]
    /\ alive = TRUE

Next ==
    \/ reset_system_keys \/ set_keys \/ update_keys \/ update_hostname_keys
    \/ for_hostname \/ add_public_key \/ NoResponse
    \/ validate_storage_system \/ enable \/ validate_exec_system \/ disable
    \/ fail

Spec == Init /\ [][Next]_vars

----------------------------------------------------------------------------
(* Properties.                                                             *)

Pairs == 0..MaxKeys

\* No place holds a pair that was not made, and no host accepts none.
TypeOK ==
    /\ store \in [tapis : [Systems -> [storage : Pairs, login : Pairs]],
                  status : [Systems -> {"absent", "disabled", "available"}],
                  row : [Systems -> Pairs], host : [Hosts -> Pairs],
                  authorized : [Hosts -> SUBSET (1..MaxKeys)], made : Pairs]
    /\ \A c \in Open : calls[c].key <= store.made
    /\ \A s \in Systems : store.row[s] <= store.made
    /\ ui \in [kept : SUBSET Systems, pushed : SUBSET Systems]

\* Once a request about a system has ended well, and none about the system or
\* a host of it was open meanwhile, Tapis and the row of the system hold the
\* same pair; and once its key was pushed, the host accepts the pair with
\* which Tapis logs in there.  Both hold until the system is next changed,
\* whatever becomes of the systems that share its host.
KeysAgree ==
    /\ \A s \in ui.kept : store.row[s] = store.tapis[s].storage
    /\ \A s \in ui.pushed :
          (IF s \in Execution THEN store.tapis[s].login ELSE store.tapis[s].storage)
              \in store.authorized[PushHost(s)]
=============================================================================
