---------------------------- MODULE DatabaseCache ----------------------------
(***************************************************************************)
(* The answers the dashboards are drawn from are kept in one cache on disk *)
(* that every worker of the portal shares: per function the answer, and    *)
(* per database file the time the file had when answers were last thrown   *)
(* away.  The functions of two files share the cache, and it is emptied as *)
(* a whole.                                                                *)
(*                                                                         *)
(* The time of a file is the number of its changes, and an answer is the   *)
(* time of what it was read from.  Every access to the cache is a step, as *)
(* is a request that fails or is lost with its worker.                     *)
(***************************************************************************)
EXTENDS Naturals

CONSTANTS
    Functions, Databases,  \* the cached functions, and the files they read
    FileOf,                \* the file of each function
    Requests,              \* bound: requests open at a time
    MaxChanges             \* bound: the changes of each file

VARIABLES store, calls, ui, alive

vars == <<store, calls, ui, alive>>

CacheAssumption ==
    /\ FileOf \in [Functions -> Databases]
    /\ MaxChanges \in Nat

Missing == MaxChanges + 1

EmptyMemo == [f \in Functions |-> Missing]
EmptyStamp == [d \in Databases |-> Missing]

Idle == [at |-> "idle"]
At(p, f, t) == [at |-> p, f |-> f, time |-> t]

\* The file is replaced by a newer one.
update == \E d \in Databases :
    /\ store.file[d] < MaxChanges
    /\ store' = [store EXCEPT !.file[d] = @ + 1]
    /\ UNCHANGED <<calls, ui, alive>>

\* A request looks at the time of its file,
getmtime == \E r \in Requests, f \in Functions :
    /\ calls[r] = Idle
    /\ calls' = [calls EXCEPT ![r] = At("stamp", f, store.file[FileOf[f]])]
    /\ UNCHANGED <<store, ui, alive>>

\* and compares it to the one in the cache.
check_db_timestamp_and_cache_validity == \E r \in Requests :
    LET c == calls[r] IN
    /\ c.at = "stamp"
    /\ calls' = [calls EXCEPT ![r] =
          At(IF store.stamp[FileOf[c.f]] = c.time THEN "memo" ELSE "clear", c.f, c.time)]
    /\ UNCHANGED <<store, ui, alive>>

\* When they differ the cache is emptied, of the other file's answers too,
(* Faulty: the answers stay. *)
ClearedStamps(st) == [st EXCEPT !.stamp = EmptyStamp]
Cleared(st) == [st EXCEPT !.stamp = EmptyStamp, !.memo = EmptyMemo]

clear == \E r \in Requests :
    LET c == calls[r] IN
    /\ c.at = "clear"
    /\ store' = Cleared(store)
    /\ calls' = [calls EXCEPT ![r] = At("set", c.f, c.time)]
    /\ ui' = [ui EXCEPT !.late = {}]
    /\ UNCHANGED alive

\* and the time the request saw is put into it.
set == \E r \in Requests :
    LET c == calls[r] IN
    /\ c.at = "set"
    /\ store' = [store EXCEPT !.stamp[FileOf[c.f]] = c.time]
    /\ calls' = [calls EXCEPT ![r] = At("memo", c.f, c.time)]
    /\ UNCHANGED <<ui, alive>>

\* An answer in the cache is the answer; without one the file is queried.
hit == \E r \in Requests :
    /\ calls[r].at = "memo"
    /\ store.memo[calls[r].f] # Missing
    /\ calls' = [calls EXCEPT ![r] = Idle]
    /\ UNCHANGED <<store, ui, alive>>

query == \E r \in Requests :
    LET c == calls[r] IN
    /\ c.at = "memo"
    /\ store.memo[c.f] = Missing
    /\ calls' = [calls EXCEPT ![r] = At("memoize", c.f, store.file[FileOf[c.f]])]
    /\ UNCHANGED <<store, ui, alive>>

\* The answer is kept, late if the file is newer by now than what was read.
memoize == \E r \in Requests :
    LET c == calls[r] IN
    /\ c.at = "memoize"
    /\ store' = [store EXCEPT !.memo[c.f] = c.time]
    /\ ui' = [ui EXCEPT !.late =
                IF c.time < store.file[FileOf[c.f]] THEN @ \cup {c.f} ELSE @ \ {c.f}]
    /\ calls' = [calls EXCEPT ![r] = Idle]
    /\ UNCHANGED alive

\* The file is missing or locked, or the worker is restarted.
lost == \E r \in Requests :
    /\ calls[r] # Idle
    /\ calls' = [calls EXCEPT ![r] = Idle]
    /\ UNCHANGED <<store, ui, alive>>

----------------------------------------------------------------------------
Init ==
    /\ store = [file |-> [d \in Databases |-> 0], stamp |-> EmptyStamp,
                memo |-> EmptyMemo]
    /\ calls = [r \in Requests |-> Idle]
    /\ ui = [late |-> {}]
    /\ alive = TRUE

Next ==
    \/ update \/ getmtime \/ check_db_timestamp_and_cache_validity
    \/ clear \/ set \/ hit \/ query \/ memoize \/ lost

Spec == Init /\ [][Next]_vars

----------------------------------------------------------------------------
(* Properties.                                                             *)

Times == 0..MaxChanges
Phases == {"stamp", "clear", "set", "memo", "memoize"}

\* No request and no entry of the cache is of a time the file never had.
TypeOK ==
    /\ store \in [file : [Databases -> Times],
                  stamp : [Databases -> 0..Missing],
                  memo : [Functions -> 0..Missing]]
    /\ calls \in [Requests -> {Idle} \cup [at : Phases, f : Functions, time : Times]]
    /\ ui \in [late : SUBSET Functions]
    /\ \A r \in Requests : calls[r] # Idle => calls[r].time <= store.file[FileOf[calls[r].f]]

\* The answer a request is about to take from the cache was read from the
\* file as it was when the request came, or from a newer one, unless another
\* request put it there late.
AnswerIsCurrent == \A r \in Requests :
    LET c == calls[r] IN
    (c.at = "memo" /\ store.memo[c.f] # Missing /\ c.f \notin ui.late)
        => c.time <= store.memo[c.f]
=============================================================================
