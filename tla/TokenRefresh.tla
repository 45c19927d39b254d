----------------------------- MODULE TokenRefresh -----------------------------
(***************************************************************************)
(* The Tapis token of a user.  The middleware renews an expired one before *)
(* every request, with the row of the token locked; the clients that tasks *)
(* and the JWT login make renew it without the lock, and a login replaces  *)
(* it.  The service renews a token only for the last refresh token it gave *)
(* out, so an answer that is not kept, or is kept over a later one, leaves *)
(* the portal with a token that cannot be renewed.                         *)
(*                                                                         *)
(* A token is the number of its issue.                                     *)
(***************************************************************************)
EXTENDS Naturals

CONSTANTS
    Renewers,  \* bound: requests, tasks and logins at a time
    MaxTokens  \* bound: tokens issued

VARIABLES store, calls, ui, alive

vars == <<store, calls, ui, alive>>

TokenAssumption == MaxTokens \in Nat

Free == [at |-> "idle"]
At(where, kind, n) == [at |-> where, kind |-> kind, token |-> n]

Open == {c \in Renewers : calls[c] # Free}

\* The row is locked by the request that renews its token.
Locked == \E d \in Open : calls[d].kind = "request"

\* A token got without the lock is not in the row yet.
Pending == \E d \in Open : calls[d].at = "save" /\ calls[d].kind # "request"

\* To get one now crosses such a token, or a request about to renew.
Crossing == Pending \/ \E d \in Open : calls[d].at = "refresh" /\ calls[d].kind = "request"

\* The hours pass.
expire ==
    /\ ~store.expired
    /\ store' = [store EXCEPT !.expired = TRUE]
    /\ UNCHANGED <<calls, ui, alive>>

(* Faulty: the row is read without its lock. *)
select_for_updateUnlocked == TRUE
select_for_update == ~Locked

\* A request waits for the row, and goes on if the token is good for a while.
AgaveTokenRefreshMiddleware == \E c \in Renewers :
    /\ calls[c] = Free
    /\ store.expired
    /\ select_for_update
    /\ calls' = [calls EXCEPT ![c] = At("refresh", "request", store.row)]
    /\ ui' = [ui EXCEPT !.crossed = @ \/ Pending, !.refused = FALSE]
    /\ UNCHANGED <<store, alive>>

\* A task takes the row as it is, to renew the token when the service finds it
\* expired; so does a JWT login.
client == \E c \in Renewers :
    /\ calls[c] = Free
    /\ calls' = [calls EXCEPT ![c] = At("refresh", "task", store.row)]
    /\ UNCHANGED <<store, ui, alive>>

\* The service renews the last token it gave out,
refresh == \E c \in Renewers :
    LET k == calls[c] IN
    /\ k.at = "refresh"
    /\ k.token = store.last
    /\ store.last < MaxTokens
    /\ k.kind = "task" => store.expired
    /\ store' = [store EXCEPT !.last = @ + 1]
    /\ calls' = [calls EXCEPT ![c] = At("save", k.kind, store.last + 1)]
    /\ ui' = [ui EXCEPT !.crossed = @ \/ (k.kind = "task" /\ Crossing)]
    /\ UNCHANGED alive

\* and no other: the user is logged out, or the task fails.
refused == \E c \in Renewers :
    LET k == calls[c] IN
    /\ k.at = "refresh"
    /\ k.token # store.last
    /\ calls' = [calls EXCEPT ![c] = Free]
    /\ ui' = [ui EXCEPT !.refused = @ \/ k.kind = "request"]
    /\ UNCHANGED <<store, alive>>

\* The user comes back from the service with a code, which is worth a token.
agave_oauth_callback == \E c \in Renewers :
    /\ calls[c] = Free
    /\ store.last < MaxTokens
    /\ store' = [store EXCEPT !.last = @ + 1]
    /\ calls' = [calls EXCEPT ![c] = At("save", "login", store.last + 1)]
    /\ ui' = [ui EXCEPT !.crossed = Crossing, !.refused = FALSE]
    /\ UNCHANGED alive

\* The row is written whole; whoever does not hold its lock waits for it.
update == \E c \in Renewers :
    LET k == calls[c] IN
    /\ k.at = "save"
    /\ k.kind = "request" \/ ~Locked
    /\ store' = [store EXCEPT !.row = k.token, !.expired = FALSE]
    /\ calls' = [calls EXCEPT ![c] = Free]
    /\ UNCHANGED <<ui, alive>>

\* The answer or the worker is lost, after the service has renewed the token
lost == \E c \in Open :
    /\ calls[c].at = "save"
    /\ calls' = [calls EXCEPT ![c] = Free]
    /\ ui' = [ui EXCEPT !.crossed = TRUE]
    /\ UNCHANGED <<store, alive>>

\* or before: nothing was changed then, though the user may be logged out.
unreached == \E c \in Open :
    /\ calls[c].at = "refresh"
    /\ calls' = [calls EXCEPT ![c] = Free]
    /\ UNCHANGED <<store, ui, alive>>

----------------------------------------------------------------------------
Init ==
    /\ store = [row |-> 0, last |-> 0, expired |-> FALSE]
    /\ calls = [c \in Renewers |-> Free]
    /\ ui = [crossed |-> FALSE, refused |-> FALSE]
    /\ alive = TRUE

Next ==
    \/ expire
    \/ AgaveTokenRefreshMiddleware \/ client \/ refresh \/ refused
    \/ agave_oauth_callback \/ update \/ lost \/ unreached

Spec == Init /\ [][Next]_vars

----------------------------------------------------------------------------
(* Properties.                                                             *)

\* No token is kept or carried that was never issued.
TypeOK ==
    /\ store \in [row : 0..MaxTokens, last : 0..MaxTokens, expired : BOOLEAN]
    /\ store.row <= store.last
    /\ \A c \in Open : calls[c].token <= store.last
    /\ ui \in [crossed : BOOLEAN, refused : BOOLEAN]

\* Since the last login that ran alone, unless an answer was lost or a renewal
\* without the lock crossed another one: the portal can renew the token it
\* has, and no request was refused.
TokenIsLast ==
    ~ui.crossed => ~ui.refused /\ (Open = {} => store.row = store.last)
=============================================================================
