-------------------------- MODULE ProjectRegistry --------------------------
(***************************************************************************)
(* What creating a project promises, seen from the Tapis tenant: which     *)
(* project directories exist, which storage systems are registered and by  *)
(* whom, and which creations have answered with a project.                 *)
(*                                                                         *)
(* A storage system, once registered, keeps its maker; a directory goes    *)
(* away only if nobody else's project lives in it; and a creation answers  *)
(* with a project only if that project is its own and is there.            *)
(***************************************************************************)
EXTENDS Naturals

CONSTANTS
  Creators,  \* calls of ProjectsManager.create
  Others     \* makers of systems that were there before

VARIABLES
  dirs,     \* numbers whose project directory exists
  systems,  \* registered storage systems, as [id, by]
  answered  \* the creations that returned a project, as [id, by]

vars == <<dirs, systems, answered>>

System == [id : Nat, by : Creators \cup Others]

Registered(n) == \E s \in systems : s.id = n

Init ==
  /\ dirs \subseteq Nat
  /\ systems \subseteq [id : Nat, by : Others]
  /\ answered = {}

(* A directory is made, or found in place. *)
MakeDir(n) == dirs' = dirs \cup {n} /\ UNCHANGED <<systems, answered>>

(* A storage system is registered under a number nobody had. *)
Register(c, n) ==
  /\ ~Registered(n)
  /\ systems' = systems \cup {[id |-> n, by |-> c]}
  /\ UNCHANGED <<dirs, answered>>

(* A creation that failed takes its directory away: never the directory of *)
(* a project that somebody else registered.                                *)
Abandon(c, n) ==
  /\ \A s \in systems : s.id = n => s.by = c
  /\ \A a \in answered : a.id # n
  /\ dirs' = dirs \ {n}
  /\ UNCHANGED <<systems, answered>>

(* A creation answers with the project it registered, directory in place. *)
Answer(c, n) ==
  /\ [id |-> n, by |-> c] \in systems
  /\ n \in dirs
  /\ answered' = answered \cup {[id |-> n, by |-> c]}
  /\ UNCHANGED <<dirs, systems>>

(* The numbers a step can be about. *)
InPlay == dirs \cup dirs' \cup {s.id : s \in systems'}

Next == \E n \in InPlay :
  \/ MakeDir(n)
  \/ \E c \in Creators : Register(c, n) \/ Abandon(c, n) \/ Answer(c, n)

Spec == Init /\ [][Next]_vars
=============================================================================
