----------------------------- MODULE MCJobFeed -----------------------------
(* Instances of JobFeed for TLC. *)
EXTENDS JobFeed, TLC

ShortLife == <<"RUNNING", "ARCHIVING", "FINISHED">>

(* Posts are alike. *)
Symmetry == Permutations(Hooks) \cup Permutations(Visits)
=============================================================================
