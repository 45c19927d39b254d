-------------------------- MODULE MCProjectMembers --------------------------
(* Instances of ProjectMembers for TLC. *)
EXTENDS ProjectMembers, TLC

(* Requests differ by what is asked in them only, and so do co-PIs. *)
Symmetry == Permutations(Requests) \cup Permutations(CoPis)
=============================================================================
