------------------------- MODULE MCProjectCreation -------------------------
(* Instances of ProjectCreation for TLC. *)
EXTENDS ProjectCreation, TLC

Symmetry == Permutations(Creators)
=============================================================================
