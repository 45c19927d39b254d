---------------------------- MODULE MCKeyService ----------------------------
(* Instances of KeyService for TLC. *)
EXTENDS KeyService, TLC

Symmetry == Permutations(Systems) \cup Permutations(Workers)
              \cup Permutations(Hooks) \cup Permutations(Clicks)
=============================================================================
