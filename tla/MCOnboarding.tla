---------------------------- MODULE MCOnboarding ----------------------------
(* Instances of Onboarding for TLC. *)
EXTENDS Onboarding, TLC

FourKinds == <<"membership", "access", "allocation", "system_access">>
TwoKinds == <<"system_access", "mfa">>

Symmetry == Permutations(Workers) \cup Permutations(Logins) \cup Permutations(Clicks)
=============================================================================
