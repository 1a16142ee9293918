---------------------------- MODULE MCOnboarding ----------------------------
(* Small instances of Onboarding for TLC.                                  *)
EXTENDS Onboarding, TLC

Symmetric == Permutations(Workers) \cup Permutations(Clients)
=============================================================================
