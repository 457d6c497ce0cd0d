---------------------------- MODULE MCOnboarding ----------------------------
(* Small instances of Onboarding for TLC. *)
EXTENDS Onboarding, TLC

Symmetry ==
  Permutations(Invitations) \union Permutations(Requests)
  \union Permutations(People \ {Founder})
=============================================================================
