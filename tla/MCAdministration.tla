-------------------------- MODULE MCAdministration --------------------------
(* Administration with interchangeable rows, people and requests. *)
EXTENDS Administration, TLC

Symmetry == Permutations(Requests) \union Permutations(Links) \union Permutations(Catalogue)
  \union Permutations(RoleIds \ BuiltIns)
=============================================================================
