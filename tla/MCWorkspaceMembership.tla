------------------------ MODULE MCWorkspaceMembership ------------------------
(* Small instances of WorkspaceMembership for TLC. *)
EXTENDS WorkspaceMembership, TLC

Symmetry == Permutations(Members) \union Permutations(Requests)
=============================================================================
