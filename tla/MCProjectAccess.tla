--------------------------- MODULE MCProjectAccess ---------------------------
(* ProjectAccess with interchangeable rows and requests. *)
EXTENDS ProjectAccess, TLC

Symmetry == Permutations(Requests) \union Permutations(Rooms)
=============================================================================
