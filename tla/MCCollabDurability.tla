-------------------------- MODULE MCCollabDurability --------------------------
(* CollabDurability with symmetric documents.                              *)
EXTENDS CollabDurability, TLC

Symmetry == Permutations(Docs)
=============================================================================
