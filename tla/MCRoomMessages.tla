---------------------------- MODULE MCRoomMessages ----------------------------
(* Small instances of RoomMessages for TLC. *)
EXTENDS RoomMessages, TLC

CONSTANTS a1, a2, k1, k2

\* Two messages of one author, and one of another under a mutation id of the first.
ThreeSends == {<<a1, k1>>, <<a1, k2>>, <<a2, k1>>}

Symmetry == Permutations(Requests)
=============================================================================
