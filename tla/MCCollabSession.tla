---------------------------- MODULE MCCollabSession ----------------------------
(* CollabSession with two connections of one actor, whose ticket may be of *)
(* either of two authorization versions, and two client ids: enough for    *)
(* every order of two messages and for a connection that claims a second   *)
(* id or the other's.                                                      *)
EXTENDS CollabSession
=============================================================================
