--------------------------- MODULE MCMessageComposer ---------------------------
(* Small instances of MessageComposer for TLC. *)
EXTENDS MessageComposer, TLC

\* The first member writes and sends twice, others once; the first turns its page.
Once == [a \in Actors |-> 1]
Twice == [a \in Actors |-> IF a = "first" THEN 2 ELSE 1]
OnlyTheFirst == [a \in Actors |-> IF a = "first" THEN 2 ELSE 0]
None == [a \in Actors |-> 0]
=============================================================================
