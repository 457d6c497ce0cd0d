------------------------------ MODULE MessageLog ------------------------------
(***************************************************************************)
(* What a room promises its members: one ordered log that only grows at    *)
(* its end, that takes every mutation of an author once, and that takes    *)
(* nothing while the room is closed.                                       *)
(***************************************************************************)
EXTENDS Naturals, Sequences

CONSTANTS
  Actors,      \* who writes
  Mutations    \* client mutation ids

VARIABLES
  log,         \* the messages in order: <<author, mutation>>
  open         \* the room takes messages

Stored(a, k) == \E i \in DOMAIN log : log[i] = <<a, k>>

Init == log = <<>> /\ open \in BOOLEAN

Store(a, k) ==
  /\ open
  /\ ~Stored(a, k)
  /\ log' = Append(log, <<a, k>>)
  /\ UNCHANGED open

Turn == open' = ~open /\ UNCHANGED log

Next == Turn \/ \E a \in Actors, k \in Mutations : Store(a, k)

Spec == Init /\ [][Next]_<<log, open>>
=============================================================================
