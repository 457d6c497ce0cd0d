---------------------------- MODULE OneTimeToken ----------------------------
(***************************************************************************)
(* What an invitation link promises: it is issued to one addressee, it is  *)
(* used at most once and only by its addressee, and a link that was taken   *)
(* back or used stays so.  How requests, row locks and retries bring this   *)
(* about is left to the modules that implement it.                          *)
(***************************************************************************)
CONSTANTS
  Tokens,         \* links that can be sent
  People,         \* accounts, told apart by their email address
  Nobody          \* no account

VARIABLES
  addressee,      \* who a link was sent to
  usedBy,         \* who used it
  withdrawn       \* the links taken back

vars == <<addressee, usedBy, withdrawn>>

Init ==
  /\ addressee = [t \in Tokens |-> Nobody]
  /\ usedBy = [t \in Tokens |-> Nobody]
  /\ withdrawn = {}

\* Sending a link may take back older ones.
Issue(t, p, old) ==
  /\ addressee[t] = Nobody
  /\ \A o \in old : usedBy[o] = Nobody
  /\ addressee' = [addressee EXCEPT ![t] = p]
  /\ withdrawn' = withdrawn \union old
  /\ UNCHANGED usedBy

Use(t, p) ==
  /\ addressee[t] = p /\ usedBy[t] = Nobody /\ t \notin withdrawn
  /\ usedBy' = [usedBy EXCEPT ![t] = p]
  /\ UNCHANGED <<addressee, withdrawn>>

Next ==
  \E t \in Tokens, p \in People :
    Use(t, p) \/ \E old \in SUBSET (Tokens \ {t}) : Issue(t, p, old)

Spec == Init /\ [][Next]_vars
=============================================================================
