------------------------------ MODULE Ownership ------------------------------
(***************************************************************************)
(* What the membership service promises about owners of one workspace,     *)
(* with none of its transactions: the set of owners is never empty, and it *)
(* changes by one promotion, one demotion that leaves somebody behind, or  *)
(* one hand-over at a time.                                                *)
(***************************************************************************)
CONSTANT Members

VARIABLE owners

Init == owners \in (SUBSET Members) \ {{}}

Promote(m) == owners' = owners \union {m}

\* The last owner cannot step down.
Demote(m) ==
  /\ owners \ {m} # {}
  /\ owners' = owners \ {m}

\* The giver need not be an owner any more when the hand-over commits.
HandOver(giver, taker) ==
  /\ giver # taker
  /\ owners' = (owners \ {giver}) \union {taker}

Next ==
  \/ \E m \in Members : Promote(m) \/ Demote(m)
  \/ \E giver, taker \in Members : HandOver(giver, taker)

Spec == Init /\ [][Next]_owners
=============================================================================
