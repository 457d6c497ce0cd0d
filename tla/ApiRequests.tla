----------------------------- MODULE ApiRequests -----------------------------
(***************************************************************************)
(* What the administration modules share: the requests the API works on at *)
(* once, and the bounds on how many there are and what they ask for.  Each  *)
(* of these modules keeps the arguments and the progress of its own          *)
(* requests; the services write different rows, so a behaviour of the        *)
(* whole is an interleaving of behaviours of its operation groups.           *)
(***************************************************************************)
EXTENDS Naturals, FiniteSets, Sequences

CONSTANTS
  Requests,       \* API requests in flight
  Nobody,         \* no account, no link
  OpGroups,       \* bound: one behaviour asks for the operations of one of these sets
  MaxRequests     \* bound: requests in one behaviour

ASSUME RequestsAssumption ==
  /\ Nobody \notin Requests
  /\ MaxRequests \in Nat

VARIABLES
  ops,            \* the group of operations of this behaviour
  requests,       \* requests made so far
  raced           \* history: what was overwritten by a request that had read it too early

requestVars == <<ops, requests, raced>>

RequestsInit ==
  /\ ops \in OpGroups
  /\ requests = 0
  /\ raced = {}

\* One more request is made; r is free to take it.
Made(op) ==
  /\ op \in ops
  /\ requests < MaxRequests
  /\ requests' = requests + 1
  /\ UNCHANGED <<ops, raced>>

RequestsTypeOK == ops \in OpGroups /\ requests \in 0..MaxRequests
=============================================================================
