----------------------------- MODULE ConsolePage -----------------------------
(***************************************************************************)
(* What the pages of the web console share.  One page is open in a browser  *)
(* tab; it talks to the API through requests that may be answered in any     *)
(* order, and none of them is cancelled when the person goes on.             *)
(***************************************************************************)
EXTENDS Naturals, FiniteSets, Sequences

CONSTANTS
  None,           \* no entry, no value
  Views,          \* bound: the pages a behaviour may be about
  MaxChanges      \* bound, per page: what the person does in one behaviour

ASSUME ConsoleAssumption == MaxChanges \in [Views -> Nat]

VARIABLES
  view,           \* the page that is open
  changes         \* what the person did so far

pageVars == <<view, changes>>

PageInit == view \in Views /\ changes = 0

\* The person does one more thing on this page.
Begun == changes < MaxChanges[view] /\ changes' = changes + 1 /\ UNCHANGED view
=============================================================================
