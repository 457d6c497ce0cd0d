---------------------------- MODULE SettingsPage ----------------------------
(***************************************************************************)
(* The settings page of the platform: how long a session lasts and how often *)
(* it is renewed, the administrators and the announcements.  The policy is   *)
(* edited in a draft; whatever is saved or changed on any tab loads the whole *)
(* page again, and the load puts the stored policy into the draft.           *)
(*                                                                         *)
(* The server stores a policy entry by entry: a save that fails between two  *)
(* of them leaves a lifetime with the renewal of another policy.             *)
(***************************************************************************)
EXTENDS ConsolePage

CONSTANTS
  Lifetimes,      \* how long a session may last, as the page offers it
  Ages,           \* the renewal intervals it offers
  FirstPolicy,    \* what the server starts with
  TripIds         \* bound: loads, saves and other changes in flight

Policies == [lifetime : Lifetimes, age : Ages, sliding : BOOLEAN]

Fits(p) == p.age < p.lifetime

\* Every lifetime leaves a longest renewal to choose.
ASSUME SettingsAssumption ==
  /\ Lifetimes \subseteq Nat /\ Ages \subseteq Nat
  /\ \A n \in Lifetimes : \E a \in Ages : a < n /\ \A b \in Ages : b < n => b <= a
  /\ FirstPolicy \in Policies /\ Fits(FirstPolicy) /\ None \notin Policies

\* The writes of the other tabs; the first two have a dialog that is busy meanwhile.
Writes == {"administrator", "announcement", "status", "retraction"}

VARIABLES
  kept,           \* the stored entries
  settings,       \* the policy of the last load
  draft,          \* the policy in the controls
  failed,         \* the page shows an error and a button to load again
  trips,          \* requests in flight
  mixed           \* history: a load found a policy whose renewal is not below its lifetime

settingsVars == <<kept, settings, draft, failed, trips, mixed>>

NoTrip == [kind |-> "none", stage |-> "none", policy |-> None]

\* UpdateSystemSettingsInputSchema
Accepted(p) == p.sliding => Fits(p)

InFlight(kind) == \E t \in TripIds : trips[t].kind = kind

Ready == view = "settings" /\ settings # None /\ ~failed

Depart(kind, stage, policy) ==
  \E t \in TripIds :
    /\ trips[t] = NoTrip
    /\ trips' = [trips EXCEPT ![t] = [kind |-> kind, stage |-> stage, policy |-> policy]]

To(t, stage) == trips' = [trips EXCEPT ![t].stage = stage]
Done(t) == trips' = [trips EXCEPT ![t] = NoTrip]

---------------------------------------------------------------------------
(* The controls.                                                           *)

\* Faulty: the renewal may be as long as the lifetime.
LongestUpTo(n) == CHOOSE a \in Ages : a <= n /\ \A b \in Ages : b <= n => b <= a

LongestBelow(n) == CHOOSE a \in Ages : a < n /\ \A b \in Ages : b < n => b <= a

\* A renewal that the new lifetime does not allow becomes the longest that it does.
ChooseLifetime(n) ==
  /\ Ready /\ Begun
  /\ draft' = [draft EXCEPT !.lifetime = n, !.age = IF @ >= n THEN LongestBelow(n) ELSE @]
  /\ UNCHANGED <<kept, settings, failed, trips, mixed>>

\* renewalOptions
ChooseAge(a) ==
  /\ Ready /\ Begun /\ a < draft.lifetime
  /\ draft' = [draft EXCEPT !.age = a]
  /\ UNCHANGED <<kept, settings, failed, trips, mixed>>

ChooseSliding(b) ==
  /\ Ready /\ Begun
  /\ draft' = [draft EXCEPT !.sliding = b]
  /\ UNCHANGED <<kept, settings, failed, trips, mixed>>

---------------------------------------------------------------------------
(* Loading.                                                                *)

Load ==
  /\ view = "settings" /\ failed /\ Begun
  /\ failed' = FALSE /\ Depart("load", "policy", None)
  /\ UNCHANGED <<kept, settings, draft, mixed>>

\* Whatever the person has chosen since is replaced.
AnswerPolicy(t) ==
  /\ trips[t].stage = "policy"
  /\ settings' = kept /\ draft' = kept
  /\ mixed' = (mixed \/ ~Fits(kept))
  /\ To(t, "lists")
  /\ UNCHANGED <<kept, failed, pageVars>>

\* Administrators and announcements are asked for in turn; one that fails is left empty.
AnswerLists(t) ==
  /\ trips[t].stage = "lists" /\ Done(t)
  /\ UNCHANGED <<kept, settings, draft, failed, mixed, pageVars>>

FailPolicy(t) ==
  /\ trips[t].stage = "policy" /\ failed' = TRUE /\ Done(t)
  /\ UNCHANGED <<kept, settings, draft, mixed, pageVars>>

---------------------------------------------------------------------------
(* Saving the policy: the button waits for the save and its load.            *)

SavePolicy ==
  /\ Ready /\ ~InFlight("save") /\ draft # settings /\ Begun
  /\ Depart("save", "sent", draft)
  /\ UNCHANGED <<kept, settings, draft, failed, mixed>>

StoreLifetime(t) ==
  /\ trips[t].stage = "sent" /\ trips[t].kind = "save" /\ Accepted(trips[t].policy)
  /\ kept' = [kept EXCEPT !.lifetime = trips[t].policy.lifetime]
  /\ To(t, "half")
  /\ UNCHANGED <<settings, draft, failed, mixed, pageVars>>

\* The page loads itself again, unless the answer is lost.
StoreRest(t) ==
  /\ trips[t].stage = "half"
  /\ kept' = [kept EXCEPT !.age = trips[t].policy.age, !.sliding = trips[t].policy.sliding]
  /\ \/ To(t, "policy") /\ failed' = FALSE
     \/ Done(t) /\ UNCHANGED failed
  /\ UNCHANGED <<settings, draft, mixed, pageVars>>

\* Refused, or broken off before the first or between two entries; nothing is loaded.
BreakOff(t) ==
  /\ trips[t].stage \in {"sent", "half"} /\ Done(t)
  /\ UNCHANGED <<kept, settings, draft, failed, mixed, pageVars>>

\* Another administrator's page.
OthersSave(p) ==
  /\ view = "settings" /\ Fits(p) /\ Begun
  /\ kept' = p
  /\ UNCHANGED <<settings, draft, failed, trips, mixed>>

---------------------------------------------------------------------------
(* Administrators and announcements.                                       *)

Write(kind) ==
  /\ Ready /\ Begun
  /\ kind \in {"administrator", "announcement"} => ~InFlight(kind)
  /\ Depart(kind, "sent", None)
  /\ UNCHANGED <<kept, settings, draft, failed, mixed>>

AnswerWrite(t) ==
  /\ trips[t].stage = "sent" /\ trips[t].kind \in Writes
  /\ To(t, "policy") /\ failed' = FALSE
  /\ UNCHANGED <<kept, settings, draft, mixed, pageVars>>

---------------------------------------------------------------------------
SettingsInit ==
  /\ kept = FirstPolicy /\ settings = None /\ draft = FirstPolicy
  /\ failed = FALSE /\ mixed = FALSE
  /\ \E t \in TripIds :
       trips = [u \in TripIds |-> IF u = t /\ view = "settings"
                                  THEN [kind |-> "load", stage |-> "policy", policy |-> None]
                                  ELSE NoTrip]

SettingsNext ==
  \/ \E n \in Lifetimes : ChooseLifetime(n)
  \/ \E a \in Ages : ChooseAge(a)
  \/ \E b \in BOOLEAN : ChooseSliding(b)
  \/ \E p \in Policies : OthersSave(p)
  \/ \E kind \in Writes : Write(kind)
  \/ Load \/ SavePolicy
  \/ \E t \in TripIds : \/ AnswerPolicy(t) \/ AnswerLists(t) \/ FailPolicy(t)
                        \/ StoreLifetime(t) \/ StoreRest(t) \/ BreakOff(t) \/ AnswerWrite(t)

---------------------------------------------------------------------------
\* The schema never refuses what the page sends, however choices, loads and other
\* people's saves interleave, unless a load found entries of two policies.
SavesAreAccepted ==
  mixed \/ \A t \in TripIds : trips[t].kind = "save" => Accepted(trips[t].policy)
=============================================================================
