------------------------------- MODULE WebProofs -------------------------------
(***************************************************************************)
(* What the pages of the browser guarantee: the dialogs, settings, member     *)
(* table and lists of the console (AdminConsole) for any number of entries,   *)
(* members, tenants and requests in flight, and the collaboration page        *)
(* (MessageComposer) for any number of members, rooms, messages and turns.    *)
(***************************************************************************)
EXTENDS AdminConsole, MessageComposer, TLAPS

---------------------------------------------------------------------------
(* The settings page.                                                      *)

Trips == [kind : {"none", "load", "save"} \union Writes,
          stage : {"none", "policy", "lists", "sent", "half"},
          policy : Policies \union {None}]

\* Until a load finds a renewal that is not below its lifetime, the draft fits, and so
\* does every policy that is being saved.
SettingsInv ==
  /\ kept \in Policies /\ draft \in Policies
  /\ trips \in [TripIds -> Trips]
  /\ \A t \in TripIds : trips[t].kind = "save" => trips[t].policy \in Policies
  /\ \A t \in TripIds : trips[t].stage = "half" => trips[t].kind = "save"
  /\ mixed \/ Fits(draft)
  /\ \A t \in TripIds : trips[t].kind = "save" => mixed \/ Fits(trips[t].policy)

LEMMA LongestRenewal ==
  ASSUME NEW n \in Lifetimes
  PROVE  LongestBelow(n) \in Ages /\ LongestBelow(n) < n
<1>1. \E a \in Ages : a < n /\ \A b \in Ages : b < n => b <= a
  BY SettingsAssumption
<1> QED
  BY <1>1 DEF LongestBelow

LEMMA SettingsStart == Init => SettingsInv
BY SettingsAssumption DEF Init, SettingsInit, SettingsInv, Trips, NoTrip, Policies

LEMMA SettingsStep == SettingsInv /\ [Next]_vars => SettingsInv'
<1> SUFFICES ASSUME SettingsInv, [Next]_vars PROVE SettingsInv'
  OBVIOUS
<1> USE DEF SettingsInv
<1>1. CASE UNCHANGED settingsVars
  BY <1>1 DEF settingsVars, Fits
<1>2. ASSUME NEW n \in Lifetimes, ChooseLifetime(n) PROVE SettingsInv'
  <2>1. LongestBelow(n) \in Ages /\ LongestBelow(n) < n
    BY LongestRenewal
  <2>2. ASSUME NEW a \in Ages, a < n
        PROVE  /\ [draft EXCEPT !.lifetime = n, !.age = a] \in Policies
               /\ Fits([draft EXCEPT !.lifetime = n, !.age = a])
    BY <2>2 DEF Policies, Fits
  <2>3. draft.age \in Ages /\ draft.age \in Nat /\ n \in Nat
    BY SettingsAssumption DEF Policies
  <2>4. CASE draft.age >= n
    <3>1. draft' = [draft EXCEPT !.lifetime = n, !.age = LongestBelow(n)]
      BY <1>2, <2>4 DEF ChooseLifetime
    <3> QED BY <1>2, <2>1, <2>2, <3>1 DEF ChooseLifetime
  <2>5. CASE ~(draft.age >= n)
    <3>1. draft' = [draft EXCEPT !.lifetime = n, !.age = draft.age]
      BY <1>2, <2>5 DEF ChooseLifetime
    <3>2. draft' \in Policies /\ Fits(draft')
      <4>1. draft.age < n
        BY <2>3, <2>5
      <4> QED BY <2>2, <2>3, <3>1, <4>1
    <3> QED BY <1>2, <3>2 DEF ChooseLifetime
  <2> QED BY <2>4, <2>5
<1>3. ASSUME NEW a \in Ages, ChooseAge(a) PROVE SettingsInv'
  <2>1. draft' \in Policies /\ Fits(draft')
    BY <1>3, SettingsAssumption DEF ChooseAge, Policies, Fits
  <2> QED BY <1>3, <2>1 DEF ChooseAge
<1>4. ASSUME NEW b \in BOOLEAN, ChooseSliding(b) PROVE SettingsInv'
  <2>1. draft' \in Policies /\ (Fits(draft) => Fits(draft'))
    BY <1>4 DEF ChooseSliding, Policies, Fits
  <2> QED BY <1>4, <2>1 DEF ChooseSliding
<1>5. ASSUME NEW p \in Policies, OthersSave(p) PROVE SettingsInv'
  BY <1>5 DEF OthersSave
<1>6. ASSUME NEW t \in TripIds, NEW trip \in Trips, trip.stage # "half",
             trip.kind = "save" => trip.policy \in Policies /\ (mixed \/ Fits(trip.policy)),
             trips' = [trips EXCEPT ![t] = trip], UNCHANGED <<kept, draft, mixed>>
      PROVE  SettingsInv'
  BY <1>6
<1>7. ASSUME NEW kind \in {"load", "save"} \union Writes, NEW stage \in {"policy", "sent"},
             NEW policy \in Policies \union {None},
             kind = "save" => policy = draft,
             Depart(kind, stage, policy), UNCHANGED <<kept, draft, mixed>>
      PROVE  SettingsInv'
  <2> DEFINE trip == [kind |-> kind, stage |-> stage, policy |-> policy]
  <2>1. PICK t \in TripIds : trips' = [trips EXCEPT ![t] = trip]
    BY <1>7 DEF Depart
  <2>2. trip \in Trips /\ trip.stage # "half" /\ trip.kind = kind /\ trip.policy = policy
    BY DEF Trips
  <2> HIDE DEF trip
  <2> QED BY <1>6, <1>7, <2>1, <2>2
<1>8. CASE Load
  BY <1>7, <1>8 DEF Load
<1>9. CASE SavePolicy
  BY <1>7, <1>9 DEF SavePolicy
<1>10. ASSUME NEW kind \in Writes, Write(kind) PROVE SettingsInv'
  <2>1. kind # "save"
    BY DEF Writes
  <2> QED BY <1>7, <1>10, <2>1 DEF Write
<1>11. ASSUME NEW t \in TripIds, NEW stage \in {"policy", "lists", "half"},
              stage = "half" => trips[t].kind = "save",
              To(t, stage) \/ Done(t)
       PROVE  /\ trips' \in [TripIds -> Trips]
              /\ \A u \in TripIds : /\ trips'[u].kind = "save" =>
                                         /\ trips[u].kind = "save"
                                         /\ trips'[u].policy = trips[u].policy
                                    /\ trips'[u].stage = "half" => trips'[u].kind = "save"
  <2>1. CASE To(t, stage)
    <3>1. trips[t] \in Trips /\ [trips[t] EXCEPT !.stage = stage] \in Trips
      BY DEF Trips
    <3>2. trips' = [trips EXCEPT ![t] = [trips[t] EXCEPT !.stage = stage]]
      BY <2>1 DEF To
    <3>3. ASSUME NEW u \in TripIds
          PROVE  trips'[u] = IF u = t THEN [trips[t] EXCEPT !.stage = stage] ELSE trips[u]
      BY <3>2
    <3>4. [trips[t] EXCEPT !.stage = stage].kind = trips[t].kind
          /\ [trips[t] EXCEPT !.stage = stage].policy = trips[t].policy
          /\ [trips[t] EXCEPT !.stage = stage].stage = stage
      BY <3>1 DEF Trips
    <3> HIDE DEF SettingsInv
    <3>5. trips' \in [TripIds -> Trips]
      BY <3>1, <3>2 DEF SettingsInv
    <3> QED BY <1>11, <3>3, <3>4, <3>5 DEF SettingsInv
  <2>2. CASE Done(t)
    <3>1. NoTrip \in Trips /\ NoTrip.kind = "none" /\ NoTrip.stage = "none"
      BY DEF NoTrip, Trips
    <3> QED BY <2>2, <3>1 DEF Done
  <2> QED BY <1>11, <2>1, <2>2
<1>12. ASSUME NEW t \in TripIds, AnswerPolicy(t) PROVE SettingsInv'
  BY <1>12, <1>11 DEF AnswerPolicy, To
<1>13. ASSUME NEW t \in TripIds, AnswerLists(t) \/ FailPolicy(t) \/ BreakOff(t) \/ AnswerWrite(t)
       PROVE  SettingsInv'
  BY <1>13, <1>11 DEF AnswerLists, FailPolicy, BreakOff, AnswerWrite, To, Done
<1>14. ASSUME NEW t \in TripIds, StoreLifetime(t) PROVE SettingsInv'
  <2>1. kept' \in Policies
    BY <1>14 DEF StoreLifetime, Policies
  <2> QED BY <1>14, <2>1, <1>11 DEF StoreLifetime, To
<1>15. ASSUME NEW t \in TripIds, StoreRest(t) PROVE SettingsInv'
  <2>1. kept' \in Policies
    BY <1>15 DEF StoreRest, Policies
  <2> QED BY <1>15, <2>1, <1>11 DEF StoreRest, To, Done
<1> QED
  BY <1>1, <1>2, <1>3, <1>4, <1>5, <1>8, <1>9, <1>12, <1>13, <1>14, <1>15, <1>10
  DEF Next, SettingsNext, vars

\* The schema of the route refuses no save of the page, unless a load found the entries
\* of two policies (system-settings-section.tsx and UpdateSystemSettingsInputSchema).
THEOREM SettingsCanBeSaved == Spec => []SavesAreAccepted
<1>1. SettingsInv => SavesAreAccepted
  BY DEF SettingsInv, SavesAreAccepted, Accepted
<1> QED
  BY <1>1, SettingsStart, SettingsStep, PTL DEF Spec

---------------------------------------------------------------------------
(* The dialogs.                                                            *)

EntryOrNone == Entries \union {None}
Forms == [Parts -> EntryOrNone]

FormsType ==
  /\ opened \in BOOLEAN /\ unsure \in BOOLEAN /\ editing \in EntryOrNone
  /\ form \in Forms /\ stored \in [Entries -> Forms]
  /\ calls \in [CallIds -> [kind : {"none", "fetch", "toggle"}, entry : EntryOrNone]]
  /\ save \in [state : {"none", "sent"}, entry : EntryOrNone, form : Forms, left : SUBSET Parts]
  /\ save.state = "none" => save.left = {}

\* A page without a dialog of this kind has none open and nothing in flight for it.
NoFormElsewhere ==
  view \notin FormViews =>
    /\ ~opened /\ save.state = "none"
    /\ \A c \in CallIds : calls[c].kind = "none"

\* What a call can be about depends on the dialog.
CallsOfTheDialog ==
  \A c \in CallIds :
    /\ calls[c].kind = "fetch" => Dialog.fetched # {}
    /\ calls[c].kind = "toggle" => view = "model"
    /\ calls[c].kind # "none" => calls[c].entry \in Entries

\* The part that comes from the row belongs to the entry, whatever the answers do.
RowPartIsItsOwn ==
  opened /\ editing \in Entries \ excused /\ view # "model" =>
    \A p \in Dialog.filled : form[p] = editing

SureFormIsItsOwn ==
  opened /\ editing \in Entries \ excused /\ ~unsure =>
    \A p \in PartsOfForm : form[p] = editing

\* What a save has still to store, and what it has stored.
SaveIsItsOwn ==
  save.entry \in Entries \ excused => \A p \in save.left : save.form[p] = save.entry

SaveIsStored ==
  save.state = "sent" /\ save.entry # None =>
    \A p \in PartsOfForm \ save.left : stored[save.entry][p] = save.form[p]

FormsInv ==
  /\ FormsType /\ NoFormElsewhere /\ CallsOfTheDialog
  /\ EntriesKeepTheirOwn /\ RowPartIsItsOwn /\ SureFormIsItsOwn
  /\ SaveIsItsOwn /\ SaveIsStored

LEMMA DialogParts ==
  ASSUME view \in FormViews
  PROVE  /\ Dialog.filled \subseteq {"own"} /\ Dialog.fetched \subseteq {"fetched"}
         /\ view = "model" => Dialog.fetched = {}
         /\ PartsOfForm \subseteq Parts
BY DEF FormViews, Dialog, Dialogs, MemberDialog, QuotaDialog, TenantDialog, ModelDialog,
       RoleDialog, DepartmentDialog, PartsOfForm, Parts

LEMMA FormsStart == Init => FormsInv
<1> SUFFICES ASSUME Init PROVE FormsInv
  OBVIOUS
<1>1. /\ opened = FALSE /\ editing = None /\ form = [p \in Parts |-> None]
      /\ calls = [c \in CallIds |-> NoCall] /\ save = NoSave
      /\ stored = [e \in Entries |-> [p \in Parts |-> e]]
      /\ unsure = FALSE /\ excused = {}
  BY DEF Init, FormsInit
<1>2. NoCall \in [kind : {"none", "fetch", "toggle"}, entry : EntryOrNone] /\ NoCall.kind = "none"
  BY DEF NoCall, EntryOrNone
<1>3. /\ NoSave \in [state : {"none", "sent"}, entry : EntryOrNone, form : Forms, left : SUBSET Parts]
      /\ NoSave.state = "none" /\ NoSave.left = {}
  BY DEF NoSave, EntryOrNone, Forms
<1>4. FormsType
  BY <1>1, <1>2, <1>3 DEF FormsType, Forms, EntryOrNone
<1>5. NoFormElsewhere /\ CallsOfTheDialog
  BY <1>1, <1>2, <1>3 DEF NoFormElsewhere, CallsOfTheDialog
<1>6. EntriesKeepTheirOwn /\ RowPartIsItsOwn /\ SureFormIsItsOwn /\ SaveIsItsOwn /\ SaveIsStored
  BY <1>1, <1>3
  DEF EntriesKeepTheirOwn, RowPartIsItsOwn, SureFormIsItsOwn, SaveIsItsOwn, SaveIsStored
<1> QED BY <1>4, <1>5, <1>6 DEF FormsInv

\* The other pages leave the dialogs alone.
LEMMA OtherPages ==
  FormsInv /\ view \notin FormViews /\ UNCHANGED formVars => FormsInv'
BY DEF FormsInv, formVars, FormsType, NoFormElsewhere, CallsOfTheDialog, EntriesKeepTheirOwn,
       RowPartIsItsOwn, SureFormIsItsOwn, SaveIsItsOwn, SaveIsStored

LEMMA FormsStutter ==
  ASSUME FormsInv, UNCHANGED view, UNCHANGED formVars
  PROVE  FormsInv'
<1>1. Dialog' = Dialog /\ PartsOfForm' = PartsOfForm
  BY DEF Dialog, PartsOfForm
<1> QED
  BY <1>1 DEF FormsInv, formVars, FormsType, NoFormElsewhere, CallsOfTheDialog,
    EntriesKeepTheirOwn, RowPartIsItsOwn, SureFormIsItsOwn, SaveIsItsOwn, SaveIsStored

LEMMA FormsKeepTheView == FormsNext => UNCHANGED view
BY DEF FormsNext, OpenEntry, OpenNew, Show, Begun, CloseDialog, ToggleAllocation, SubmitForm,
       FinishSave, FailSave, AnswerFetch, FailFetch, AnswerToggle, StorePart, pageVars

LEMMA OpenStep ==
  ASSUME FormsInv, view \in FormViews, UNCHANGED view,
         (\E e \in Entries : OpenEntry(e)) \/ OpenNew
  PROVE  FormsInv'
<1>1. Dialog' = Dialog /\ PartsOfForm' = PartsOfForm
  BY DEF Dialog, PartsOfForm
<1> USE DialogParts DEF FormsInv, FormsType
<1>2. ASSUME NEW e \in Entries, OpenEntry(e) PROVE FormsInv'
  <2>1. Prefilled(e) \in Forms
    BY DEF Prefilled, Forms, Parts, EntryOrNone
  <2>2. e \notin excused => \A p \in Dialog.filled : Prefilled(e)[p] = e
    BY DEF Prefilled, EntriesKeepTheirOwn, Parts
  <2>3. opened' = TRUE /\ editing' = e /\ form' = Prefilled(e)
        /\ UNCHANGED <<save, stored, excused>> /\ unsure' = (Dialog.fetched # {})
    BY <1>2 DEF OpenEntry, Show
  <2>4. /\ calls' \in [CallIds -> [kind : {"none", "fetch", "toggle"}, entry : EntryOrNone]]
        /\ \A c \in CallIds : \/ calls'[c] = calls[c]
                              \/ /\ calls'[c].kind = "fetch" /\ calls'[c].entry = e
                                 /\ Dialog.fetched # {}
    BY <1>2 DEF OpenEntry, EntryOrNone
  <2>5. FormsType'
    BY <2>1, <2>3, <2>4 DEF EntryOrNone
  <2>6. CallsOfTheDialog' /\ NoFormElsewhere'
    BY <1>1, <2>4 DEF CallsOfTheDialog, NoFormElsewhere
  <2>7. RowPartIsItsOwn' /\ SureFormIsItsOwn'
    BY <1>1, <2>2, <2>3 DEF RowPartIsItsOwn, SureFormIsItsOwn, PartsOfForm
  <2>8. EntriesKeepTheirOwn' /\ SaveIsItsOwn' /\ SaveIsStored'
    BY <1>1, <2>3 DEF EntriesKeepTheirOwn, SaveIsItsOwn, SaveIsStored
  <2> QED BY <2>5, <2>6, <2>7, <2>8
<1>3. CASE OpenNew
  <2>1. /\ opened' = TRUE /\ editing' = None /\ form' = [p \in Parts |-> None]
        /\ unsure' = FALSE /\ UNCHANGED <<save, stored, excused, calls>>
    BY <1>3 DEF OpenNew, Show
  <2>2. FormsType'
    BY <2>1 DEF EntryOrNone, Forms
  <2>3. CallsOfTheDialog' /\ NoFormElsewhere'
    BY <1>1, <2>1 DEF CallsOfTheDialog, NoFormElsewhere
  <2>4. RowPartIsItsOwn' /\ SureFormIsItsOwn'
    BY <2>1, FormsAssumption DEF RowPartIsItsOwn, SureFormIsItsOwn
  <2>5. EntriesKeepTheirOwn' /\ SaveIsItsOwn' /\ SaveIsStored'
    BY <1>1, <2>1 DEF EntriesKeepTheirOwn, SaveIsItsOwn, SaveIsStored
  <2> QED BY <2>2, <2>3, <2>4, <2>5
<1> QED
  BY <1>2, <1>3

\* Closing, with or without a save that ends.
LEMMA CloseStep ==
  ASSUME FormsInv, view \in FormViews, UNCHANGED view, CloseDialog \/ FinishSave \/ FailSave
  PROVE  FormsInv'
<1>1. Dialog' = Dialog /\ PartsOfForm' = PartsOfForm
  BY DEF Dialog, PartsOfForm
<1> USE DEF FormsInv, FormsType
<1>2. /\ UNCHANGED <<form, calls, stored, unsure, excused>>
      /\ save' = save \/ save' = NoSave
      /\ (opened' = opened /\ editing' = editing) \/ (opened' = FALSE /\ editing' \in EntryOrNone)
  BY DEF CloseDialog, FinishSave, FailSave, Closed, EntryOrNone
<1>3. NoSave \in [state : {"none", "sent"}, entry : EntryOrNone, form : Forms, left : SUBSET Parts]
      /\ NoSave.state = "none" /\ NoSave.left = {}
  BY DEF NoSave, EntryOrNone, Forms
<1>4. FormsType'
  BY <1>2, <1>3
<1>5. CallsOfTheDialog' /\ NoFormElsewhere'
  BY <1>1, <1>2 DEF CallsOfTheDialog, NoFormElsewhere
<1>6. RowPartIsItsOwn' /\ SureFormIsItsOwn'
  BY <1>1, <1>2 DEF RowPartIsItsOwn, SureFormIsItsOwn
<1>7. EntriesKeepTheirOwn' /\ SaveIsItsOwn' /\ SaveIsStored'
  BY <1>1, <1>2, <1>3 DEF EntriesKeepTheirOwn, SaveIsItsOwn, SaveIsStored
<1> QED BY <1>4, <1>5, <1>6, <1>7
LEMMA AnswerStep ==
  ASSUME FormsInv, view \in FormViews, UNCHANGED view, NEW c \in CallIds,
         AnswerFetch(c) \/ FailFetch(c) \/ AnswerToggle(c)
  PROVE  FormsInv'
<1>1. Dialog' = Dialog /\ PartsOfForm' = PartsOfForm
  BY DEF Dialog, PartsOfForm
<1> USE DialogParts, FormsAssumption DEF FormsInv, FormsType
<1> DEFINE e == calls[c].entry
<1>2. UNCHANGED <<opened, save, stored, excused>> /\ calls' = [calls EXCEPT ![c] = NoCall]
  BY DEF AnswerFetch, FailFetch, AnswerToggle
<1>3. e \in Entries
  BY DEF CallsOfTheDialog, AnswerFetch, FailFetch, AnswerToggle
<1>4. /\ calls' \in [CallIds -> [kind : {"none", "fetch", "toggle"}, entry : EntryOrNone]]
      /\ \A d \in CallIds : calls'[d] = calls[d] \/ calls'[d].kind = "none"
  BY <1>2 DEF NoCall, EntryOrNone
<1>5. CallsOfTheDialog' /\ NoFormElsewhere' /\ EntriesKeepTheirOwn' /\ SaveIsItsOwn' /\ SaveIsStored'
  BY <1>1, <1>2, <1>4
  DEF CallsOfTheDialog, NoFormElsewhere, EntriesKeepTheirOwn, SaveIsItsOwn, SaveIsStored
<1> HIDE DEF e
<1>6. ASSUME AnswerFetch(c) \/ FailFetch(c)
      PROVE  FormsType' /\ RowPartIsItsOwn' /\ SureFormIsItsOwn'
  <2>1. view # "model" /\ "fetched" \in Parts
    BY <1>6 DEF AnswerFetch, FailFetch, CallsOfTheDialog, Parts
  <2>2. PICK v \in EntryOrNone :
          /\ form' = [form EXCEPT !["fetched"] = v]
          /\ unsure' \in BOOLEAN
          /\ ~unsure' => e = editing /\ v = stored[e]["fetched"]
          /\ UNCHANGED editing
    <3>1. CASE AnswerFetch(c)
      <4>1. /\ form' = [form EXCEPT !["fetched"] = stored[e]["fetched"]]
            /\ unsure' = (e # editing) /\ UNCHANGED editing
        BY <3>1 DEF AnswerFetch, e
      <4>2. stored[e]["fetched"] \in EntryOrNone
        BY <1>3, <2>1 DEF Forms
      <4> QED BY <4>1, <4>2
    <3>2. CASE FailFetch(c)
      BY <3>2 DEF FailFetch, EntryOrNone
    <3> QED BY <1>6, <3>1, <3>2
  <2>3. form' \in Forms
    BY <2>2 DEF Forms
  <2>4. \A p \in Dialog.filled : form'[p] = form[p]
    BY <2>2 DEF Forms, Parts
  <2>5. RowPartIsItsOwn'
    BY <1>1, <1>2, <2>1, <2>2, <2>4 DEF RowPartIsItsOwn
  <2>6. SureFormIsItsOwn'
    <3> SUFFICES ASSUME opened', editing' \in Entries \ excused', ~unsure', NEW p \in PartsOfForm'
                 PROVE  form'[p] = editing'
      BY DEF SureFormIsItsOwn
    <3>1. CASE p \in Dialog.filled
      BY <1>2, <2>1, <2>2, <2>4, <3>1 DEF RowPartIsItsOwn
    <3>2. CASE p = "fetched"
      BY <1>2, <2>1, <2>2, <3>2 DEF EntriesKeepTheirOwn, Forms
    <3> QED BY <1>1, <3>1, <3>2 DEF PartsOfForm
  <2> QED BY <1>2, <1>4, <2>2, <2>3, <2>5, <2>6
<1>7. ASSUME AnswerToggle(c)
      PROVE  FormsType' /\ RowPartIsItsOwn' /\ SureFormIsItsOwn'
  <2>1. /\ view = "model" /\ form' = form /\ unsure' \in BOOLEAN /\ editing' \in EntryOrNone
        /\ ~unsure' => ~unsure /\ editing' = editing
    BY <1>3, <1>7 DEF AnswerToggle, CallsOfTheDialog, EntryOrNone, e
  <2>2. FormsType'
    BY <1>2, <1>4, <2>1
  <2> QED BY <1>1, <1>2, <2>1, <2>2 DEF RowPartIsItsOwn, SureFormIsItsOwn
<1> QED BY <1>5, <1>6, <1>7

LEMMA ToggleStep ==
  ASSUME FormsInv, view \in FormViews, UNCHANGED view, ToggleAllocation
  PROVE  FormsInv'
<1>1. Dialog' = Dialog /\ PartsOfForm' = PartsOfForm
  BY DEF Dialog, PartsOfForm
<1> USE FormsAssumption DEF FormsInv, FormsType
<1>2. /\ UNCHANGED <<opened, editing, form, save, stored, unsure, excused>>
      /\ view = "model" /\ editing \in Entries
  BY DEF ToggleAllocation, EntryOrNone
<1>3. /\ calls' \in [CallIds -> [kind : {"none", "fetch", "toggle"}, entry : EntryOrNone]]
      /\ \A d \in CallIds : \/ calls'[d] = calls[d]
                            \/ calls'[d].kind = "toggle" /\ calls'[d].entry = editing
  <2> DEFINE call == [kind |-> "toggle", entry |-> editing]
  <2>1. PICK c \in CallIds : calls' = [calls EXCEPT ![c] = call]
    BY DEF ToggleAllocation
  <2>2. /\ call \in [kind : {"none", "fetch", "toggle"}, entry : EntryOrNone]
        /\ call.kind = "toggle" /\ call.entry = editing
    OBVIOUS
  <2> HIDE DEF call
  <2>3. calls' \in [CallIds -> [kind : {"none", "fetch", "toggle"}, entry : EntryOrNone]]
    BY <2>1, <2>2
  <2>4. ASSUME NEW d \in CallIds
        PROVE  calls'[d] = calls[d] \/ (calls'[d].kind = "toggle" /\ calls'[d].entry = editing)
    <3>1. calls'[d] = IF d = c THEN call ELSE calls[d]
      BY <2>1
    <3> QED BY <2>2, <3>1
  <2> QED BY <2>3, <2>4
<1>4. FormsType'
  BY <1>2, <1>3
<1>5. CallsOfTheDialog' /\ NoFormElsewhere'
  BY <1>1, <1>2, <1>3 DEF CallsOfTheDialog, NoFormElsewhere
<1>6. /\ RowPartIsItsOwn' /\ SureFormIsItsOwn'
      /\ EntriesKeepTheirOwn' /\ SaveIsItsOwn' /\ SaveIsStored'
  BY <1>1, <1>2
  DEF EntriesKeepTheirOwn, SaveIsItsOwn, SaveIsStored, RowPartIsItsOwn, SureFormIsItsOwn
<1> QED BY <1>4, <1>5, <1>6

LEMMA SubmitStep ==
  ASSUME FormsInv, view \in FormViews, UNCHANGED view, SubmitForm
  PROVE  FormsInv'
<1>1. Dialog' = Dialog /\ PartsOfForm' = PartsOfForm
  BY DEF Dialog, PartsOfForm
<1> USE DialogParts DEF FormsInv, FormsType
<1> DEFINE sent == [state |-> "sent", entry |-> editing, form |-> form, left |-> PartsOfForm]
<1>2. /\ opened /\ save' = sent
      /\ excused' = excused \union (IF unsure THEN {editing} ELSE {})
      /\ UNCHANGED <<opened, editing, form, calls, stored, unsure>>
  BY DEF SubmitForm
<1>3. /\ sent \in [state : {"none", "sent"}, entry : EntryOrNone, form : Forms, left : SUBSET Parts]
      /\ sent.state = "sent" /\ sent.entry = editing /\ sent.form = form /\ sent.left = PartsOfForm
  OBVIOUS
<1> HIDE DEF sent
<1>4. FormsType'
  BY <1>2, <1>3
<1>5. CallsOfTheDialog' /\ NoFormElsewhere'
  BY <1>1, <1>2 DEF CallsOfTheDialog, NoFormElsewhere
<1>6. EntriesKeepTheirOwn' /\ RowPartIsItsOwn' /\ SureFormIsItsOwn'
  BY <1>1, <1>2 DEF EntriesKeepTheirOwn, RowPartIsItsOwn, SureFormIsItsOwn
<1>7. SaveIsItsOwn' /\ SaveIsStored'
  BY <1>1, <1>2, <1>3 DEF SaveIsItsOwn, SaveIsStored, SureFormIsItsOwn
<1> QED BY <1>4, <1>5, <1>6, <1>7

LEMMA StoreStep ==
  ASSUME FormsInv, view \in FormViews, UNCHANGED view, NEW p \in Parts, StorePart(p)
  PROVE  FormsInv'
<1>1. Dialog' = Dialog /\ PartsOfForm' = PartsOfForm
  BY DEF Dialog, PartsOfForm
<1> USE DEF FormsInv, FormsType
<1>2. /\ UNCHANGED <<opened, editing, form, calls, unsure, excused>>
      /\ p \in save.left /\ save' = [save EXCEPT !.left = save.left \ {p}]
      /\ stored' = IF save.entry = None THEN stored
                   ELSE [stored EXCEPT ![save.entry] = [stored[save.entry] EXCEPT ![p] = save.form[p]]]
  BY DEF StorePart
<1>3. /\ save' \in [state : {"none", "sent"}, entry : EntryOrNone, form : Forms, left : SUBSET Parts]
      /\ save'.state = save.state /\ save'.entry = save.entry /\ save'.form = save.form
      /\ save'.left = save.left \ {p}
  BY <1>2
<1>4. save.entry # None => save.entry \in Entries
  BY DEF EntryOrNone
<1>5. /\ stored' \in [Entries -> Forms]
      /\ \A e \in Entries, q \in Parts :
           stored'[e][q] = IF e = save.entry /\ q = p /\ save.entry # None
                           THEN save.form[p] ELSE stored[e][q]
  <2>1. save.form[p] \in EntryOrNone
    BY DEF Forms
  <2>2. CASE save.entry = None
    BY <1>2, <2>2
  <2>3. CASE save.entry # None
    <3> DEFINE row == [stored[save.entry] EXCEPT ![p] = save.form[p]]
    <3>1. row \in Forms /\ \A q \in Parts :
                             row[q] = IF q = p THEN save.form[p] ELSE stored[save.entry][q]
      BY <1>4, <2>1, <2>3 DEF Forms
    <3>2. stored' = [stored EXCEPT ![save.entry] = row]
      BY <1>2, <2>3
    <3> HIDE DEF row
    <3> QED BY <1>4, <2>3, <3>1, <3>2
  <2> QED BY <2>2, <2>3
<1>6. FormsType'
  BY <1>2, <1>3, <1>5
<1>7. CallsOfTheDialog' /\ NoFormElsewhere' /\ RowPartIsItsOwn' /\ SureFormIsItsOwn'
  BY <1>1, <1>2, <1>3
  DEF CallsOfTheDialog, NoFormElsewhere, RowPartIsItsOwn, SureFormIsItsOwn
<1>8. EntriesKeepTheirOwn'
  BY <1>2, <1>5 DEF EntriesKeepTheirOwn, SaveIsItsOwn
<1>9. SaveIsItsOwn'
  BY <1>2, <1>3 DEF SaveIsItsOwn
<1>10. SaveIsStored'
  BY <1>1, <1>3, <1>4, <1>5, DialogParts DEF SaveIsStored
<1> QED BY <1>6, <1>7, <1>8, <1>9, <1>10

LEMMA FormsStep == FormsInv /\ [Next]_vars => FormsInv'
<1> SUFFICES ASSUME FormsInv, [Next]_vars PROVE FormsInv'
  OBVIOUS
<1>1. CASE view \in FormViews /\ FormsNext
  BY <1>1, FormsKeepTheView, OpenStep, CloseStep, AnswerStep, ToggleStep, SubmitStep, StoreStep
  DEF FormsNext
<1>2. CASE UNCHANGED vars
  BY <1>2, FormsStutter DEF vars, pageVars
<1>3. CASE view \notin FormViews /\ UNCHANGED formVars
  BY <1>3, OtherPages
<1>4. "members" \notin FormViews /\ "settings" \notin FormViews
      /\ \A v \in ListViews : v \notin FormViews
  BY DEF FormViews, Dialogs, ListViews, Lists
<1> QED
  BY <1>1, <1>2, <1>3, <1>4 DEF Next

\* Late and missing answers change no entry behind the person's back: an entry keeps its
\* own values unless it was saved from a form that showed something else
\* (live-members.tsx, live-roles.tsx and the other dialogs).
THEOREM DialogsKeepEntriesApart == Spec => []EntriesKeepTheirOwn
<1>1. FormsInv => EntriesKeepTheirOwn
  BY DEF FormsInv
<1> QED
  BY <1>1, FormsStart, FormsStep, PTL DEF Spec

\* A dialog closes by a save only when every request of the save was answered.
THEOREM DialogsCloseWhenStored == Spec => ClosedWhenStored
<1> DEFINE Step == save.state = "sent" /\ save'.state = "none" /\ opened /\ ~opened' /\ save.entry # None
                     => \A p \in PartsOfForm : stored[save.entry][p] = save.form[p]
<1>1. FormsInv /\ [Next]_vars => [Step]_formVars
  <2> SUFFICES ASSUME FormsInv, [Next]_vars, save.state = "sent", save'.state = "none",
                      opened, ~opened', save.entry # None, NEW p \in PartsOfForm
               PROVE  stored[save.entry][p] = save.form[p]
    OBVIOUS
  <2>1. FormsNext
    BY DEF Next, vars, formVars
  <2>2. FinishSave
    BY <2>1
    DEF FormsNext, OpenEntry, OpenNew, Show, CloseDialog, ToggleAllocation, SubmitForm,
        FailSave, AnswerFetch, FailFetch, AnswerToggle, StorePart
  <2> QED BY <2>2 DEF FinishSave, FormsInv, SaveIsStored
<1> QED
  BY <1>1, FormsStart, FormsStep, PTL DEF Spec, ClosedWhenStored

---------------------------------------------------------------------------
(* The member table.                                                       *)

Statuses == {"active", "suspended"}
Row == [Fields -> Values]
Table == [Members -> Row]

Membership ==
  [isOwner : BOOLEAN, binding : MemberRoles, status : Statuses, department : Departments]

PatchRecord ==
  [state : {"none", "sent", "applied"}, member : Members \union {None},
   field : Fields \union {"none"}, value : Values \union {None}, previous : Values \union {None}]
WriteRecord ==
  [state : {"none", "sent", "applied"}, form : {"batch", "dialog", None},
   members : SUBSET Members, kind : Kinds \union {"none"},
   value : Values \union Members \union {None}]
LoadRecord ==
  [state : {"none", "asked", "read"}, copy : Table \union {None}, clean : BOOLEAN,
   covers : SUBSET Cells]

\* A change in flight is about a role or a status; a request of the batch or of a dialog
\* carries a department, a role, or the member that becomes the owner.
PatchIsDone(q) ==
  q.state # "none" =>
    /\ q.member \in Members /\ q.previous \in Values
    /\ \/ q.field = "role" /\ q.value \in MemberRoles
       \/ q.field = "status" /\ q.value \in Statuses
WriteIsDone(q) ==
  q.state # "none" => \/ q.kind = "department" /\ q.value \in Departments
                      \/ q.kind = "roles" /\ q.value \in MemberRoles
                      \/ q.kind = "transfer" /\ q.value \in Members

MembersType ==
  /\ directory \in [Members -> Membership] /\ rows \in Table
  /\ patches \in [PatchIds -> PatchRecord] /\ \A p \in PatchIds : PatchIsDone(patches[p])
  /\ writes \in [WriteIds -> WriteRecord] /\ \A w \in WriteIds : WriteIsDone(writes[w])
  /\ loads \in [LoadIds -> LoadRecord]
  /\ \A l \in LoadIds : loads[l].state = "read" => loads[l].copy \in Table
  /\ exposed \subseteq Cells

PatchOn(p, m, f) == patches[p].state # "none" /\ patches[p].member = m /\ patches[p].field = f
WriteOn(w, m, f) ==
  writes[w].state # "none" /\ m \in writes[w].members /\ FieldOf(writes[w].kind) = f

\* A load that will show the cell, or expose it.
Covered(m, f) == \E l \in LoadIds : loads[l].state # "none" /\ <<m, f>> \in loads[l].covers

\* One patch at most is on its way for the cell, and no write: it will show what was sent
\* or get back what the server still holds.  Without one, and without a write that the
\* server has made, the cell shows what the server holds.
CellHolds(m, f) ==
  /\ \A p \in PatchIds :
       PatchOn(p, m, f) =>
         /\ \A q \in PatchIds : PatchOn(q, m, f) => q = p
         /\ \A w \in WriteIds : ~WriteOn(w, m, f)
         /\ rows[m][f] = patches[p].value
         /\ patches[p].state = "sent" => Overview[m][f] = patches[p].previous
         /\ patches[p].state = "applied" => Overview[m][f] = rows[m][f]
  /\ \/ \E p \in PatchIds : PatchOn(p, m, f)
     \/ \E w \in WriteIds : WriteOn(w, m, f) /\ writes[w].state = "applied"
     \/ rows[m][f] = Overview[m][f]

CellsHold ==
  \A m \in Members, f \in Fields : <<m, f>> \in exposed \/ Covered(m, f) \/ CellHolds(m, f)

\* A load that nothing overlaps began when nothing was on its way, and nothing is since.
CleanHolds ==
  \A l \in LoadIds :
    loads[l].state # "none" /\ loads[l].clean =>
      /\ \A p \in PatchIds : patches[p].state = "none"
      /\ \A w \in WriteIds : writes[w].state = "none"
      /\ loads[l].state = "read" => loads[l].copy = Overview

MembersInv == MembersType /\ CellsHold /\ CleanHolds

LEMMA CellsOfChanges ==
  ASSUME MembersType, NEW m \in Members, NEW f \in Fields
  PROVE  /\ <<m, f>> \in Patched <=> \E p \in PatchIds : PatchOn(p, m, f)
         /\ <<m, f>> \in Written <=> \E w \in WriteIds : WriteOn(w, m, f)
         /\ \A w \in WriteIds : <<m, f>> \in CellsOf(w) <=> (m \in writes[w].members /\ FieldOf(writes[w].kind) = f)
<1>1. \A w \in WriteIds : <<m, f>> \in CellsOf(w) <=> (m \in writes[w].members /\ FieldOf(writes[w].kind) = f)
  BY DEF CellsOf, CellsOfRequest
<1>2. <<m, f>> \in Patched <=> \E p \in PatchIds : PatchOn(p, m, f)
  BY DEF Patched, PatchOn
<1>3. DOMAIN writes = WriteIds
  BY DEF MembersType
<1>4. <<m, f>> \in Written <=> \E w \in WriteIds : WriteOn(w, m, f)
  BY <1>1, <1>3 DEF Written, WriteOn
<1> QED BY <1>1, <1>2, <1>4

\* What the page shows of a membership.
LEMMA OverviewIsATable == ASSUME MembersType PROVE Overview \in Table
<1>1. ASSUME NEW m \in Members
      PROVE  [role |-> RoleOf(m), status |-> directory[m].status,
              department |-> directory[m].department] \in Row
  <2>1. directory[m] \in Membership
    BY DEF MembersType
  <2>2. RoleOf(m) \in Values /\ directory[m].status \in Values /\ directory[m].department \in Values
    BY <2>1 DEF RoleOf, Membership, Values, MemberRoles, Statuses
  <2> QED BY <2>2 DEF Row, Fields
<1> QED BY <1>1 DEF Overview, Table

LEMMA SameOverview == directory' = directory => Overview' = Overview
BY DEF Overview, RoleOf

LEMMA OverviewOfMember ==
  ASSUME NEW m \in Members
  PROVE  /\ directory'[m] = directory[m] => Overview'[m] = Overview[m]
         /\ Overview[m]["role"] = (IF directory[m].isOwner THEN "owner" ELSE directory[m].binding)
         /\ Overview'[m]["role"] = (IF directory'[m].isOwner THEN "owner" ELSE directory'[m].binding)
         /\ Overview[m]["status"] = directory[m].status
         /\ Overview'[m]["status"] = directory'[m].status
         /\ Overview[m]["department"] = directory[m].department
         /\ Overview'[m]["department"] = directory'[m].department
BY DEF Overview, RoleOf

LEMMA MembersStart == Init => MembersInv
<1> SUFFICES ASSUME Init PROVE MembersInv
  OBVIOUS
<1> USE DEF Init, MembersInit
<1>1. directory \in [Members -> Membership] /\ rows = Overview
  BY MembersPageAssumption DEF Membership, Statuses, MemberRoles
<1>2. NoPatch \in PatchRecord /\ NoPatch.state = "none"
  BY DEF NoPatch, PatchRecord
<1>3. NoWrite \in WriteRecord /\ NoWrite.state = "none"
  BY DEF NoWrite, WriteRecord
<1>4. NoLoad \in LoadRecord /\ NoLoad.state = "none"
  BY DEF NoLoad, LoadRecord
<1>5. Overview \in Table
  <2>1. ASSUME NEW m \in Members
        PROVE  [role |-> RoleOf(m), status |-> directory[m].status,
                department |-> directory[m].department] \in Row
    <3>1. directory[m] \in Membership
      BY <1>1
    <3>2. RoleOf(m) \in Values /\ directory[m].status \in Values /\ directory[m].department \in Values
      BY <3>1 DEF RoleOf, Membership, Values, MemberRoles, Statuses
    <3> QED BY <3>2 DEF Row, Fields
  <2> QED BY <2>1 DEF Overview, Table
<1>6. MembersType
  BY <1>1, <1>2, <1>3, <1>4, <1>5 DEF MembersType, PatchIsDone, WriteIsDone
<1>7. CellsHold
  BY <1>1, <1>2 DEF CellsHold, CellHolds, PatchOn
<1>8. CleanHolds
  BY <1>4 DEF CleanHolds
<1> QED BY <1>6, <1>7, <1>8 DEF MembersInv

LEMMA MembersStutter == MembersInv /\ UNCHANGED membersVars => MembersInv'
BY SameOverview
DEF MembersInv, membersVars, MembersType, PatchIsDone, WriteIsDone, CellsHold, CellHolds,
    CleanHolds, PatchOn, WriteOn, Covered

\* A change begins: loads in flight show something older or newer than it.
LEMMA DisturbedLoads ==
  ASSUME MembersType, loads' = Disturbed
  PROVE  /\ loads' \in [LoadIds -> LoadRecord]
         /\ \A l \in LoadIds : /\ loads'[l].state = loads[l].state /\ ~loads'[l].clean
                               /\ loads'[l].covers = loads[l].covers /\ loads'[l].copy = loads[l].copy
BY DEF MembersType, Disturbed, LoadRecord

LEMMA SendPatchStep ==
  ASSUME MembersInv, NEW p \in PatchIds, NEW m \in Members, NEW f \in Fields, NEW v \in Values,
         (f = "role" /\ v \in MemberRoles) \/ (f = "status" /\ v \in Statuses), SendPatch(p, m, f, v)
  PROVE  MembersInv'
<1> USE DEF MembersInv
<1> DEFINE new == [state |-> "sent", member |-> m, field |-> f, value |-> v, previous |-> rows[m][f]]
<1>1. /\ patches[p].state = "none" /\ patches' = [patches EXCEPT ![p] = new]
      /\ rows' = [rows EXCEPT ![m][f] = v] /\ loads' = Disturbed
      /\ exposed' = exposed \union ({<<m, f>>} \cap (Patched \union Written))
      /\ UNCHANGED <<directory, writes>> /\ Overview' = Overview
  BY SameOverview DEF SendPatch
<1>2. rows[m][f] \in Values
  BY DEF MembersType, Table, Row
<1>3. /\ new \in PatchRecord /\ new.state = "sent" /\ new.member = m /\ new.field = f
      /\ new.value = v /\ new.previous = rows[m][f]
  BY <1>2 DEF PatchRecord
<1> HIDE DEF new
<1>4. /\ patches' \in [PatchIds -> PatchRecord] /\ patches'[p] = new
      /\ \A q \in PatchIds \ {p} : patches'[q] = patches[q]
  BY <1>1, <1>3 DEF MembersType
<1>5. /\ rows' \in Table
      /\ \A n \in Members, g \in Fields :
           rows'[n][g] = IF n = m /\ g = f THEN v ELSE rows[n][g]
  BY <1>1 DEF MembersType, Table, Row
<1>6. MembersType'
  <2>1. PatchIsDone(patches'[p])
    BY <1>2, <1>3, <1>4 DEF PatchIsDone
  <2> QED BY <1>1, <1>4, <1>5, <2>1, DisturbedLoads DEF MembersType, Cells
<1>7. CleanHolds'
  BY DisturbedLoads, <1>1 DEF CleanHolds
<1>8. ASSUME NEW n \in Members, NEW g \in Fields, <<n, g>> \notin exposed', ~Covered(n, g)'
      PROVE  CellHolds(n, g)'
  <2>1. CellHolds(n, g)
    BY <1>1, <1>8, DisturbedLoads DEF CellsHold, Covered
  <2>2. CASE n = m /\ g = f
    <3>1. (\A q \in PatchIds : ~PatchOn(q, m, f)) /\ (\A w \in WriteIds : ~WriteOn(w, m, f))
      BY <1>1, <1>8, <2>2, CellsOfChanges
    <3>2. rows[m][f] = Overview[m][f]
      BY <2>1, <2>2, <3>1 DEF CellHolds
    <3> QED BY <1>1, <1>3, <1>4, <1>5, <2>2, <3>1, <3>2 DEF CellHolds, PatchOn, WriteOn
  <2>3. CASE ~(n = m /\ g = f)
    <3>1. \A q \in PatchIds : PatchOn(q, n, g)' <=> PatchOn(q, n, g)
      BY <1>1, <1>3, <1>4, <2>3 DEF PatchOn
    <3>2. \A q \in PatchIds : PatchOn(q, n, g) => patches'[q] = patches[q]
      BY <1>1, <1>4 DEF PatchOn
    <3> QED BY <1>1, <1>5, <2>1, <2>3, <3>1, <3>2 DEF CellHolds, WriteOn
  <2> QED BY <2>2, <2>3
<1> QED BY <1>6, <1>7, <1>8 DEF CellsHold

LEMMA UpdateStep ==
  ASSUME MembersInv, NEW p \in PatchIds, UpdateRole(p) \/ UpdateStatus(p)
  PROVE  MembersInv'
<1>1. CASE UpdateRole(p)
  <2>1. RoleChoices \subseteq MemberRoles /\ MemberRoles \subseteq Values /\ "role" \in Fields
    BY MembersPageAssumption DEF Values, Fields
  <2> QED BY <1>1, <2>1, SendPatchStep DEF UpdateRole
<1>2. CASE UpdateStatus(p)
  <2>1. Statuses \subseteq Values /\ "status" \in Fields
    BY DEF Values, Fields, Statuses
  <2>2. PICK m \in Members : SendPatch(p, m, "status", IF rows[m].status = "suspended" THEN "active" ELSE "suspended")
    BY <1>2 DEF UpdateStatus
  <2>3. PICK v \in Statuses : v = IF rows[m].status = "suspended" THEN "active" ELSE "suspended"
    BY DEF Statuses
  <2> QED BY <2>1, <2>2, <2>3, SendPatchStep
<1> QED BY <1>1, <1>2

\* One patch goes on or ends; the loads stay.
LEMMA PatchGoesOn ==
  ASSUME MembersInv, NEW p \in PatchIds, NEW q \in PatchRecord, patches[p].state # "none",
         NEW m \in Members, m = patches[p].member, NEW f \in Fields, f = patches[p].field,
         patches' = [patches EXCEPT ![p] = q],
         q.state # "none" => /\ q.member = m /\ q.field = f
                             /\ q.value = patches[p].value /\ q.previous = patches[p].previous,
         UNCHANGED <<writes, loads>>, directory' \in [Members -> Membership], rows' \in Table,
         exposed \subseteq exposed', exposed' \subseteq Cells,
         \A n \in Members, g \in Fields :
           \/ n = m /\ g = f
           \/ rows'[n][g] = rows[n][g] /\ Overview'[n][g] = Overview[n][g],
         \/ <<m, f>> \in exposed'
         \/ /\ q.state = "none"
            /\ CellHolds(m, f) => rows'[m][f] = Overview'[m][f]
         \/ /\ q.state = "applied" /\ UNCHANGED rows
            /\ Overview'[m][f] = q.value
  PROVE  MembersInv'
<1> USE DEF MembersInv
<1>1. /\ \A r \in PatchIds : patches'[r] = IF r = p THEN q ELSE patches[r]
      /\ patches' \in [PatchIds -> PatchRecord]
  BY DEF MembersType, PatchIsDone
<1>2. MembersType'
  <2>1. PatchIsDone(q)
    BY DEF MembersType, PatchIsDone
  <2> QED BY <1>1, <2>1 DEF MembersType
<1>3. CleanHolds'
  BY DEF CleanHolds
<1>4. ASSUME NEW n \in Members, NEW g \in Fields, <<n, g>> \notin exposed', ~Covered(n, g)'
      PROVE  CellHolds(n, g)'
  <2>1. CellHolds(n, g)
    BY <1>4 DEF CellsHold, Covered
  <2>2. CASE n = m /\ g = f
    <3>1. PatchOn(p, m, f)
      BY DEF PatchOn
    <3>2. \A r \in PatchIds : PatchOn(r, m, f) => r = p
      BY <2>1, <2>2, <3>1 DEF CellHolds
    <3>3. (\A w \in WriteIds : ~WriteOn(w, m, f)) /\ rows[m][f] = patches[p].value
      BY <2>1, <2>2, <3>1 DEF CellHolds
    <3>4. \A w \in WriteIds : ~WriteOn(w, m, f)'
      BY <3>3 DEF WriteOn
    <3>5. CASE q.state = "none" /\ (CellHolds(m, f) => rows'[m][f] = Overview'[m][f])
      <4>1. \A r \in PatchIds : ~PatchOn(r, m, f)'
        BY <1>1, <3>2, <3>5 DEF PatchOn
      <4> QED BY <2>1, <2>2, <3>5, <4>1 DEF CellHolds
    <3>6. CASE q.state = "applied" /\ rows' = rows /\ Overview'[m][f] = q.value
      <4>1. PatchOn(p, m, f)' /\ patches'[p] = q
        BY <1>1, <3>6 DEF PatchOn
      <4>2. \A r \in PatchIds : PatchOn(r, m, f)' => r = p
        BY <1>1, <3>2 DEF PatchOn
      <4> QED BY <2>2, <3>3, <3>4, <3>6, <4>1, <4>2 DEF CellHolds
    <3> QED BY <1>4, <2>2, <3>5, <3>6
  <2>3. CASE ~(n = m /\ g = f)
    <3>1. \A r \in PatchIds : PatchOn(r, n, g)' <=> PatchOn(r, n, g)
      BY <1>1, <2>3 DEF PatchOn
    <3>2. \A r \in PatchIds : PatchOn(r, n, g) => patches'[r] = patches[r]
      BY <1>1, <2>3 DEF PatchOn
    <3>3. rows'[n][g] = rows[n][g] /\ Overview'[n][g] = Overview[n][g]
      BY <2>3
    <3> QED BY <2>1, <3>1, <3>2, <3>3 DEF CellHolds, WriteOn
  <2> QED BY <2>2, <2>3
<1> QED BY <1>2, <1>3, <1>4 DEF CellsHold

\* The change of a role or a status is one of that cell alone.
LEMMA ChangedMembership ==
  ASSUME MembersType, NEW m \in Members, NEW f \in Fields, NEW v \in Values,
         (f = "role" /\ v \in MemberRoles) \/ (f = "status" /\ v \in Statuses),
         directory' = [n \in Members |-> IF n = m THEN Changed(directory[m], f, v) ELSE directory[n]]
  PROVE  /\ directory' \in [Members -> Membership]
         /\ \A n \in Members, g \in Fields :
              Overview'[n][g] = IF n = m /\ g = f THEN v ELSE Overview[n][g]
<1>1. directory \in [Members -> Membership] /\ directory[m] \in Membership
  BY DEF MembersType
<1>2. /\ Changed(directory[m], f, v) \in Membership
      /\ Changed(directory[m], f, v).department = directory[m].department
      /\ f = "role" => /\ Changed(directory[m], f, v).isOwner = (v = "owner")
                       /\ Changed(directory[m], f, v).binding = v
                       /\ Changed(directory[m], f, v).status = directory[m].status
      /\ f = "status" => /\ Changed(directory[m], f, v).isOwner = directory[m].isOwner
                         /\ Changed(directory[m], f, v).binding = directory[m].binding
                         /\ Changed(directory[m], f, v).status = v
  <2>1. CASE f = "role"
    BY <1>1, <2>1 DEF Changed, Membership
  <2>2. CASE f = "status"
    BY <1>1, <2>2 DEF Changed, Membership
  <2> QED BY <2>1, <2>2
<1>3. /\ directory' \in [Members -> Membership] /\ directory'[m] = Changed(directory[m], f, v)
      /\ \A n \in Members \ {m} : directory'[n] = directory[n]
  BY <1>1, <1>2
<1>4. ASSUME NEW n \in Members, NEW g \in Fields
      PROVE  Overview'[n][g] = IF n = m /\ g = f THEN v ELSE Overview[n][g]
  <2>1. CASE n # m
    BY <1>3, <2>1, OverviewOfMember
  <2>2. CASE n = m /\ g = "role"
    BY <1>2, <1>3, <2>2, OverviewOfMember
  <2>3. CASE n = m /\ g = "status"
    BY <1>2, <1>3, <2>3, OverviewOfMember
  <2>4. CASE n = m /\ g = "department"
    BY <1>2, <1>3, <2>4, OverviewOfMember
  <2> QED BY <2>1, <2>2, <2>3, <2>4 DEF Fields
<1> QED BY <1>3, <1>4

LEMMA PatchStep ==
  ASSUME MembersInv, NEW p \in PatchIds, ApplyPatch(p) \/ ConfirmPatch(p) \/ RollBack(p)
  PROVE  MembersInv'
<1> USE DEF MembersInv
<1>1. /\ patches[p] \in PatchRecord /\ patches[p].state # "none" /\ PatchIsDone(patches[p])
  BY DEF MembersType, ApplyPatch, ConfirmPatch, RollBack
<1>2. PICK m \in Members, f \in Fields :
        /\ m = patches[p].member /\ f = patches[p].field /\ PatchOn(p, m, f)
        /\ patches[p].value \in Values /\ patches[p].previous \in Values
        /\ \/ f = "role" /\ patches[p].value \in MemberRoles
           \/ f = "status" /\ patches[p].value \in Statuses
  BY <1>1 DEF PatchIsDone, PatchOn, Fields, Values, Statuses
<1>3. NoPatch \in PatchRecord /\ NoPatch.state = "none"
  BY DEF NoPatch, PatchRecord
<1>4. directory \in [Members -> Membership] /\ rows \in Table /\ exposed \subseteq Cells
  BY DEF MembersType
<1>5. CASE ApplyPatch(p)
  <2> DEFINE q == [patches[p] EXCEPT !.state = "applied"]
  <2>1. /\ q \in PatchRecord /\ q.state = "applied" /\ q.member = m /\ q.field = f
        /\ q.value = patches[p].value /\ q.previous = patches[p].previous
    BY <1>1, <1>2 DEF PatchRecord
  <2>2. /\ patches' = [patches EXCEPT ![p] = q]
        /\ directory' = [directory EXCEPT ![m] = Changed(directory[m], f, patches[p].value)]
        /\ UNCHANGED <<rows, writes, loads, exposed>>
    BY <1>2, <1>5 DEF ApplyPatch
  <2> HIDE DEF q
  <2>3. directory' = [n \in Members |-> IF n = m THEN Changed(directory[m], f, patches[p].value)
                                       ELSE directory[n]]
    BY <1>4, <2>2
  <2>4. /\ directory' \in [Members -> Membership]
        /\ \A n \in Members, g \in Fields :
             Overview'[n][g] = IF n = m /\ g = f THEN patches[p].value ELSE Overview[n][g]
    BY <1>2, <2>3, ChangedMembership
  <2>5. \A n \in Members, g \in Fields :
          \/ n = m /\ g = f
          \/ rows'[n][g] = rows[n][g] /\ Overview'[n][g] = Overview[n][g]
    BY <2>2, <2>4
  <2>6. UNCHANGED rows /\ Overview'[m][f] = q.value /\ rows' \in Table
    BY <1>4, <2>1, <2>2, <2>4
  <2>7. UNCHANGED <<writes, loads>> /\ exposed \subseteq exposed' /\ exposed' \subseteq Cells
    BY <1>4, <2>2
  <2> QED BY <1>1, <1>2, <2>1, <2>2, <2>4, <2>5, <2>6, <2>7, PatchGoesOn
<1>6. CASE ConfirmPatch(p)
  <2>1. CellHolds(m, f) => rows[m][f] = Overview[m][f]
    BY <1>2, <1>6 DEF CellHolds, ConfirmPatch
  <2>2. UNCHANGED <<directory, rows, exposed>> /\ Overview' = Overview
    BY <1>6, SameOverview DEF ConfirmPatch
  <2> QED BY <1>1, <1>2, <1>3, <1>4, <1>6, <2>1, <2>2, PatchGoesOn DEF ConfirmPatch
<1>7. CASE RollBack(p)
  <2>1. /\ patches' = [patches EXCEPT ![p] = NoPatch]
        /\ rows' = [rows EXCEPT ![m][f] = patches[p].previous]
        /\ exposed' = exposed \union (IF patches[p].state = "applied" THEN {<<m, f>>} ELSE {})
        /\ UNCHANGED <<directory, writes, loads>>
    BY <1>1, <1>2, <1>7 DEF RollBack
  <2>2. Overview' = Overview
    BY <2>1, SameOverview
  <2>3. /\ rows' \in Table
        /\ \A n \in Members, g \in Fields :
             rows'[n][g] = IF n = m /\ g = f THEN patches[p].previous ELSE rows[n][g]
    BY <1>2, <1>4, <2>1 DEF Table, Row
  <2>4. exposed \subseteq exposed' /\ exposed' \subseteq Cells
    BY <1>4, <2>1 DEF Cells
  <2>5. <<m, f>> \in exposed' \/ (CellHolds(m, f) => rows'[m][f] = Overview'[m][f])
    <3>1. patches[p].state = "applied" => <<m, f>> \in exposed'
      BY <2>1
    <3>2. patches[p].state = "sent" \/ patches[p].state = "applied"
      BY <1>1 DEF PatchRecord
    <3>3. CASE patches[p].state = "sent"
      BY <1>2, <2>3, <2>2, <3>3 DEF CellHolds
    <3> QED BY <3>1, <3>2, <3>3
  <2>6. \A n \in Members, g \in Fields :
          \/ n = m /\ g = f
          \/ rows'[n][g] = rows[n][g] /\ Overview'[n][g] = Overview[n][g]
    BY <2>3, <2>2
  <2>7. UNCHANGED <<writes, loads>> /\ directory' \in [Members -> Membership]
    BY <1>4, <2>1
  <2>8. PICK q \in PatchRecord : q = NoPatch
    BY <1>3
  <2>9. /\ patches' = [patches EXCEPT ![p] = q] /\ q.state = "none"
        /\ patches[p].state # "none" /\ m = patches[p].member /\ f = patches[p].field
    BY <1>1, <1>2, <1>3, <2>1, <2>8
  <2> QED BY <2>3, <2>4, <2>5, <2>6, <2>7, <2>9, PatchGoesOn
<1> QED BY <1>5, <1>6, <1>7

---------------------------------------------------------------------------
(* Loads of the table.                                                     *)

LEMMA AfterStart ==
  ASSUME MembersType, NEW l \in LoadIds, NEW after \in SUBSET WriteIds, StartLoad(l, after),
         \A w \in after : writes[w].state # "none"
  PROVE  /\ loads[l].state = "none" /\ loads' \in [LoadIds -> LoadRecord]
         /\ \A k \in LoadIds \ {l} : loads'[k] = loads[k]
         /\ loads'[l].state = "asked"
         /\ \A m \in Members, f \in Fields, w \in after :
              m \in writes[w].members /\ FieldOf(writes[w].kind) = f => <<m, f>> \in loads'[l].covers
         /\ loads'[l].clean => /\ \A p \in PatchIds : patches[p].state = "none"
                               /\ \A w \in WriteIds \ after : writes[w].state = "none"
<1> DEFINE still == Patched = {} /\ \A w \in WriteIds \ after : writes[w].state = "none"
           covers == UNION {CellsOf(w) : w \in after}
           new == [state |-> "asked", copy |-> None, covers |-> covers, clean |-> still]
<1>1. loads[l].state = "none" /\ loads' = [loads EXCEPT ![l] = new]
  BY DEF StartLoad
<1>2. /\ still \in BOOLEAN
      /\ still => /\ \A p \in PatchIds : patches[p].state = "none"
                  /\ \A w \in WriteIds \ after : writes[w].state = "none"
  <2>1. Patched = {} => \A p \in PatchIds : patches[p].state = "none"
    BY DEF Patched
  <2> QED BY <2>1 DEF MembersType
<1>3. covers \in SUBSET Cells
  <2>1. ASSUME NEW w \in after PROVE CellsOf(w) \subseteq Cells
    <3>1. writes[w] \in WriteRecord /\ FieldOf(writes[w].kind) \in Fields
      BY DEF MembersType, FieldOf, Fields
    <3> QED BY <3>1 DEF CellsOf, CellsOfRequest, Cells, WriteRecord
  <2> QED BY <2>1
<1>4. ASSUME NEW m \in Members, NEW f \in Fields, NEW w \in after,
             m \in writes[w].members, FieldOf(writes[w].kind) = f
      PROVE  <<m, f>> \in covers
  <2>1. <<m, f>> \in CellsOf(w)
    BY <1>4 DEF CellsOf, CellsOfRequest
  <2> QED BY <2>1
<1> HIDE DEF still, covers
<1>5. /\ new \in LoadRecord /\ new.state = "asked" /\ new.covers = covers /\ new.clean = still
  BY <1>2, <1>3 DEF LoadRecord
<1> HIDE DEF new
<1>6. loads' \in [LoadIds -> LoadRecord] /\ \A k \in LoadIds : loads'[k] = IF k = l THEN new ELSE loads[k]
  BY <1>1, <1>5 DEF MembersType
<1> QED BY <1>1, <1>2, <1>4, <1>5, <1>6

LEMMA ReloadStep == ASSUME MembersInv, NEW l \in LoadIds, Reload(l) PROVE MembersInv'
<1> USE DEF MembersInv
<1>1. /\ StartLoad(l, {}) /\ UNCHANGED <<directory, rows, patches, writes, exposed>>
      /\ Overview' = Overview
  BY SameOverview DEF Reload
<1>2. /\ loads[l].state = "none" /\ loads' \in [LoadIds -> LoadRecord]
      /\ \A k \in LoadIds \ {l} : loads'[k] = loads[k]
      /\ loads'[l].state = "asked"
      /\ loads'[l].clean => /\ \A p \in PatchIds : patches[p].state = "none"
                            /\ \A w \in WriteIds : writes[w].state = "none"
  BY <1>1, AfterStart
<1>3. MembersType'
  BY <1>1, <1>2 DEF MembersType
<1>4. CleanHolds'
  BY <1>1, <1>2 DEF CleanHolds
<1>5. CellsHold'
  <2>1. ASSUME NEW m \in Members, NEW f \in Fields PROVE Covered(m, f) => Covered(m, f)'
    BY <1>2 DEF Covered
  <2>2. ASSUME NEW m \in Members, NEW f \in Fields PROVE CellHolds(m, f) => CellHolds(m, f)'
    BY <1>1 DEF CellHolds, PatchOn, WriteOn
  <2> QED BY <1>1, <2>1, <2>2 DEF CellsHold
<1> QED BY <1>3, <1>4, <1>5

LEMMA ReadStep == ASSUME MembersInv, NEW l \in LoadIds, ReadOrganization(l) PROVE MembersInv'
<1> USE DEF MembersInv
<1> DEFINE half == [loads[l] EXCEPT !.state = "read"]
           new == [half EXCEPT !.copy = Overview]
<1>1. /\ loads[l].state = "asked" /\ loads' = [loads EXCEPT ![l] = new]
      /\ UNCHANGED <<directory, rows, patches, writes, exposed>> /\ Overview' = Overview
  BY SameOverview DEF ReadOrganization
<1>2. Overview \in Table /\ loads[l] \in LoadRecord
  BY OverviewIsATable DEF MembersType
<1>3. half \in LoadRecord /\ half.state = "read" /\ half.clean = loads[l].clean /\ half.covers = loads[l].covers
  BY <1>2 DEF LoadRecord
<1> HIDE DEF half
<1>4. /\ new \in LoadRecord /\ new.state = "read" /\ new.clean = loads[l].clean
      /\ new.covers = loads[l].covers /\ new.copy = Overview
  BY <1>2, <1>3 DEF LoadRecord
<1> HIDE DEF new
<1>5. /\ loads' \in [LoadIds -> LoadRecord]
      /\ \A k \in LoadIds : loads'[k] = IF k = l THEN new ELSE loads[k]
  BY <1>1, <1>4 DEF MembersType
<1>6. MembersType'
  BY <1>1, <1>2, <1>4, <1>5 DEF MembersType
<1>7. CleanHolds'
  BY <1>1, <1>4, <1>5 DEF CleanHolds
<1>8. CellsHold'
  <2>1. ASSUME NEW m \in Members, NEW f \in Fields PROVE Covered(m, f) => Covered(m, f)'
    BY <1>1, <1>4, <1>5 DEF Covered
  <2>2. ASSUME NEW m \in Members, NEW f \in Fields PROVE CellHolds(m, f) => CellHolds(m, f)'
    BY <1>1 DEF CellHolds, PatchOn, WriteOn
  <2> QED BY <1>1, <2>1, <2>2 DEF CellsHold
<1> QED BY <1>6, <1>7, <1>8

\* A load ends: what it covered is exposed, or all of the table is, or the table is what the
\* server holds.
LEMMA EndOfLoad ==
  ASSUME MembersInv, NEW l \in LoadIds, loads' = [loads EXCEPT ![l] = NoLoad]
  PROVE  /\ loads' \in [LoadIds -> LoadRecord] /\ loads'[l].state = "none"
         /\ \A k \in LoadIds \ {l} : loads'[k] = loads[k]
<1>1. NoLoad \in LoadRecord /\ NoLoad.state = "none"
  BY DEF NoLoad, LoadRecord
<1> QED BY <1>1 DEF MembersInv, MembersType

LEMMA ShowStep == ASSUME MembersInv, NEW l \in LoadIds, ShowOrganization(l) PROVE MembersInv'
<1> USE DEF MembersInv
<1>1. /\ loads[l].state = "read" /\ rows' = loads[l].copy
      /\ exposed' = (IF loads[l].clean THEN {} ELSE Cells)
      /\ UNCHANGED <<directory, patches, writes>>
      /\ loads' = [loads EXCEPT ![l] = NoLoad] /\ Overview' = Overview
  BY SameOverview DEF ShowOrganization
<1>2. MembersType'
  BY <1>1, EndOfLoad DEF MembersType
<1>3. CleanHolds'
  BY <1>1, EndOfLoad DEF CleanHolds
<1>4. CellsHold'
  <2>1. CASE ~loads[l].clean
    BY <1>1, <2>1 DEF CellsHold, Cells
  <2>2. CASE loads[l].clean
    <3>1. /\ rows' = Overview' /\ \A p \in PatchIds : patches'[p].state = "none"
      BY <1>1, <2>2 DEF CleanHolds
    <3> QED BY <3>1 DEF CellsHold, CellHolds, PatchOn
  <2> QED BY <2>1, <2>2
<1> QED BY <1>2, <1>3, <1>4

LEMMA FailLoadStep == ASSUME MembersInv, NEW l \in LoadIds, FailLoad(l) PROVE MembersInv'
<1> USE DEF MembersInv
<1>1. /\ exposed' = exposed \union loads[l].covers /\ loads' = [loads EXCEPT ![l] = NoLoad]
      /\ UNCHANGED <<directory, rows, patches, writes>> /\ Overview' = Overview
  BY SameOverview DEF FailLoad
<1>2. MembersType'
  BY <1>1, EndOfLoad DEF MembersType, LoadRecord
<1>3. CleanHolds'
  BY <1>1, EndOfLoad DEF CleanHolds
<1>4. CellsHold'
  <2>1. ASSUME NEW m \in Members, NEW f \in Fields, <<m, f>> \notin exposed'
        PROVE  Covered(m, f) => Covered(m, f)'
    BY <1>1, <2>1, EndOfLoad DEF Covered
  <2>2. ASSUME NEW m \in Members, NEW f \in Fields PROVE CellHolds(m, f) => CellHolds(m, f)'
    BY <1>1 DEF CellHolds, PatchOn, WriteOn
  <2> QED BY <1>1, <2>1, <2>2 DEF CellsHold
<1> QED BY <1>2, <1>3, <1>4
---------------------------------------------------------------------------
(* The batch and the forms.                                                *)

LEMMA RequestIsDone ==
  ASSUME NEW which \in {"batch", "dialog"}, NEW kind \in Kinds, NEW members \in SUBSET Members,
         NEW value, \/ kind = "department" /\ value \in Departments
                    \/ kind = "roles" /\ value \in MemberRoles
                    \/ kind = "transfer" /\ value \in Members
  PROVE  /\ Request(which, kind, members, value) \in WriteRecord
         /\ Request(which, kind, members, value).state = "sent"
         /\ WriteIsDone(Request(which, kind, members, value))
BY DEF Request, WriteRecord, WriteIsDone, Values

LEMMA SubmitWritesStep ==
  ASSUME MembersInv, NEW which, NEW S \in SUBSET WriteIds, NEW new \in [S -> WriteRecord],
         \A w \in S : new[w].state = "sent" /\ WriteIsDone(new[w]), Submit(which, new)
  PROVE  MembersInv'
<1> USE DEF MembersInv
<1> DEFINE sent == UNION {CellsOfRequest(new[w]) : w \in DOMAIN new}
<1>1. /\ \A w \in S : writes[w].state = "none"
      /\ writes' = [w \in WriteIds |-> IF w \in S THEN new[w] ELSE writes[w]]
      /\ exposed' = exposed \union (sent \cap (Patched \union Written))
      /\ loads' = Disturbed /\ UNCHANGED <<directory, rows, patches>> /\ Overview' = Overview
  BY SameOverview DEF Submit
<1> HIDE DEF sent
<1>2. /\ writes' \in [WriteIds -> WriteRecord]
      /\ \A w \in S : writes'[w] = new[w]
      /\ \A w \in WriteIds \ S : writes'[w] = writes[w]
  BY <1>1 DEF MembersType
<1>3. MembersType'
  <2>1. \A w \in WriteIds : WriteIsDone(writes'[w])
    BY <1>2 DEF MembersType
  <2>2. exposed' \subseteq Cells
    <3>1. \A w \in S : CellsOfRequest(new[w]) \subseteq Cells
      BY DEF CellsOfRequest, Cells, WriteRecord, FieldOf, Fields
    <3> QED BY <1>1, <3>1 DEF MembersType, sent
  <2> QED BY <1>1, <1>2, <2>1, <2>2, DisturbedLoads DEF MembersType
<1>4. CleanHolds'
  BY <1>1, DisturbedLoads DEF CleanHolds
<1>5. ASSUME NEW n \in Members, NEW g \in Fields, <<n, g>> \notin exposed', ~Covered(n, g)'
      PROVE  CellHolds(n, g)'
  <2>1. CellHolds(n, g)
    BY <1>1, <1>5, DisturbedLoads DEF CellsHold, Covered
  <2>2. CASE \E w \in S : n \in new[w].members /\ FieldOf(new[w].kind) = g
    <3>1. PICK w \in S : <<n, g>> \in CellsOfRequest(new[w])
      BY <2>2 DEF CellsOfRequest
    <3>2. <<n, g>> \in sent
      BY <3>1 DEF sent
    <3>3. <<n, g>> \notin Patched \union Written
      BY <1>1, <1>5, <3>2
    <3>4. (\A q \in PatchIds : ~PatchOn(q, n, g)) /\ (\A v \in WriteIds : ~WriteOn(v, n, g))
      BY <3>3, CellsOfChanges
    <3>5. rows[n][g] = Overview[n][g]
      BY <2>1, <3>4 DEF CellHolds
    <3>6. \A q \in PatchIds : ~PatchOn(q, n, g)'
      BY <1>1, <3>4 DEF PatchOn
    <3> QED BY <1>1, <3>5, <3>6 DEF CellHolds
  <2>3. CASE ~\E w \in S : n \in new[w].members /\ FieldOf(new[w].kind) = g
    <3>1. \A v \in WriteIds : WriteOn(v, n, g)' <=> WriteOn(v, n, g)
      BY <1>1, <1>2, <2>3 DEF WriteOn
    <3>2. \A v \in WriteIds : WriteOn(v, n, g) => writes'[v] = writes[v]
      BY <1>1, <1>2 DEF WriteOn
    <3> QED BY <1>1, <2>1, <3>1, <3>2 DEF CellHolds, PatchOn
  <2> QED BY <2>2, <2>3
<1> QED BY <1>3, <1>4, <1>5 DEF CellsHold

LEMMA WriteBeginsStep ==
  ASSUME MembersInv, BatchAssign \/ SaveMember \/ TransferOwnership PROVE MembersInv'
<1>1. Kinds = {"department", "roles", "transfer"} /\ Self \in Members /\ RoleChoices \subseteq MemberRoles
  BY MembersPageAssumption DEF Kinds
<1>2. CASE BatchAssign
  <2>1. PICK w \in WriteIds, ticked \in Selections, d \in Departments :
          Submit("batch", [v \in {w} |-> Request("batch", "department", ticked, d)])
    BY <1>2 DEF BatchAssign
  <2>2. ticked \in SUBSET Members
    BY DEF Selections
  <2> DEFINE new == [v \in {w} |-> Request("batch", "department", ticked, d)]
  <2>3. new \in [{w} -> WriteRecord] /\ \A v \in {w} : new[v].state = "sent" /\ WriteIsDone(new[v])
    BY <1>1, <2>2, RequestIsDone
  <2> HIDE DEF new
  <2>4. Submit("batch", new)
    BY <2>1 DEF new
  <2> QED BY <2>3, <2>4, SubmitWritesStep
<1>3. CASE SaveMember
  <2>1. PICK w, u \in WriteIds, m \in Members, d \in Departments, role \in RoleChoices :
          w # u /\ Submit("dialog", [x \in {w, u} |-> IF x = w THEN Request("dialog", "department", {m}, d)
                                                       ELSE Request("dialog", "roles", {m}, role)])
    BY <1>3 DEF SaveMember
  <2>2. {m} \in SUBSET Members /\ role \in MemberRoles
    BY <1>1
  <2> DEFINE new == [x \in {w, u} |-> IF x = w THEN Request("dialog", "department", {m}, d)
                                      ELSE Request("dialog", "roles", {m}, role)]
  <2>3. /\ new \in [{w, u} -> WriteRecord]
        /\ \A v \in {w, u} : new[v].state = "sent" /\ WriteIsDone(new[v])
    BY <1>1, <2>2, RequestIsDone
  <2> HIDE DEF new
  <2>4. Submit("dialog", new)
    BY <2>1 DEF new
  <2> QED BY <2>3, <2>4, SubmitWritesStep
<1>4. CASE TransferOwnership
  <2>1. PICK w \in WriteIds, m \in Members \ {Self} :
          Submit("dialog", [v \in {w} |-> Request("dialog", "transfer", {Self, m}, m)])
    BY <1>4 DEF TransferOwnership
  <2>2. {Self, m} \in SUBSET Members
    BY <1>1
  <2> DEFINE new == [v \in {w} |-> Request("dialog", "transfer", {Self, m}, m)]
  <2>3. new \in [{w} -> WriteRecord] /\ \A v \in {w} : new[v].state = "sent" /\ WriteIsDone(new[v])
    BY <1>1, <2>2, RequestIsDone
  <2> HIDE DEF new
  <2>4. Submit("dialog", new)
    BY <2>1 DEF new
  <2> QED BY <2>3, <2>4, SubmitWritesStep
<1> QED BY <1>2, <1>3, <1>4

\* A request changes the column it is about, of the members it is about.
LEMMA RewrittenMembership ==
  ASSUME MembersType, NEW q \in WriteRecord, WriteIsDone(q), q.state # "none",
         directory' = [m \in Members |-> IF m \in q.members THEN Rewritten(m, q) ELSE directory[m]]
  PROVE  /\ directory' \in [Members -> Membership]
         /\ \A n \in Members, g \in Fields :
              Overview'[n][g] = Overview[n][g] \/ (n \in q.members /\ g = FieldOf(q.kind))
<1>1. ASSUME NEW m \in Members
      PROVE  /\ directory[m] \in Membership /\ Rewritten(m, q) \in Membership
             /\ Rewritten(m, q).status = directory[m].status
             /\ q.kind = "department" => /\ Rewritten(m, q).isOwner = directory[m].isOwner
                                         /\ Rewritten(m, q).binding = directory[m].binding
             /\ q.kind # "department" => Rewritten(m, q).department = directory[m].department
  <2>1. directory[m] \in Membership
    BY DEF MembersType
  <2>2. CASE q.kind = "department"
    BY <2>1, <2>2 DEF Rewritten, Membership, WriteIsDone
  <2>3. CASE q.kind = "roles"
    BY <2>1, <2>3 DEF Rewritten, Membership, WriteIsDone
  <2>4. CASE q.kind = "transfer"
    BY <2>1, <2>4 DEF Rewritten, Membership, WriteIsDone, MemberRoles
  <2> QED BY <2>1, <2>2, <2>3, <2>4 DEF WriteIsDone
<1>2. /\ directory' \in [Members -> Membership]
      /\ \A m \in Members : directory'[m] = IF m \in q.members THEN Rewritten(m, q) ELSE directory[m]
  BY <1>1
<1>3. ASSUME NEW n \in Members, NEW g \in Fields, ~(n \in q.members /\ g = FieldOf(q.kind))
      PROVE  Overview'[n][g] = Overview[n][g]
  <2>1. CASE n \notin q.members
    BY <1>2, <2>1, OverviewOfMember
  <2>2. CASE n \in q.members /\ q.kind = "department"
    <3>1. g \in {"role", "status"}
      BY <1>3, <2>2 DEF FieldOf, Fields
    <3> QED BY <1>1, <1>2, <2>2, <3>1, OverviewOfMember
  <2>3. CASE n \in q.members /\ q.kind # "department"
    <3>1. g \in {"status", "department"}
      BY <1>3, <2>3 DEF FieldOf, Fields
    <3> QED BY <1>1, <1>2, <2>3, <3>1, OverviewOfMember
  <2> QED BY <2>1, <2>2, <2>3
<1> QED BY <1>2, <1>3

LEMMA ApplyWriteStep == ASSUME MembersInv, NEW w \in WriteIds, ApplyWrite(w) PROVE MembersInv'
<1> USE DEF MembersInv
<1> DEFINE q == writes[w]
           new == [q EXCEPT !.state = "applied"]
<1>1. /\ q.state = "sent" /\ writes' = [writes EXCEPT ![w] = new]
      /\ directory' = [m \in Members |-> IF m \in q.members THEN Rewritten(m, q) ELSE directory[m]]
      /\ UNCHANGED <<rows, patches, loads, exposed>>
  BY DEF ApplyWrite
<1>2. q \in WriteRecord /\ WriteIsDone(q) /\ q.members \subseteq Members
  BY DEF MembersType, WriteRecord
<1>3. /\ new \in WriteRecord /\ new.state = "applied" /\ new.members = q.members
      /\ new.kind = q.kind /\ new.value = q.value
  BY <1>2 DEF WriteRecord
<1> HIDE DEF new
<1>4. /\ directory' \in [Members -> Membership]
      /\ \A n \in Members, g \in Fields :
           Overview'[n][g] = Overview[n][g] \/ (n \in q.members /\ g = FieldOf(q.kind))
  BY <1>1, <1>2, RewrittenMembership
<1>5. /\ writes' \in [WriteIds -> WriteRecord] /\ writes'[w] = new
      /\ \A v \in WriteIds \ {w} : writes'[v] = writes[v]
  BY <1>1, <1>3 DEF MembersType
<1>6. WriteIsDone(new)
  BY <1>1, <1>2, <1>3 DEF WriteIsDone
<1>7. MembersType'
  BY <1>1, <1>4, <1>5, <1>6 DEF MembersType
<1>8. CleanHolds'
  BY <1>1 DEF CleanHolds
<1>9. ASSUME NEW n \in Members, NEW g \in Fields, <<n, g>> \notin exposed', ~Covered(n, g)'
      PROVE  CellHolds(n, g)'
  <2>1. CellHolds(n, g)
    BY <1>1, <1>9 DEF CellsHold, Covered
  <2>2. CASE n \in q.members /\ g = FieldOf(q.kind)
    <3>1. WriteOn(w, n, g) /\ WriteOn(w, n, g)'
      BY <1>1, <1>3, <1>5, <2>2 DEF WriteOn
    <3>2. \A p \in PatchIds : ~PatchOn(p, n, g)
      BY <2>1, <3>1 DEF CellHolds
    <3>3. \A p \in PatchIds : ~PatchOn(p, n, g)'
      BY <1>1, <3>2 DEF PatchOn
    <3> QED BY <1>3, <1>5, <3>1, <3>3 DEF CellHolds
  <2>3. CASE ~(n \in q.members /\ g = FieldOf(q.kind))
    <3>1. ~WriteOn(w, n, g) /\ ~WriteOn(w, n, g)'
      BY <1>3, <1>5, <2>3 DEF WriteOn
    <3>2. \A v \in WriteIds : WriteOn(v, n, g)' <=> WriteOn(v, n, g)
      BY <1>5, <3>1 DEF WriteOn
    <3>3. \A v \in WriteIds : WriteOn(v, n, g) => writes'[v] = writes[v]
      BY <1>5, <3>1
    <3>4. Overview'[n][g] = Overview[n][g]
      BY <1>4, <2>3
    <3> QED BY <1>1, <2>1, <3>2, <3>3, <3>4 DEF CellHolds, PatchOn
  <2> QED BY <2>2, <2>3
<1> QED BY <1>7, <1>8, <1>9 DEF CellsHold

\* Requests end, of the others at most the form is forgotten.  The cells of those that ended
\* are covered by the load that follows, or exposed, or the server never made the change.
SameRequest(q, r) ==
  r.state = q.state /\ r.members = q.members /\ r.kind = q.kind /\ r.value = q.value

LEMMA EndOfWrites ==
  ASSUME MembersInv, NEW S \in SUBSET WriteIds, writes' \in [WriteIds -> WriteRecord],
         \A v \in S : writes'[v] = NoWrite,
         \A v \in WriteIds \ S : SameRequest(writes[v], writes'[v]),
         UNCHANGED <<directory, rows, patches>>
  PROVE  /\ \A v \in WriteIds : WriteIsDone(writes'[v])
         /\ \A v \in S : writes'[v].state = "none"
         /\ \A v \in WriteIds : writes[v].state = "none" => writes'[v].state = "none"
         /\ Overview' = Overview
         /\ \A n \in Members, g \in Fields :
              CellHolds(n, g) =>
                CellHolds(n, g)' \/ \E w \in S : WriteOn(w, n, g) /\ writes[w].state = "applied"
<1> USE DEF MembersInv
<1>1. (\A v \in S : writes'[v].state = "none") /\ Overview' = Overview
  BY SameOverview DEF NoWrite
<1>2. \A v \in WriteIds : /\ WriteIsDone(writes'[v])
                          /\ writes[v].state = "none" => writes'[v].state = "none"
  BY <1>1 DEF MembersType, WriteIsDone, SameRequest
<1>3. ASSUME NEW n \in Members, NEW g \in Fields, CellHolds(n, g),
             ~\E w \in S : WriteOn(w, n, g) /\ writes[w].state = "applied"
      PROVE  CellHolds(n, g)'
  <2>1. \A v \in WriteIds : WriteOn(v, n, g)' <=> WriteOn(v, n, g) /\ v \notin S
    BY <1>1 DEF WriteOn, SameRequest
  <2>2. \A v \in WriteIds \ S : writes'[v].state = writes[v].state
    BY DEF SameRequest
  <2>3. \A p \in PatchIds : PatchOn(p, n, g)' <=> PatchOn(p, n, g)
    BY DEF PatchOn
  <2>4. (\E w \in WriteIds : WriteOn(w, n, g) /\ writes[w].state = "applied")
          => \E w \in WriteIds : WriteOn(w, n, g)' /\ writes'[w].state = "applied"
    BY <1>3, <2>1, <2>2
  <2> QED BY <1>1, <1>3, <2>1, <2>3, <2>4 DEF CellHolds
<1> QED BY <1>1, <1>2, <1>3

LEMMA FinishWritesStep ==
  ASSUME MembersInv, NEW which, NEW l \in LoadIds, FinishWrites(which, l) PROVE MembersInv'
<1> USE DEF MembersInv
<1> DEFINE S == Of(which)
<1>1. /\ \A w \in S : writes[w].state = "applied"
      /\ S \in SUBSET WriteIds /\ StartLoad(l, S)
      /\ writes' = [w \in WriteIds |-> IF w \in S THEN NoWrite ELSE writes[w]]
      /\ UNCHANGED <<directory, rows, patches, exposed>>
  BY DEF FinishWrites, Of
<1> HIDE DEF S
<1>2. NoWrite \in WriteRecord
  BY DEF NoWrite, WriteRecord
<1>3. /\ writes' \in [WriteIds -> WriteRecord] /\ \A v \in S : writes'[v] = NoWrite
      /\ \A v \in WriteIds \ S : SameRequest(writes[v], writes'[v])
  BY <1>1, <1>2 DEF MembersType, SameRequest
<1>4. /\ loads[l].state = "none" /\ loads' \in [LoadIds -> LoadRecord]
      /\ \A k \in LoadIds \ {l} : loads'[k] = loads[k]
      /\ loads'[l].state = "asked"
      /\ \A m \in Members, f \in Fields, w \in S :
           m \in writes[w].members /\ FieldOf(writes[w].kind) = f => <<m, f>> \in loads'[l].covers
      /\ loads'[l].clean => /\ \A p \in PatchIds : patches[p].state = "none"
                            /\ \A v \in WriteIds \ S : writes[v].state = "none"
  BY <1>1, AfterStart
<1>5. /\ \A v \in WriteIds : WriteIsDone(writes'[v])
      /\ \A v \in S : writes'[v].state = "none"
      /\ \A v \in WriteIds : writes[v].state = "none" => writes'[v].state = "none"
      /\ Overview' = Overview
      /\ \A n \in Members, g \in Fields :
           CellHolds(n, g) =>
             CellHolds(n, g)' \/ \E w \in S : WriteOn(w, n, g) /\ writes[w].state = "applied"
  BY <1>1, <1>3, EndOfWrites
<1>6. MembersType'
  BY <1>1, <1>3, <1>4, <1>5 DEF MembersType
<1>7. CleanHolds'
  BY <1>1, <1>4, <1>5 DEF CleanHolds
<1>8. ASSUME NEW n \in Members, NEW g \in Fields, <<n, g>> \notin exposed', ~Covered(n, g)'
      PROVE  CellHolds(n, g)'
  <2>1. ~Covered(n, g)
    BY <1>4, <1>8 DEF Covered
  <2>2. \A w \in S : ~WriteOn(w, n, g)
    BY <1>4, <1>8 DEF Covered, WriteOn
  <2> QED BY <1>1, <1>8, <1>5, <2>1, <2>2 DEF CellsHold
<1> QED BY <1>6, <1>7, <1>8 DEF CellsHold

LEMMA FailWriteStep == ASSUME MembersInv, NEW w \in WriteIds, FailWrite(w) PROVE MembersInv'
<1> USE DEF MembersInv
<1>1. /\ writes[w].state # "none"
      /\ writes' = [v \in WriteIds |->
           IF v = w THEN NoWrite
           ELSE IF writes[v].form = writes[w].form THEN [writes[v] EXCEPT !.form = None]
           ELSE writes[v]]
      /\ exposed' = exposed \union (IF writes[w].state = "applied" THEN CellsOf(w) ELSE {})
      /\ UNCHANGED <<directory, rows, patches, loads>>
  BY DEF FailWrite
<1>2. NoWrite \in WriteRecord
  BY DEF NoWrite, WriteRecord
<1>3. \A v \in WriteIds : /\ [writes[v] EXCEPT !.form = None] \in WriteRecord
                          /\ SameRequest(writes[v], [writes[v] EXCEPT !.form = None])
  BY DEF MembersType, WriteRecord, SameRequest
<1>4. /\ writes' \in [WriteIds -> WriteRecord] /\ \A v \in {w} : writes'[v] = NoWrite
      /\ \A v \in WriteIds \ {w} : SameRequest(writes[v], writes'[v])
  BY <1>1, <1>2, <1>3 DEF MembersType, SameRequest
<1>5. CellsOf(w) \subseteq Cells
  <2>1. writes[w] \in WriteRecord
    BY DEF MembersType
  <2> QED BY <2>1 DEF CellsOf, CellsOfRequest, Cells, WriteRecord, FieldOf, Fields
<1>6. /\ \A v \in WriteIds : WriteIsDone(writes'[v])
      /\ \A v \in WriteIds : writes[v].state = "none" => writes'[v].state = "none"
      /\ Overview' = Overview
      /\ \A n \in Members, g \in Fields :
           CellHolds(n, g) =>
             CellHolds(n, g)' \/ \E v \in {w} : WriteOn(v, n, g) /\ writes[v].state = "applied"
  <2> DEFINE S == {w}
  <2>1. /\ S \in SUBSET WriteIds /\ \A v \in S : writes'[v] = NoWrite
        /\ \A v \in WriteIds \ S : SameRequest(writes[v], writes'[v])
    BY <1>4
  <2> HIDE DEF S
  <2>2. /\ \A v \in WriteIds : WriteIsDone(writes'[v])
        /\ \A v \in WriteIds : writes[v].state = "none" => writes'[v].state = "none"
        /\ Overview' = Overview
        /\ \A n \in Members, g \in Fields :
             CellHolds(n, g) =>
               CellHolds(n, g)' \/ \E v \in S : WriteOn(v, n, g) /\ writes[v].state = "applied"
    BY <1>1, <1>4, <2>1, EndOfWrites
  <2> QED BY <2>2 DEF S
<1>7. MembersType'
  BY <1>1, <1>4, <1>5, <1>6 DEF MembersType
<1>8. CleanHolds'
  BY <1>1, <1>4, <1>6 DEF CleanHolds
<1>9. ASSUME NEW n \in Members, NEW g \in Fields, <<n, g>> \notin exposed', ~Covered(n, g)'
      PROVE  CellHolds(n, g)'
  <2>1. ~Covered(n, g) /\ <<n, g>> \notin exposed
    BY <1>1, <1>9 DEF Covered
  <2>2. \A v \in {w} : ~(WriteOn(v, n, g) /\ writes[v].state = "applied")
    BY <1>1, <1>9, CellsOfChanges DEF WriteOn
  <2> QED BY <1>9, <1>6, <2>1, <2>2 DEF CellsHold
<1> QED BY <1>7, <1>8, <1>9 DEF CellsHold

LEMMA MembersStep == MembersInv /\ [Next]_vars => MembersInv'
<1> SUFFICES ASSUME MembersInv, [Next]_vars PROVE MembersInv'
  OBVIOUS
<1>1. CASE MembersNext
  BY <1>1, UpdateStep, PatchStep, ReloadStep, ReadStep, ShowStep, FailLoadStep, WriteBeginsStep,
     ApplyWriteStep, FailWriteStep, FinishWritesStep
  DEF MembersNext
<1>2. CASE UNCHANGED membersVars
  BY <1>2, MembersStutter
<1> QED BY <1>1, <1>2 DEF Next, vars

\* Refused changes, lost answers and late loads leave no row with a value the server does
\* not hold, except where they overlapped (live-members.tsx: updateRole, updateStatus,
\* loadOrganization and the forms).
THEOREM TheTableShowsTheServer == Spec => []RowsAreTheServers
<1>1. MembersInv => RowsAreTheServers
  <2> SUFFICES ASSUME MembersInv, Patched = {}, Written = {},
                      \A l \in LoadIds : loads[l].state = "none",
                      NEW m \in Members, NEW f \in Fields, <<m, f>> \notin exposed
               PROVE  rows[m][f] = Overview[m][f]
    BY DEF RowsAreTheServers
  <2> USE DEF MembersInv
  <2>1. CellHolds(m, f)
    BY DEF CellsHold, Covered
  <2>2. (\A p \in PatchIds : ~PatchOn(p, m, f)) /\ (\A w \in WriteIds : ~WriteOn(w, m, f))
    BY CellsOfChanges
  <2> QED BY <2>1, <2>2 DEF CellHolds
<1> QED BY <1>1, MembersStart, MembersStep, PTL DEF Spec

---------------------------------------------------------------------------
(* The paged lists.                                                        *)

LEMMA AnswersOfTheServer ==
  ASSUME view \in ListViews, NEW c \in Controls
  PROVE  /\ AnswerTo(c) \in Answers /\ AnswerTo(c) # None /\ AnswerTo(c).about = c
         /\ AnswerTo(c).rows = RowsOn(c)
         /\ AnswerTo(c).total \in {0, Matches[c.query]}
<1>1. /\ Matches[c.query] \in Nat /\ c.size \in Nat \ {0} /\ c.page \in Nat \ {0}
  BY CatalogAssumption DEF Controls
<1>2. (c.page - 1) * c.size \in Nat
  BY <1>1
<1>3. RowsOn(c) \in Nat
  BY <1>1, <1>2 DEF RowsOn, AtMost
<1>4. /\ AnswerTo(c).about = c /\ AnswerTo(c).rows = RowsOn(c)
      /\ AnswerTo(c).total \in {0, Matches[c.query]} /\ AnswerTo(c) \in Answers
  BY <1>1, <1>3 DEF AnswerTo, Answers
<1> QED BY <1>4, CatalogAssumption

\* The page of the controls shows some row, if there is one.
Reaches(c) == Matches[c.query] > 0 => RowsOn(c) > 0

LEMMA RowsWithinReach ==
  ASSUME NEW c \in Controls, (c.page - 1) * c.size < Matches[c.query] \/ c.page = 1
  PROVE  Reaches(c)
<1>1. /\ Matches[c.query] \in Nat /\ c.size \in Nat \ {0} /\ c.page \in Nat \ {0}
  BY CatalogAssumption DEF Controls
<1>2. PICK skipped \in Nat : skipped = (c.page - 1) * c.size
  BY <1>1
<1>3. c.page = 1 => skipped = 0
  BY <1>1, <1>2
<1> QED BY <1>1, <1>2, <1>3 DEF Reaches, RowsOn, AtMost

LEMMA LastPage ==
  ASSUME NEW total \in Nat, NEW size \in Nat \ {0},
         NEW n \in 1..AtLeast(1, (total + size - 1) \div size)
  PROVE  (n - 1) * size < total \/ n = 1
<1> DEFINE pages == (total + size - 1) \div size
<1>1. pages \in Nat /\ pages * size <= total + size - 1
  OBVIOUS
<1>2. CASE n = 1
  BY <1>2
<1>3. CASE n # 1
  <2> HIDE DEF pages
  <2>1. n \in Nat /\ n <= pages
    BY <1>1, <1>3 DEF AtLeast, pages
  <2>2. n * size <= pages * size
    BY <1>1, <2>1
  <2>3. (n - 1) * size = n * size - size
    BY <2>1
  <2> QED BY <1>1, <2>1, <2>2, <2>3
<1> QED BY <1>2, <1>3

Requested == [about : Controls, overtaken : BOOLEAN, held : BOOLEAN]
Edits == [kind : {"none", "save", "create", "switch"}, from : Controls \union {None}]

\* What was saved goes back to controls that the page had.
EditsType ==
  /\ edits \in [EditIds -> Edits]
  /\ \A e \in EditIds : edits[e].kind # "none" => edits[e].from \in Controls

\* The requests in flight: what an answer overtook stands before what none did.
InOrder ==
  \A i, j \in DOMAIN asked : i < j /\ asked[j].overtaken => asked[i].overtaken

\* The last one asks for what the controls show, unless its answer was overtaken or a save
\* sent it for other controls ...
NewestAsks ==
  controls.target # None /\ ~outdated /\ asked # <<>> /\ ~asked[Len(asked)].overtaken
    => asked[Len(asked)].about = controls

\* ... by the answer to what the controls show.
NewestAnswered ==
  controls.target # None /\ ~outdated /\ ~misshown /\ (\A i \in DOMAIN asked : asked[i].overtaken)
    => shown # None /\ shown.about = controls

ShownIsAnAnswer == shown # None => shown.about \in Controls /\ shown = AnswerTo(shown.about)

ListInv ==
  /\ controls \in Controls /\ asked \in Seq(Requested) /\ EditsType
  /\ List.ofTenant \/ controls.target # None
  /\ ShownIsAnAnswer /\ InOrder /\ NewestAsks /\ NewestAnswered
  /\ hasty \/ Reaches(controls)

CatalogInv == view \in ListViews => ListInv

LEMMA OneElement ==
  ASSUME NEW S, NEW x \in S, NEW s, s = <<x>>
  PROVE  s \in Seq(S) /\ Len(s) = 1 /\ s[1] = x
OBVIOUS

LEMMA OneMore ==
  ASSUME NEW S, NEW s \in Seq(S), NEW x \in S
  PROVE  /\ s \o <<x>> \in Seq(S) /\ Len(s \o <<x>>) = Len(s) + 1
         /\ (s \o <<x>>)[Len(s) + 1] = x
         /\ \A i \in 1..Len(s) : (s \o <<x>>)[i] = s[i]
         /\ DOMAIN (s \o <<x>>) = 1..(Len(s) + 1) /\ DOMAIN s = 1..Len(s) /\ Len(s) \in Nat
OBVIOUS

LEMMA AskingIsARequest ==
  ASSUME NEW c \in Controls, NEW held \in BOOLEAN
  PROVE  /\ Asking(c, held) \in Requested
         /\ Asking(c, held).about = c /\ ~Asking(c, held).overtaken
BY DEF Asking, Requested

LEMMA CatalogStart == Init => CatalogInv
<1> SUFFICES ASSUME Init, view \in ListViews PROVE ListInv
  BY DEF CatalogInv
<1> USE DEF Init, CatalogInit
<1>1. controls \in Controls /\ controls.page = 1
  BY CatalogAssumption DEF Controls
<1>2. EditsType
  BY DEF EditsType, Edits, NoEdit
<1>3. List.ofTenant \/ controls.target # None
  <2>1. (CHOOSE t \in Tenants : TRUE) \in Tenants
    BY CatalogAssumption
  <2> QED BY <2>1, CatalogAssumption
<1>4. CASE List.ofTenant
  <2>1. asked = <<>> /\ controls.target = None
    BY <1>4
  <2> QED BY <1>1, <1>4, <1>2, <2>1, RowsWithinReach
          DEF ListInv, ShownIsAnAnswer, InOrder, NewestAsks, NewestAnswered
<1>5. CASE ~List.ofTenant
  <2> DEFINE first == Asking(controls, FALSE)
  <2>1. asked = <<first>> /\ first \in Requested /\ first.about = controls /\ ~first.overtaken
    BY <1>1, <1>5, AskingIsARequest
  <2> HIDE DEF first
  <2>2. asked \in Seq(Requested) /\ Len(asked) = 1 /\ asked[1] = first
    BY <2>1, OneElement DEF Requested
  <2>3. \A i \in DOMAIN asked : i = 1
    BY <2>2
  <2>4. InOrder
    BY <2>3 DEF InOrder
  <2>5. NewestAsks
    BY <2>1, <2>2 DEF NewestAsks
  <2>6. NewestAnswered
    <3>1. 1 \in DOMAIN asked
      BY <2>2
    <3>2. ~asked[1].overtaken
      BY <2>1, <2>2
    <3> QED BY <3>1, <3>2 DEF NewestAnswered
  <2> QED BY <1>1, <1>3, <1>2, <2>2, <2>4, <2>5, <2>6, RowsWithinReach DEF ListInv, ShownIsAnAnswer
<1> QED BY <1>4, <1>5

LEMMA CatalogStutter == CatalogInv /\ UNCHANGED <<view, catalogVars>> => CatalogInv'
BY DEF CatalogInv, catalogVars, ListInv, ShownIsAnAnswer, InOrder, NewestAsks, NewestAnswered,
       AnswerTo, RowsOn, List, Reaches, EditsType

Ordered(s) == \A i, j \in DOMAIN s : i < j /\ s[j].overtaken => s[i].overtaken

\* One more request: it is the newest, and no answer to it is there.
LEMMA LoadStep ==
  ASSUME ListInv, view \in ListViews, UNCHANGED view, EditsType', controls' \in Controls,
         List.ofTenant \/ controls'.target # None, hasty' \/ Reaches(controls'),
         shown' = shown \/ shown' = None,
         NEW older \in Seq(Requested), Ordered(older), NEW c \in Controls, NEW held \in BOOLEAN,
         asked' = older \o <<Asking(c, held)>>,
         outdated' \/ c = controls'
  PROVE  ListInv'
<1> USE DEF ListInv
<1> DEFINE next == Asking(c, held)
<1>1. next \in Requested /\ next.about = c /\ ~next.overtaken
  BY AskingIsARequest
<1> HIDE DEF next
<1>2. asked' = older \o <<next>>
  BY DEF next
<1>3. /\ asked' \in Seq(Requested) /\ Len(asked') = Len(older) + 1
      /\ asked'[Len(older) + 1] = next
      /\ \A i \in 1..Len(older) : asked'[i] = older[i]
      /\ DOMAIN asked' = 1..(Len(older) + 1) /\ DOMAIN older = 1..Len(older)
      /\ Len(older) \in Nat
  BY <1>1, <1>2, OneMore
<1>4. List' = List /\ \A d : AnswerTo(d)' = AnswerTo(d)
  BY DEF List, AnswerTo, RowsOn
<1>5. ShownIsAnAnswer'
  BY <1>4 DEF ShownIsAnAnswer
<1>6. InOrder'
  BY <1>1, <1>3 DEF InOrder, Ordered
<1>7. NewestAsks' /\ NewestAnswered'
  BY <1>1, <1>3 DEF NewestAsks, NewestAnswered
<1> QED BY <1>3, <1>4, <1>5, <1>6, <1>7 DEF Reaches, RowsOn

\* The controls change: what is asked now is the newest, and no answer to it is there.
LEMMA ChooseStep ==
  ASSUME ListInv, view \in ListViews, UNCHANGED view, NEW c \in Controls, Choose(c),
         hasty' \/ Reaches(c), List.ofTenant \/ c.target # None,
         \/ UNCHANGED <<shown, misshown>> /\ c.target = controls.target
         \/ shown' = None /\ c # controls
  PROVE  ListInv'
<1> USE DEF ListInv
<1>1. controls' = c /\ List' = List /\ (\A d : AnswerTo(d)' = AnswerTo(d)) /\ EditsType'
  BY DEF Choose, List, AnswerTo, RowsOn, EditsType
<1>2. ShownIsAnAnswer'
  BY <1>1 DEF ShownIsAnAnswer
<1>3. CASE c = controls
  <2>1. UNCHANGED <<asked, shown, misshown, controls, outdated>>
    BY <1>3, <1>1 DEF Choose
  <2>2. InOrder' /\ NewestAsks' /\ NewestAnswered'
    BY <2>1 DEF InOrder, NewestAsks, NewestAnswered
  <2> QED BY <1>1, <1>2, <2>1, <2>2 DEF Reaches, RowsOn
<1>4. CASE c # controls /\ c.target = None
  <2>1. UNCHANGED asked
    BY <1>4 DEF Choose
  <2>2. InOrder' /\ NewestAsks' /\ NewestAnswered'
    BY <1>1, <1>4, <2>1 DEF InOrder, NewestAsks, NewestAnswered
  <2> QED BY <1>1, <1>2, <2>1, <2>2 DEF Reaches, RowsOn
<1>5. CASE c # controls /\ c.target # None
  <2>1. asked' = asked \o <<Asking(c, FALSE)>>
    BY <1>5 DEF Choose, Ask
  <2>2. asked \in Seq(Requested) /\ Ordered(asked)
    BY DEF InOrder, Ordered
  <2> QED BY <1>1, <2>1, <2>2, LoadStep
<1> QED BY <1>3, <1>4, <1>5

LEMMA RetryStep ==
  ASSUME ListInv, view \in ListViews, UNCHANGED view, Retry PROVE ListInv'
<1> USE DEF ListInv
<1>1. /\ asked' = asked \o <<Asking(controls, FALSE)>>
      /\ UNCHANGED <<controls, shown, edits, hasty>>
  BY DEF Retry, Ask
<1>2. EditsType'
  BY <1>1 DEF EditsType
<1>3. asked \in Seq(Requested) /\ Ordered(asked)
  BY DEF InOrder, Ordered
<1> QED BY <1>1, <1>2, <1>3, LoadStep

LEMMA FirstPage ==
  ASSUME NEW d \in Controls, NEW c, c = [d EXCEPT !.page = 1]
  PROVE  c \in Controls /\ c.page = 1 /\ c.target = d.target
BY DEF Controls

LEMMA OneControl ==
  ASSUME NEW d \in Controls
  PROVE  /\ \A q \in Queries :
              [d EXCEPT !.query = q] \in Controls /\ [d EXCEPT !.query = q].target = d.target
         /\ \A s \in Sizes :
              [d EXCEPT !.size = s] \in Controls /\ [d EXCEPT !.size = s].target = d.target
         /\ \A t \in Tenants \union {None} :
              [d EXCEPT !.target = t] \in Controls /\ [d EXCEPT !.target = t].target = t
BY DEF Controls

LEMMA ControlStep ==
  ASSUME ListInv, view \in ListViews, UNCHANGED view,
         \/ \E q \in Queries : Search(q)
         \/ \E s \in Sizes : ChangeSize(s)
         \/ \E t \in Tenants \union {None} : ViewMembers(t)
  PROVE  ListInv'
<1> USE DEF ListInv
<1>1. ASSUME NEW q \in Queries, Search(q) PROVE ListInv'
  <2>1. PICK d \in Controls : d = [controls EXCEPT !.query = q] /\ d.target = controls.target
    BY OneControl
  <2> DEFINE c == [d EXCEPT !.page = 1]
  <2>2. c = [controls EXCEPT !.query = q, !.page = 1]
    BY <2>1
  <2>3. Choose(c) /\ UNCHANGED <<shown, misshown>>
    BY <1>1, <2>2 DEF Search
  <2> HIDE DEF c
  <2>4. c \in Controls /\ c.page = 1 /\ c.target = controls.target
    BY <2>1, FirstPage DEF c
  <2> QED BY <2>3, <2>4, RowsWithinReach, ChooseStep
<1>2. ASSUME NEW s \in Sizes, ChangeSize(s) PROVE ListInv'
  <2>1. PICK d \in Controls : d = [controls EXCEPT !.size = s] /\ d.target = controls.target
    BY OneControl
  <2> DEFINE c == [d EXCEPT !.page = 1]
  <2>2. c = [controls EXCEPT !.size = s, !.page = 1]
    BY <2>1
  <2>3. Choose(c) /\ UNCHANGED <<shown, misshown>>
    BY <1>2, <2>2 DEF ChangeSize
  <2> HIDE DEF c
  <2>4. c \in Controls /\ c.page = 1 /\ c.target = controls.target
    BY <2>1, FirstPage DEF c
  <2> QED BY <2>3, <2>4, RowsWithinReach, ChooseStep
<1>3. ASSUME NEW t \in Tenants \union {None}, ViewMembers(t) PROVE ListInv'
  <2>1. PICK e \in Controls : e = [controls EXCEPT !.target = t] /\ e.target = t
    BY OneControl
  <2>2. e.target = t
    BY <2>1
  <2>3. [e EXCEPT !.query = NoQuery] \in Controls /\ [e EXCEPT !.query = NoQuery].target = e.target
    BY CatalogAssumption, OneControl
  <2>4. PICK d \in Controls : d = [e EXCEPT !.query = NoQuery] /\ d.target = t
    BY <2>2, <2>3
  <2> DEFINE c == [d EXCEPT !.page = 1]
  <2>5. c = FirstControls(t)
    BY <2>1, <2>4 DEF FirstControls
  <2>6. Choose(c) /\ shown' = None /\ List.ofTenant /\ (controls.target = None) # (t = None)
    BY <1>3, <2>5 DEF ViewMembers
  <2> HIDE DEF c
  <2>7. c \in Controls /\ c.page = 1 /\ c.target = t
    BY <2>4, FirstPage DEF c
  <2> QED BY <2>6, <2>7, RowsWithinReach, ChooseStep
<1> QED BY <1>1, <1>2, <1>3

\* Turning the page by the row count of the list that is asked for stays within it.
LEMMA TurnStep ==
  ASSUME ListInv, view \in ListViews, UNCHANGED view, NEW n, TurnTo(n)
  PROVE  ListInv'
<1> USE DEF ListInv
<1> DEFINE c == [controls EXCEPT !.page = n]
<1>1. controls \in Controls /\ controls.size \in Nat \ {0}
  BY CatalogAssumption DEF Controls
<1>2. ShownTotal \in Nat
  <2>1. CASE shown = None
    BY <2>1 DEF ShownTotal
  <2>2. CASE shown # None
    <3>1. PICK d \in Controls : shown = AnswerTo(d)
      BY <2>2 DEF ShownIsAnAnswer
    <3> QED BY <2>2, <3>1, AnswersOfTheServer DEF ShownTotal, Answers
  <2> QED BY <2>1, <2>2
<1>3. n \in 1..PageCount /\ PageCount \in Nat
  BY <1>1, <1>2 DEF TurnTo, PageCount, AtLeast
<1>4. c \in Controls /\ c.page = n /\ c.target = controls.target /\ c.query = controls.query
      /\ c.size = controls.size
  BY <1>1, <1>3 DEF Controls
<1>5. Choose(c) /\ UNCHANGED <<shown, misshown>>
  BY DEF TurnTo
<1> HIDE DEF c
<1>6. hasty' \/ Reaches(c)
  <2> SUFFICES ASSUME ~hasty' PROVE Reaches(c)
    OBVIOUS
  <2>1. shown # None /\ shown.about.query = controls.query
    BY DEF TurnTo
  <2>2. PICK d \in Controls : shown = AnswerTo(d) /\ shown.about = d
    BY <2>1 DEF ShownIsAnAnswer
  <2>3. ShownTotal \in {0, Matches[c.query]}
    BY <1>4, <2>1, <2>2, AnswersOfTheServer DEF ShownTotal
  <2>4. (c.page - 1) * c.size < ShownTotal \/ c.page = 1
    BY <1>1, <1>2, <1>3, <1>4, LastPage DEF PageCount
  <2>5. (c.page - 1) * c.size \in Nat
    BY <1>1, <1>3, <1>4
  <2> QED BY <1>4, <2>3, <2>4, <2>5, RowsWithinReach
<1> QED BY <1>4, <1>5, <1>6, ChooseStep

\* A save begins, ends, or is stored: then the list is asked for with the controls it began
\* under, and with the present ones after it if the page is turned back.
LEMMA EditStep ==
  ASSUME ListInv, view \in ListViews, UNCHANGED view, NEW e \in EditIds,
         \/ \E kind \in {"save", "create", "switch"} : SubmitEdit(e, kind)
         \/ AnswerEdit(e) \/ DropEdit(e)
  PROVE  ListInv'
<1> USE DEF ListInv
<1>1. ASSUME UNCHANGED <<controls, asked, shown, misshown, hasty, outdated>>, EditsType' PROVE ListInv'
  BY <1>1 DEF ShownIsAnAnswer, InOrder, NewestAsks, NewestAnswered, AnswerTo, RowsOn, List, Reaches
<1>2. NoEdit \in Edits /\ NoEdit.kind = "none"
  BY DEF NoEdit, Edits
<1>3. ASSUME edits' = [edits EXCEPT ![e] = NoEdit] PROVE EditsType'
  BY <1>2, <1>3 DEF EditsType
<1>4. ASSUME NEW kind \in {"save", "create", "switch"}, SubmitEdit(e, kind) PROVE ListInv'
  <2>1. [kind |-> kind, from |-> controls] \in Edits /\ controls \in Controls
    BY DEF Edits
  <2>2. EditsType'
    BY <1>4, <2>1 DEF SubmitEdit, EditsType
  <2> QED BY <1>1, <1>4, <2>2 DEF SubmitEdit
<1>5. CASE DropEdit(e)
  BY <1>1, <1>3, <1>5 DEF DropEdit
<1>6. CASE AnswerEdit(e)
  <2> DEFINE from == edits[e].from
             held == edits[e].kind # "switch"
             first == [controls EXCEPT !.page = 1]
  <2>1. from \in Controls /\ held \in BOOLEAN
    BY <1>6 DEF AnswerEdit, EditsType
  <2>2. first \in Controls /\ first.page = 1 /\ first.target = controls.target
    BY FirstPage
  <2>3. UNCHANGED shown /\ EditsType'
    BY <1>3, <1>6 DEF AnswerEdit
  <2>4. CASE edits[e].kind = "create" /\ controls # first
    <3>1. /\ controls' = first
          /\ asked' = asked \o (<<Asking(from, held)>> \o <<Asking(first, FALSE)>>)
      BY <1>6, <2>4 DEF AnswerEdit, Ask
    <3> HIDE DEF from, held, first
    <3>2. /\ Asking(from, held) \in Requested /\ Asking(first, FALSE) \in Requested
          /\ Asking(first, FALSE).about = first /\ ~Asking(from, held).overtaken
      BY <2>1, <2>2, AskingIsARequest
    <3>3. PICK x \in Requested : x = Asking(from, held)
      BY <3>2
    <3>4. PICK y \in Requested : y = Asking(first, FALSE)
      BY <3>2
    <3> DEFINE older == asked \o <<x>>
    <3>5. asked' = older \o <<y>>
      BY <3>1, <3>3, <3>4
    <3>6. older \in Seq(Requested) /\ Ordered(older)
      <4>1. asked \in Seq(Requested)
        OBVIOUS
      <4>2. ~x.overtaken
        BY <3>2, <3>3
      <4> QED BY <4>1, <4>2, OneMore DEF InOrder, Ordered
    <3> HIDE DEF older
    <3>7. hasty' \/ Reaches(first)
      BY <2>2, RowsWithinReach
    <3> QED BY <2>2, <2>3, <3>1, <3>4, <3>5, <3>6, <3>7, LoadStep
  <2>5. CASE ~(edits[e].kind = "create" /\ controls # first)
    <3>1. controls' = controls
      BY <1>6, <2>5 DEF AnswerEdit
    <3>2. hasty \/ Reaches(controls) => hasty' \/ Reaches(controls)
      BY <1>6, <2>5, Zenon DEF AnswerEdit
    <3>3. outdated' \/ from = controls
      BY <1>6, <2>5, Zenon DEF AnswerEdit
    <3>4. asked' = asked \o (<<Asking(from, held)>> \o <<>>)
      BY <1>6, <2>5 DEF AnswerEdit, Ask
    <3>5. asked' = asked \o <<Asking(from, held)>>
      <4> DEFINE x == Asking(from, held)
      <4>1. <<x>> \o <<>> = <<x>>
        <5> HIDE DEF x
        <5> QED OBVIOUS
      <4> QED BY <3>4, <4>1
    <3> HIDE DEF from, held, first
    <3>6. asked \in Seq(Requested) /\ Ordered(asked)
      BY DEF InOrder, Ordered
    <3> QED BY <2>1, <2>3, <3>1, <3>6, <3>5, <3>2, <3>3, LoadStep
  <2> QED BY <2>4, <2>5
<1> QED BY <1>4, <1>5, <1>6
\* One answer comes: the requests before it are overtaken by it.
LEMMA RestOfTheRequests ==
  ASSUME asked \in Seq(Requested), NEW i \in DOMAIN asked
  PROVE  /\ Rest(i) \in Seq(Requested) /\ Len(Rest(i)) = Len(asked) - 1
         /\ DOMAIN Rest(i) = 1..(Len(asked) - 1)
         /\ \A k \in 1..(Len(asked) - 1) :
              /\ Rest(i)[k].about = IF k < i THEN asked[k].about ELSE asked[k + 1].about
              /\ Rest(i)[k].overtaken = (k < i \/ asked[k + 1].overtaken)
<1>1. Len(asked) \in Nat \ {0} /\ i \in 1..Len(asked)
  OBVIOUS
<1>2. PICK n \in Nat : n = Len(asked) - 1
  BY <1>1
<1>3. ASSUME NEW k \in 1..n
      PROVE  /\ Rest(i)[k] \in Requested
             /\ Rest(i)[k].about = IF k < i THEN asked[k].about ELSE asked[k + 1].about
             /\ Rest(i)[k].overtaken = (k < i \/ asked[k + 1].overtaken)
  <2>1. asked[k] \in Requested /\ asked[k + 1] \in Requested
    BY <1>1, <1>2
  <2>2. Rest(i)[k] = IF k < i THEN [asked[k] EXCEPT !.overtaken = TRUE] ELSE asked[k + 1]
    BY <1>2 DEF Rest
  <2>3. CASE k < i
    BY <2>1, <2>2, <2>3 DEF Requested
  <2>4. CASE ~(k < i)
    BY <2>1, <2>2, <2>4 DEF Requested
  <2> QED BY <2>3, <2>4
<1>4. Rest(i) = [k \in 1..n |-> Rest(i)[k]]
  BY <1>2 DEF Rest
<1>5. Rest(i) \in Seq(Requested) /\ Len(Rest(i)) = n /\ DOMAIN Rest(i) = 1..n
  BY <1>3, <1>4
<1> QED BY <1>2, <1>3, <1>5

LEMMA AnswerStepOfList ==
  ASSUME ListInv, view \in ListViews, NEW i \in DOMAIN asked, Answer(i) \/ Fail(i)
  PROVE  ListInv'
<1> USE DEF ListInv
<1>1. /\ asked' = Rest(i) /\ UNCHANGED <<controls, edits, hasty, outdated, view>>
      /\ \/ shown' = AnswerTo(asked[i].about) /\ misshown' = asked[i].overtaken
         \/ (shown' = None \/ shown' = shown) /\ misshown' = TRUE
  BY DEF Answer, Fail, pageVars
<1>2. List' = List /\ \A d : AnswerTo(d)' = AnswerTo(d)
  BY <1>1 DEF List, AnswerTo, RowsOn
<1>3. PICK n \in Nat : n = Len(asked) - 1
  OBVIOUS
<1>4. /\ asked' \in Seq(Requested) /\ Len(asked') = n /\ DOMAIN asked' = 1..n
      /\ \A k \in 1..n : /\ asked'[k].about = IF k < i THEN asked[k].about ELSE asked[k + 1].about
                         /\ asked'[k].overtaken = (k < i \/ asked[k + 1].overtaken)
  BY <1>1, <1>3, RestOfTheRequests
<1>5. i \in 1..(n + 1) /\ DOMAIN asked = 1..(n + 1) /\ asked[i] \in Requested
  BY <1>3
<1>6. ShownIsAnAnswer'
  <2>1. asked[i].about \in Controls
    BY <1>5 DEF Requested
  <2> QED BY <1>1, <1>2, <2>1, AnswersOfTheServer DEF ShownIsAnAnswer
<1>7. InOrder'
  <2> SUFFICES ASSUME NEW j \in 1..n, NEW k \in 1..n, j < k, k < i \/ asked[k + 1].overtaken
               PROVE  j < i \/ asked[j + 1].overtaken
    BY <1>4 DEF InOrder
  <2>1. CASE k < i
    BY <1>5, <2>1
  <2>2. CASE asked[k + 1].overtaken
    <3>1. j + 1 \in 1..(n + 1) /\ k + 1 \in 1..(n + 1) /\ j + 1 < k + 1
      OBVIOUS
    <3> QED BY <1>5, <2>2, <3>1 DEF InOrder
  <2> QED BY <2>1, <2>2
<1>8. NewestAsks'
  <2> SUFFICES ASSUME controls.target # None, ~outdated, asked' # <<>>, ~asked'[n].overtaken
               PROVE  asked'[n].about = controls
    BY <1>1, <1>4 DEF NewestAsks
  <2>1. n \in 1..n
    BY <1>4
  <2>2. ~(n < i) /\ ~asked[n + 1].overtaken
    BY <1>4, <2>1
  <2>3. asked # <<>> /\ Len(asked) = n + 1
    BY <1>3, <1>5
  <2>4. asked[n + 1].about = controls
    BY <2>2, <2>3 DEF NewestAsks
  <2> QED BY <1>4, <2>1, <2>2, <2>4
<1>9. NewestAnswered'
  <2> SUFFICES ASSUME controls.target # None, ~outdated, ~misshown',
                      \A k \in 1..n : asked'[k].overtaken
               PROVE  shown' # None /\ shown'.about = controls
    BY <1>1, <1>4 DEF NewestAnswered
  <2>1. shown' = AnswerTo(asked[i].about) /\ ~asked[i].overtaken
    BY <1>1
  <2>2. i = n + 1
    <3> SUFFICES ASSUME i < n + 1 PROVE FALSE
      BY <1>5
    <3>1. n \in 1..n /\ ~(n < i)
      BY <1>5
    <3>2. asked[n + 1].overtaken
      BY <1>4, <3>1
    <3> QED BY <1>5, <2>1, <3>2 DEF InOrder
  <2>3. asked # <<>> /\ Len(asked) = n + 1
    BY <1>3, <1>5
  <2>4. asked[i].about = controls
    BY <2>1, <2>2, <2>3 DEF NewestAsks
  <2> QED BY <2>1, <2>4, AnswersOfTheServer
<1> QED BY <1>1, <1>2, <1>4, <1>6, <1>7, <1>8, <1>9 DEF Reaches, RowsOn, EditsType

\* Nobody leaves a page.
LEMMA PageStays == [Next]_vars => UNCHANGED view
<1>1. MembersNext => UNCHANGED view
  <2>1. ASSUME NEW which, NEW new, Submit(which, new) PROVE UNCHANGED view
    BY <2>1 DEF Submit, Begun
  <2>2. BatchAssign \/ SaveMember \/ TransferOwnership => UNCHANGED view
    BY <2>1 DEF BatchAssign, SaveMember, TransferOwnership
  <2>3. ASSUME NEW p \in PatchIds PROVE UpdateRole(p) \/ UpdateStatus(p) => UNCHANGED view
    BY DEF UpdateRole, UpdateStatus, SendPatch, Begun
  <2>4. ASSUME NEW l \in LoadIds PROVE Reload(l) => UNCHANGED view
    BY DEF Reload, Begun
  <2> QED BY <2>2, <2>3, <2>4
      DEF MembersNext, ApplyPatch, ConfirmPatch, RollBack, ReadOrganization, ShowOrganization,
          FailLoad, ApplyWrite, FailWrite, FinishWrites, pageVars
<1>2. FormsNext => UNCHANGED view
  BY FormsKeepTheView
<1>3. CatalogNext => UNCHANGED view
  BY DEF CatalogNext, Search, ChangeSize, NextPage, PreviousPage, TurnTo, ViewMembers,
         Choose, Retry, SubmitEdit, AnswerEdit, DropEdit, Begun, Answer, Fail, pageVars
<1>4. SettingsNext => UNCHANGED view
  BY DEF SettingsNext, ChooseLifetime, ChooseAge, ChooseSliding, OthersSave, Write, Load,
         SavePolicy, AnswerPolicy, AnswerLists, FailPolicy, StoreLifetime, StoreRest, BreakOff,
         AnswerWrite, Begun, pageVars
<1> QED BY <1>1, <1>2, <1>3, <1>4 DEF Next, vars, pageVars

LEMMA CatalogStep == CatalogInv /\ [Next]_vars => CatalogInv'
<1> SUFFICES ASSUME CatalogInv, [Next]_vars PROVE CatalogInv'
  OBVIOUS
<1>1. UNCHANGED view
  BY PageStays
<1>2. CASE view \in ListViews /\ CatalogNext
  <2>1. ListInv'
    BY <1>1, <1>2, ControlStep, TurnStep, RetryStep, EditStep, AnswerStepOfList
    DEF CatalogInv, CatalogNext, NextPage, PreviousPage
  <2> QED BY <2>1 DEF CatalogInv
<1>3. CASE UNCHANGED catalogVars
  BY <1>1, <1>3, CatalogStutter
<1> QED BY <1>2, <1>3 DEF Next, vars

\* Once all is answered, a list shows what its controls ask for, if no answer came out of
\* order and none was to a save that began under other controls, and does not stand behind
\* its last page, if no page was turned too early.
THEOREM ListsAnswerTheirControls == Spec => []ListAnswersTheControls
<1>1. CatalogInv => ListAnswersTheControls
  <2> SUFFICES ASSUME CatalogInv, Answered
               PROVE  /\ shown # None /\ shown.about = controls
                      /\ Matches[controls.query] > 0 => hasty \/ shown.rows > 0
    BY DEF ListAnswersTheControls
  <2>1. ListInv /\ asked = <<>> /\ ~misshown /\ ~outdated /\ controls.target # None
    BY DEF CatalogInv, Answered, Visible, ListInv
  <2>2. shown # None /\ shown.about = controls
    BY <2>1 DEF ListInv, NewestAnswered
  <2>3. shown.rows = RowsOn(controls)
    BY <2>1, <2>2, AnswersOfTheServer DEF ListInv, ShownIsAnAnswer, Answered
  <2> QED BY <2>1, <2>2, <2>3 DEF ListInv, Reaches
<1> QED BY <1>1, CatalogStart, CatalogStep, PTL DEF Spec

---------------------------------------------------------------------------
(* The collaboration page.                                                 *)

Shows == [Rooms -> Seq(Rooms \X Nat)]
Snapshots == [rooms : Seq(Rooms), shown : Shows]
Pages == [loaded : Snapshots, rooms : Seq(Rooms), shown : Shows, active : Rooms, draft : Nat,
          pending : SUBSET Mutations]
Requests == [state : {"gone", "sent", "stored", "refused"}, room : Rooms, text : Nat]
Creations == [state : {"none", "sent", "made"}, room : Rooms]
Counts == [texts : Nat, sends : Nat, loads : Nat, switches : Nat]

ComposerType ==
  /\ log \in [Rooms -> Seq(Actors \X Mutations)]
  /\ rooms \in Seq(Rooms)
  /\ page \in [Actors -> Pages]
  /\ request \in [Actors -> [Mutations -> Requests]]
  /\ creation \in [Actors -> Creations]
  /\ bounds \in [Actors -> Counts]
  /\ confirmed \in [Actors -> SUBSET (Rooms \X Nat)]

\* A room has messages once it is made, and each of them once.
LogsHold ==
  /\ rooms # <<>>
  /\ \A r \in Rooms :
       /\ \A i, j \in DOMAIN log[r] : log[r][i] = log[r][j] => i = j
       /\ log[r] # <<>> => Listed(rooms, r)

InLogOrder(messages, r) ==
  /\ Elements(messages) \subseteq {r} \X DOMAIN log[r]
  /\ \A i, j \in DOMAIN messages : i < j => messages[i][2] < messages[j][2]

\* The rooms and messages of a page.
PageHolds(a) ==
  /\ Listed(page[a].rooms, page[a].active) /\ page[a].loaded.rooms # <<>>
  /\ \A i \in DOMAIN page[a].rooms : Listed(rooms, page[a].rooms[i])
  /\ \A i \in DOMAIN page[a].loaded.rooms : Listed(rooms, page[a].loaded.rooms[i])
  /\ \A r \in Rooms : /\ InLogOrder(page[a].shown[r], r)
                      /\ InLogOrder(page[a].loaded.shown[r], r)
                      /\ Elements(page[a].loaded.shown[r]) \subseteq Elements(page[a].shown[r])
  /\ \A c \in confirmed[a] : c \in Elements(page[a].shown[c[1]])

\* At most one message waits for its reply; where it is stored, it comes after all
\* that the page shows of its room.
RequestHolds(a, k, r) ==
  /\ Listed(rooms, r)
  /\ request[a][k].state = "stored" => Room(r)!Stored(a, k)
  /\ k \in page[a].pending /\ request[a][k].state = "stored"
       => \A m \in Elements(page[a].shown[r]) : m[2] < Position(r, a, k)

RequestsHold(a) ==
  /\ \A k, l \in page[a].pending : k = l
  /\ \A k \in Mutations : RequestHolds(a, k, request[a][k].room)

\* A room whose reply is on its way is unknown to the page of its maker.
CreationHolds(a) ==
  creation[a].state = "made" =>
    LET r == creation[a].room
    IN /\ Listed(rooms, r) /\ ~Listed(page[a].rooms, r) /\ ~Listed(page[a].loaded.rooms, r)
       /\ page[a].shown[r] = <<>> /\ page[a].loaded.shown[r] = <<>>
       /\ \A k \in Mutations : request[a][k].room # r

ComposerInv ==
  /\ ComposerType
  /\ LogsHold
  /\ \A a \in Actors : PageHolds(a) /\ RequestsHold(a) /\ CreationHolds(a)

---------------------------------------------------------------------------
LEMMA PositionIs ==
  ASSUME ComposerType, LogsHold, NEW r \in Rooms, NEW a, NEW k,
         NEW i \in DOMAIN log[r], log[r][i] = <<a, k>>
  PROVE  Position(r, a, k) = i
<1> DEFINE P(j) == log[r][j] = <<a, k>>
<1>1. \A j \in DOMAIN log[r] : P(j) => j = i
  BY DEF LogsHold
<1>2. P(CHOOSE j \in DOMAIN log[r] : P(j)) /\ (CHOOSE j \in DOMAIN log[r] : P(j)) \in DOMAIN log[r]
  <2>1. \E j \in DOMAIN log[r] : P(j)
    OBVIOUS
  <2> HIDE DEF P
  <2> QED BY <2>1
<1> QED
  BY <1>1, <1>2 DEF Position

\* The same, of the state after a step.
LEMMA PositionWillBe ==
  ASSUME LogsHold', NEW r \in Rooms, NEW a, NEW k,
         NEW i \in DOMAIN log'[r], log'[r][i] = <<a, k>>
  PROVE  Position(r, a, k)' = i
<1> DEFINE P(j) == log'[r][j] = <<a, k>>
<1>1. \A j \in DOMAIN log'[r] : P(j) => j = i
  BY DEF LogsHold
<1>2. P(CHOOSE j \in DOMAIN log'[r] : P(j)) /\ (CHOOSE j \in DOMAIN log'[r] : P(j)) \in DOMAIN log'[r]
  <2>1. \E j \in DOMAIN log'[r] : P(j)
    OBVIOUS
  <2> HIDE DEF P
  <2> QED BY <2>1
<1> QED
  BY <1>1, <1>2 DEF Position

\* The logs and the list of rooms only grow.
Grows ==
  /\ \A r \in Rooms : /\ DOMAIN log[r] \subseteq DOMAIN log'[r]
                      /\ \A i \in DOMAIN log[r] : log'[r][i] = log[r][i]
                      /\ Listed(rooms, r) => Listed(rooms', r)
  /\ LogsHold'

LEMMA PositionStays ==
  ASSUME ComposerType, LogsHold, Grows, NEW r \in Rooms, NEW a, NEW k, Room(r)!Stored(a, k)
  PROVE  Room(r)!Stored(a, k)' /\ Position(r, a, k)' = Position(r, a, k)
<1>1. PICK i \in DOMAIN log[r] : log[r][i] = <<a, k>>
  BY DEF Room!Stored
<1>2. Position(r, a, k) = i
  BY <1>1, PositionIs
<1>3. i \in DOMAIN log'[r] /\ log'[r][i] = <<a, k>>
  BY <1>1 DEF Grows
<1>4. Position(r, a, k)' = i
  BY <1>3, PositionWillBe DEF Grows
<1> QED
  BY <1>2, <1>3, <1>4 DEF Room!Stored

\* A request that keeps its room, and is stored or waited for only if it was, on a
\* page that shows nothing more of that room.
LEMMA RequestGoesOn ==
  ASSUME ComposerType, LogsHold, Grows, NEW a \in Actors, NEW k \in Mutations,
         NEW r \in Rooms, RequestHolds(a, k, r),
         request'[a][k].state = "stored" => request[a][k].state = "stored",
         k \in page'[a].pending => k \in page[a].pending,
         Elements(page'[a].shown[r]) \subseteq Elements(page[a].shown[r])
  PROVE  RequestHolds(a, k, r)'
<1>1. Listed(rooms', r)
  BY DEF RequestHolds, Grows
<1>2. CASE request'[a][k].state = "stored"
  <2>1. Room(r)!Stored(a, k)
    BY <1>2 DEF RequestHolds
  <2>2. Room(r)!Stored(a, k)' /\ Position(r, a, k)' = Position(r, a, k)
    BY <2>1, PositionStays
  <2>3. k \in page'[a].pending
          => \A m \in Elements(page'[a].shown[r]) : m[2] < Position(r, a, k)
    BY <1>2 DEF RequestHolds
  <2> QED BY <1>1, <1>2, <2>2, <2>3 DEF RequestHolds, Elements
<1> QED
  BY <1>1, <1>2 DEF RequestHolds

LEMMA RequestsTogether ==
  ASSUME NEW a \in Actors, \A k, l \in page'[a].pending : k = l,
         \A k \in Mutations : \E r \in Rooms : r = request'[a][k].room /\ RequestHolds(a, k, r)'
  PROVE  RequestsHold(a)'
BY DEF RequestsHold, RequestHolds, Room!Stored, Position, Elements

LEMMA RequestsGoOn ==
  ASSUME ComposerType, LogsHold, Grows, NEW a \in Actors, RequestsHold(a),
         \A k \in Mutations : /\ request'[a][k].room = request[a][k].room
                              /\ request'[a][k].state = "stored" => request[a][k].state = "stored",
         page'[a].pending \subseteq page[a].pending,
         \A r \in Rooms : Elements(page'[a].shown[r]) \subseteq Elements(page[a].shown[r])
  PROVE  RequestsHold(a)'
<1>1. ASSUME NEW k \in Mutations
      PROVE  \E r \in Rooms : r = request'[a][k].room /\ RequestHolds(a, k, r)'
  <2>1. PICK r \in Rooms : r = request[a][k].room
    BY DEF ComposerType, Requests
  <2>2. RequestHolds(a, k, r)
    BY <2>1 DEF RequestsHold
  <2> QED BY <2>1, <2>2, RequestGoesOn
<1> QED
  BY <1>1, RequestsTogether DEF RequestsHold

\* A page that a step leaves alone.
LEMMA PageGoesOn ==
  ASSUME ComposerType, Grows, NEW a \in Actors, PageHolds(a),
         page'[a] = page[a], confirmed'[a] = confirmed[a]
  PROVE  PageHolds(a)'
<1>1. ASSUME NEW r \in Rooms, NEW s, InLogOrder(s, r) PROVE InLogOrder(s, r)'
  BY <1>1 DEF InLogOrder, Grows
<1>2. page[a] \in Pages
  BY DEF ComposerType
<1>3. \A i \in DOMAIN page[a].rooms : page[a].rooms[i] \in Rooms
  BY <1>2 DEF Pages
<1>4. \A i \in DOMAIN page[a].loaded.rooms : page[a].loaded.rooms[i] \in Rooms
  BY <1>2 DEF Pages, Snapshots
<1>5. /\ \A i \in DOMAIN page[a].rooms : Listed(rooms', page[a].rooms[i])
      /\ \A i \in DOMAIN page[a].loaded.rooms : Listed(rooms', page[a].loaded.rooms[i])
  BY <1>3, <1>4 DEF PageHolds, Grows
<1>6. ASSUME NEW r \in Rooms
      PROVE  InLogOrder(page[a].shown[r], r)' /\ InLogOrder(page[a].loaded.shown[r], r)'
  <2>1. InLogOrder(page[a].shown[r], r) /\ InLogOrder(page[a].loaded.shown[r], r)
    BY DEF PageHolds
  <2> QED BY <2>1, <1>1 DEF InLogOrder
<1> QED
  BY <1>5, <1>6 DEF PageHolds

\* A room creation, when the requests of its maker keep their rooms.
LEMMA CreationGoesOn ==
  ASSUME ComposerType, Grows, NEW a \in Actors, CreationHolds(a), creation'[a] = creation[a],
         page'[a].rooms = page[a].rooms, page'[a].loaded = page[a].loaded,
         page'[a].shown = page[a].shown,
         \A k \in Mutations : request'[a][k].room = request[a][k].room
  PROVE  CreationHolds(a)'
<1>1. creation[a].room \in Rooms
  BY DEF ComposerType, Creations
<1> QED
  BY <1>1 DEF CreationHolds, Grows

\* A member whose page and requests a step leaves alone.
LEMMA MemberGoesOn ==
  ASSUME ComposerType, LogsHold, Grows, NEW a \in Actors,
         PageHolds(a), RequestsHold(a), CreationHolds(a),
         page'[a] = page[a], request'[a] = request[a], creation'[a] = creation[a],
         confirmed'[a] = confirmed[a]
  PROVE  PageHolds(a)' /\ RequestsHold(a)' /\ CreationHolds(a)'
BY PageGoesOn, RequestsGoOn, CreationGoesOn

\* What EXCEPT does to the page of a member, field by field.
SamePage(p, q, fields) ==
  \A f \in {"loaded", "rooms", "shown", "active", "draft", "pending"} \ fields : q[f] = p[f]

WithField(pages, a, f, v) == [pages EXCEPT ![a][f] = v]

LEMMA PageWith ==
  ASSUME NEW f \in {"loaded", "rooms", "shown", "active", "draft", "pending"},
         NEW pages \in [Actors -> Pages], NEW a \in Actors, NEW v,
         f = "loaded" => v \in Snapshots, f = "rooms" => v \in Seq(Rooms), f = "shown" => v \in Shows,
         f = "active" => v \in Rooms, f = "draft" => v \in Nat, f = "pending" => v \subseteq Mutations,
         NEW next, next = WithField(pages, a, f, v)
  PROVE  /\ next \in [Actors -> Pages]
         /\ \A b \in Actors \ {a} : next[b] = pages[b]
         /\ next[a][f] = v /\ SamePage(pages[a], next[a], {f})
<1> DEFINE q == [pages[a] EXCEPT ![f] = v]
<1>1. pages[a] \in Pages
  OBVIOUS
<1>2. q \in Pages /\ q[f] = v /\ SamePage(pages[a], q, {f})
  BY <1>1 DEF Pages, SamePage
<1>3. next = [pages EXCEPT ![a] = q]
  BY DEF WithField
<1> HIDE DEF q
<1> QED BY <1>2, <1>3

LEMMA RequestReplaced ==
  ASSUME request \in [Actors -> [Mutations -> Requests]], NEW a \in Actors, NEW k \in Mutations,
         NEW q \in Requests, request' = [request EXCEPT ![a][k] = q]
  PROVE  /\ request' \in [Actors -> [Mutations -> Requests]]
         /\ \A b \in Actors \ {a} : request'[b] = request[b]
         /\ request'[a] = [request[a] EXCEPT ![k] = q]
<1>1. request[a] \in [Mutations -> Requests]
  OBVIOUS
<1>2. [request[a] EXCEPT ![k] = q] \in [Mutations -> Requests]
  BY <1>1
<1>3. request' = [request EXCEPT ![a] = [request[a] EXCEPT ![k] = q]]
  OBVIOUS
<1> QED
  BY <1>2, <1>3

Marked(a, k, s) == [request EXCEPT ![a][k].state = s]

LEMMA RequestWith ==
  ASSUME ComposerType, NEW a \in Actors, NEW k \in Mutations,
         NEW s \in {"gone", "sent", "stored", "refused"},
         request' = Marked(a, k, s)
  PROVE  /\ request' \in [Actors -> [Mutations -> Requests]]
         /\ \A b \in Actors \ {a} : request'[b] = request[b]
         /\ \A l \in Mutations : /\ request'[a][l].room = request[a][l].room
                                 /\ l # k => request'[a][l] = request[a][l]
         /\ request'[a][k].state = s
<1> DEFINE q == [request[a][k] EXCEPT !.state = s]
<1>1. request[a] \in [Mutations -> Requests] /\ request[a][k] \in Requests
  BY DEF ComposerType
<1>2. q \in Requests /\ q.room = request[a][k].room /\ q.state = s
  BY <1>1 DEF Requests
<1>3. request' = [request EXCEPT ![a][k] = q]
  BY DEF Marked
<1>4. /\ request' \in [Actors -> [Mutations -> Requests]]
      /\ \A b \in Actors \ {a} : request'[b] = request[b]
      /\ request'[a] = [request[a] EXCEPT ![k] = q]
  <2>1. request \in [Actors -> [Mutations -> Requests]] /\ q \in Requests
    BY <1>2 DEF ComposerType
  <2> HIDE DEF q
  <2> QED BY <1>3, <2>1, RequestReplaced
<1> HIDE DEF q
<1> QED
  BY <1>1, <1>2, <1>4

LEMMA Quiet == ASSUME LogsHold, UNCHANGED <<log, rooms>> PROVE Grows
BY DEF Grows, LogsHold, Listed

\* What is left of a step when the logs grow and other members are left alone.
LEMMA OthersGoOn ==
  ASSUME ComposerInv, Grows, ComposerType', NEW a \in Actors,
         \A b \in Actors \ {a} : /\ page'[b] = page[b] /\ request'[b] = request[b]
                                 /\ creation'[b] = creation[b] /\ confirmed'[b] = confirmed[b],
         PageHolds(a)', RequestsHold(a)', CreationHolds(a)'
  PROVE  ComposerInv'
<1>1. ASSUME NEW b \in Actors \ {a}
      PROVE  PageHolds(b)' /\ RequestsHold(b)' /\ CreationHolds(b)'
  BY MemberGoesOn DEF ComposerInv
<1>2. LogsHold'
  BY DEF Grows
<1> QED
  BY <1>1, <1>2 DEF ComposerInv

\* A step that leaves all but the text box and the open room of its member.
LEMMA BoxStep ==
  ASSUME ComposerInv, NEW a \in Actors, Type(a) \/ \E r \in Rooms : OpenRoom(a, r)
  PROVE  ComposerInv'
<1>1. PICK q \in Pages :
        /\ q.loaded = page[a].loaded /\ q.rooms = page[a].rooms /\ q.shown = page[a].shown
        /\ q.pending = page[a].pending /\ Listed(q.rooms, q.active)
        /\ page' = [page EXCEPT ![a] = q]
  <2>1. page[a] \in Pages /\ bounds[a].texts \in Nat /\ Listed(page[a].rooms, page[a].active)
    BY DEF ComposerInv, ComposerType, Counts, PageHolds
  <2>2. CASE Type(a)
    <3> DEFINE n == bounds[a].texts + 1
               q == [page[a] EXCEPT !.draft = n]
    <3>1. page' = [page EXCEPT ![a] = q]
      BY <2>2 DEF Type
    <3>2. n \in Nat
      BY <2>1
    <3> HIDE DEF n
    <3>3. /\ q \in Pages
          /\ q.loaded = page[a].loaded /\ q.rooms = page[a].rooms
          /\ q.shown = page[a].shown /\ q.pending = page[a].pending
          /\ q.active = page[a].active
      BY <2>1, <3>2 DEF Pages
    <3> HIDE DEF q
    <3> QED BY <2>1, <3>1, <3>3
  <2>3. ASSUME NEW r \in Rooms, OpenRoom(a, r)
        PROVE  LET q == [page[a] EXCEPT !.active = r]
               IN /\ q \in Pages
                  /\ q.loaded = page[a].loaded /\ q.rooms = page[a].rooms
                  /\ q.shown = page[a].shown /\ q.pending = page[a].pending
                  /\ Listed(q.rooms, q.active)
                  /\ page' = [page EXCEPT ![a] = q]
    BY <2>1, <2>3 DEF Pages, OpenRoom
  <2> QED BY <2>2, <2>3
<1>2. UNCHANGED <<log, rooms, request, creation, confirmed>>
  BY DEF Type, OpenRoom
<1>3. bounds' \in [Actors -> Counts]
  <2>1. CASE Type(a)
    <3>1. PICK n \in Nat : n = bounds[a].texts + 1
      BY DEF ComposerInv, ComposerType, Counts
    <3>2. [bounds[a] EXCEPT !.texts = n] \in Counts
      BY DEF ComposerInv, ComposerType, Counts
    <3>3. bounds' = [bounds EXCEPT ![a] = [bounds[a] EXCEPT !.texts = n]]
      BY <2>1, <3>1 DEF Type
    <3> QED BY <3>2, <3>3 DEF ComposerInv, ComposerType
  <2>2. CASE UNCHANGED bounds
    BY <2>2 DEF ComposerInv, ComposerType
  <2> QED BY <2>1, <2>2 DEF OpenRoom
<1>4. ComposerType'
  BY <1>1, <1>2, <1>3 DEF ComposerInv, ComposerType
<1>5. page'[a] = q /\ \A b \in Actors \ {a} : page'[b] = page[b]
  BY <1>1 DEF ComposerInv, ComposerType
<1>6. PageHolds(a)'
  BY <1>1, <1>2, <1>5 DEF ComposerInv, PageHolds, InLogOrder
<1>7. RequestsHold(a)'
  BY <1>1, <1>2, <1>5, Quiet, RequestsGoOn DEF ComposerInv
<1>8. CreationHolds(a)'
  BY <1>1, <1>2, <1>5 DEF ComposerInv, CreationHolds
<1> QED
  BY <1>2, <1>4, <1>5, <1>6, <1>7, <1>8, Quiet, OthersGoOn DEF ComposerInv

\* A request that is refused or lost.
LEMMA LossStep ==
  ASSUME ComposerInv, NEW a \in Actors, NEW k \in Mutations, Refuse(a, k) \/ Vanish(a, k)
  PROVE  ComposerInv'
<1>1. PICK s \in {"gone", "sent", "stored", "refused"} :
        s # "stored" /\ request' = Marked(a, k, s)
  BY DEF Refuse, Vanish, Marked
<1>2. UNCHANGED <<log, rooms, page, creation, bounds, confirmed>>
  BY DEF Refuse, Vanish
<1>3. /\ request' \in [Actors -> [Mutations -> Requests]]
      /\ \A b \in Actors \ {a} : request'[b] = request[b]
      /\ \A l \in Mutations : /\ request'[a][l].room = request[a][l].room
                              /\ request'[a][l].state = "stored"
                                   => request[a][l].state = "stored"
  <2>1. /\ request' \in [Actors -> [Mutations -> Requests]]
        /\ \A b \in Actors \ {a} : request'[b] = request[b]
        /\ \A l \in Mutations : /\ request'[a][l].room = request[a][l].room
                                /\ l # k => request'[a][l] = request[a][l]
        /\ request'[a][k].state = s
    <3>1. ComposerType
      BY DEF ComposerInv
    <3> QED BY <1>1, <3>1, RequestWith
  <2> QED BY <1>1, <2>1
<1>4. ComposerType'
  BY <1>2, <1>3 DEF ComposerInv, ComposerType
<1>5. PageHolds(a)'
  BY <1>2 DEF ComposerInv, PageHolds, InLogOrder
<1>6. RequestsHold(a)'
  BY <1>2, <1>3, Quiet, RequestsGoOn DEF ComposerInv
<1>7. CreationHolds(a)'
  BY <1>2, <1>3, Quiet, CreationGoesOn DEF ComposerInv
<1> QED
  BY <1>2, <1>3, <1>4, <1>5, <1>6, <1>7, Quiet, OthersGoOn DEF ComposerInv

\* A room creation that starts or is given up.
LEMMA AskStep ==
  ASSUME ComposerInv, NEW a \in Actors, AskForRoom(a) \/ RoomRefused(a)
  PROVE  ComposerInv'
<1>1. UNCHANGED <<log, rooms, page, request, bounds, confirmed>>
  BY DEF AskForRoom, RoomRefused
<1>2. /\ creation' \in [Actors -> Creations]
      /\ \A b \in Actors \ {a} : creation'[b] = creation[b]
      /\ creation'[a].state # "made"
  <2>1. PICK q \in Creations : q.state # "made" /\ creation' = [creation EXCEPT ![a] = q]
    <3>1. [creation[a] EXCEPT !.state = "sent"] \in Creations /\ NoCreation \in Creations
      BY ComposerAssumption DEF NoCreation, ComposerInv, ComposerType, Creations
    <3>2. [creation[a] EXCEPT !.state = "sent"].state = "sent" /\ NoCreation.state = "none"
      BY DEF NoCreation, ComposerInv, ComposerType, Creations
    <3>3. CASE AskForRoom(a)
      <4>1. creation' = [creation EXCEPT ![a] = [creation[a] EXCEPT !.state = "sent"]]
        BY <3>3 DEF AskForRoom
      <4> QED BY <3>1, <3>2, <4>1
    <3>4. CASE RoomRefused(a)
      BY <3>1, <3>2, <3>4 DEF RoomRefused
    <3> QED BY <3>3, <3>4
  <2> QED BY <2>1 DEF ComposerInv, ComposerType
<1>3. ComposerType'
  BY <1>1, <1>2 DEF ComposerInv, ComposerType
<1>4. PageHolds(a)'
  BY <1>1 DEF ComposerInv, PageHolds, InLogOrder
<1>5. RequestsHold(a)'
  BY <1>1, Quiet, RequestsGoOn DEF ComposerInv
<1>6. CreationHolds(a)'
  BY <1>2 DEF CreationHolds
<1> QED
  BY <1>1, <1>2, <1>3, <1>4, <1>5, <1>6, Quiet, OthersGoOn DEF ComposerInv

LEMMA StoreMessageStep ==
  ASSUME ComposerInv, NEW a \in Actors, NEW k \in Mutations, Store(a, k)
  PROVE  ComposerInv'
<1> USE DEF ComposerInv
<1>1. PICK r \in Rooms : r = request[a][k].room
  BY DEF ComposerType, Requests
<1>2. /\ log' = [log EXCEPT ![r] = Append(@, <<a, k>>)]
      /\ ~Room(r)!Stored(a, k)
      /\ UNCHANGED <<rooms, page, creation, bounds, confirmed>>
  BY <1>1 DEF Store
<1>3. /\ request' \in [Actors -> [Mutations -> Requests]]
      /\ \A b \in Actors \ {a} : request'[b] = request[b]
      /\ \A l \in Mutations : /\ request'[a][l].room = request[a][l].room
                              /\ l # k => request'[a][l] = request[a][l]
      /\ request'[a][k].state = "stored"
  <2>1. request' = Marked(a, k, "stored")
    BY DEF Store, Marked
  <2> QED BY <2>1, RequestWith
<1>4. /\ log' \in [Rooms -> Seq(Actors \X Mutations)]
      /\ \A s \in Rooms \ {r} : log'[s] = log[s]
      /\ log'[r] = Append(log[r], <<a, k>>) /\ log[r] \in Seq(Actors \X Mutations)
  <2>1. log \in [Rooms -> Seq(Actors \X Mutations)]
    BY DEF ComposerType
  <2> QED BY <1>2, <2>1
<1>5. /\ DOMAIN log[r] = 1..Len(log[r]) /\ Len(log[r]) \in Nat
      /\ DOMAIN log'[r] = 1..(Len(log[r]) + 1)
      /\ log'[r][Len(log[r]) + 1] = <<a, k>>
      /\ \A i \in DOMAIN log[r] : log'[r][i] = log[r][i] /\ log[r][i] # <<a, k>>
  BY <1>2, <1>4 DEF Room!Stored
<1>6. Listed(rooms, r)
  BY <1>1 DEF RequestsHold, RequestHolds
<1>7. LogsHold'
  <2>1. ASSUME NEW s \in Rooms, NEW i \in DOMAIN log'[s], NEW j \in DOMAIN log'[s],
               log'[s][i] = log'[s][j]
        PROVE  i = j
    <3>1. CASE s # r
      BY <1>4, <2>1, <3>1 DEF LogsHold
    <3>2. CASE s = r
      <4> DEFINE n == Len(log[r])
      <4>1. i \in 1..(n + 1) /\ j \in 1..(n + 1) /\ n \in Nat
        BY <1>5, <2>1, <3>2
      <4>2. CASE i \in 1..n /\ j \in 1..n
        BY <1>5, <2>1, <3>2, <4>2 DEF LogsHold
      <4>3. CASE i = n + 1 \/ j = n + 1
        BY <1>5, <2>1, <3>2, <4>1, <4>3
      <4> HIDE DEF n
      <4> QED BY <4>1, <4>2, <4>3
    <3> QED BY <3>1, <3>2
  <2>2. ASSUME NEW s \in Rooms, log'[s] # <<>> PROVE Listed(rooms, s)
    BY <1>4, <1>6, <2>2 DEF LogsHold
  <2> QED BY <1>2, <2>1, <2>2 DEF LogsHold, Listed
<1>8. Grows
  BY <1>2, <1>4, <1>5, <1>7 DEF Grows
<1>9. ComposerType'
  BY <1>2, <1>3, <1>4 DEF ComposerType
<1>10. RequestsHold(a)'
  <2>1. ASSUME NEW l \in Mutations
        PROVE  \E s \in Rooms : s = request'[a][l].room /\ RequestHolds(a, l, s)'
    <3>1. PICK s \in Rooms : s = request[a][l].room
      BY DEF ComposerType, Requests
    <3>2. RequestHolds(a, l, s)
      BY <3>1 DEF RequestsHold
    <3>3. CASE l # k
      BY <1>2, <1>3, <1>8, <3>1, <3>2, <3>3, RequestGoesOn
    <3>4. CASE l = k
      <4>1. s = r
        BY <1>1, <3>1, <3>4
      <4>2. Position(r, a, k)' = Len(log[r]) + 1
        <5> DEFINE i == Len(log[r]) + 1
        <5>1. i \in DOMAIN log'[r] /\ log'[r][i] = <<a, k>>
          BY <1>5
        <5> HIDE DEF i
        <5>2. Position(r, a, k)' = i
          BY <1>7, <5>1, PositionWillBe
        <5> QED BY <5>2 DEF i
      <4>3. \A m \in Elements(page[a].shown[r]) : m[2] \in 1..Len(log[r])
        BY <1>5 DEF PageHolds, InLogOrder
      <4>4. \A m \in Elements(page'[a].shown[r]) : m[2] < Position(r, a, k)'
        BY <1>2, <1>5, <4>2, <4>3 DEF Elements
      <4>5. Listed(rooms', r) /\ Room(r)!Stored(a, k)'
        BY <1>2, <1>5, <1>6 DEF Room!Stored
      <4> QED BY <1>3, <3>1, <3>4, <4>1, <4>4, <4>5 DEF RequestHolds
    <3> QED BY <3>3, <3>4
  <2>2. \A l, m \in page'[a].pending : l = m
    BY <1>2 DEF RequestsHold
  <2> QED BY <2>1, <2>2, RequestsTogether
<1>11. PageHolds(a)' /\ CreationHolds(a)'
  BY <1>2, <1>3, <1>8, PageGoesOn, CreationGoesOn
<1> QED
  BY <1>2, <1>3, <1>8, <1>9, <1>10, <1>11, OthersGoOn

\* The page after an error: the request is marked, nobody waits for it.
LEMMA FailStep ==
  ASSUME ComposerInv, NEW a \in Actors, NEW k \in Mutations, FailMessage(a, k)
  PROVE  ComposerInv'
<1> USE DEF ComposerInv
<1>1. PICK s \in {"gone", "sent", "stored", "refused"} :
        s # "stored" /\ request' = Marked(a, k, s)
  <2>1. CASE request[a][k].state = "sent"
    BY <2>1 DEF FailMessage, Marked
  <2>2. CASE request[a][k].state # "sent"
    BY <2>2 DEF FailMessage, Marked
  <2> QED BY <2>1, <2>2
<1>2. UNCHANGED <<log, rooms, creation, bounds, confirmed>>
  BY DEF FailMessage
<1>3. /\ request' \in [Actors -> [Mutations -> Requests]]
      /\ \A b \in Actors \ {a} : request'[b] = request[b]
      /\ \A l \in Mutations : /\ request'[a][l].room = request[a][l].room
                              /\ request'[a][l].state = "stored" => request[a][l].state = "stored"
  BY <1>1, RequestWith
<1>4. /\ page' \in [Actors -> Pages]
      /\ \A b \in Actors \ {a} : page'[b] = page[b]
      /\ page'[a].loaded = page[a].loaded /\ page'[a].rooms = page[a].rooms
      /\ page'[a].shown = page[a].shown /\ page'[a].active = page[a].active
      /\ page'[a].pending \subseteq page[a].pending
  <2>1. page \in [Actors -> Pages] /\ page[a] \in Pages
    BY DEF ComposerType
  <2>2. PICK p, q : /\ p = WithField(page, a, "draft", page[a].draft)
                    /\ q = WithField(p, a, "pending", p[a].pending \ {k}) /\ page' = q
    BY DEF FailMessage, DraftOnError, WithField
  <2>3. /\ p \in [Actors -> Pages] /\ \A b \in Actors \ {a} : p[b] = page[b]
        /\ SamePage(page[a], p[a], {"draft"})
    <3>1. page[a].draft \in Nat
      BY <2>1 DEF Pages
    <3> QED BY <2>1, <2>2, <3>1, PageWith
  <2>4. /\ q \in [Actors -> Pages] /\ \A b \in Actors \ {a} : q[b] = p[b]
        /\ q[a]["pending"] = p[a].pending \ {k} /\ SamePage(p[a], q[a], {"pending"})
    <3>1. p[a].pending \ {k} \subseteq Mutations
      BY <2>3 DEF Pages
    <3> QED BY <2>2, <2>3, <3>1, PageWith
  <2> QED BY <2>1, <2>2, <2>3, <2>4 DEF SamePage, Pages
<1>5. ComposerType'
  BY <1>2, <1>3, <1>4 DEF ComposerType
<1>6. PageHolds(a)'
  BY <1>2, <1>4 DEF PageHolds, InLogOrder
<1>7. RequestsHold(a)'
  BY <1>2, <1>3, <1>4, Quiet, RequestsGoOn
<1>8. CreationHolds(a)'
  BY <1>2, <1>3, <1>4, Quiet, CreationGoesOn
<1> QED
  BY <1>2, <1>3, <1>4, <1>5, <1>6, <1>7, <1>8, Quiet, OthersGoOn

LEMMA SubmitMessageStep ==
  ASSUME ComposerInv, NEW a \in Actors, SubmitMessage(a)
  PROVE  ComposerInv'
<1> USE DEF ComposerInv
<1> DEFINE k == bounds[a].sends + 1
           q == [state |-> "sent", room |-> page[a].active, text |-> page[a].draft]
<1>1. page[a] \in Pages /\ bounds[a] \in Counts /\ k \in Nat
  BY DEF ComposerType, Counts
<1>2. k \in Mutations
  <2>1. MaxSends \in [Actors -> Nat] /\ 1..MaxSends[a] \subseteq Mutations
    BY ComposerAssumption
  <2>2. bounds[a].sends < MaxSends[a]
    BY DEF SubmitMessage
  <2> QED BY <1>1, <2>1, <2>2 DEF Counts
<1>3. page[a].pending = {}
  BY DEF SubmitMessage, MaySubmit
<1>4. UNCHANGED <<log, rooms, creation, confirmed>>
  BY DEF SubmitMessage
<1>5. bounds' \in [Actors -> Counts]
  <2>1. bounds' = [bounds EXCEPT ![a] = [bounds[a] EXCEPT !.sends = k]]
    BY DEF SubmitMessage
  <2>2. [bounds[a] EXCEPT !.sends = k] \in Counts
    BY <1>1 DEF Counts
  <2> QED BY <2>1, <2>2 DEF ComposerType
<1>6. request' = [request EXCEPT ![a][k] = q]
  BY DEF SubmitMessage
<1>7. q \in Requests /\ q.room = page[a].active /\ q.state = "sent"
  BY <1>1 DEF Pages, Requests
<1>8. page' = WithField(page, a, "pending", page[a].pending \union {k})
  BY DEF SubmitMessage, WithField
<1> HIDE DEF k, q
<1>9. /\ page' \in [Actors -> Pages]
      /\ \A b \in Actors \ {a} : page'[b] = page[b]
      /\ page'[a].loaded = page[a].loaded /\ page'[a].rooms = page[a].rooms
      /\ page'[a].shown = page[a].shown /\ page'[a].active = page[a].active
      /\ page'[a].pending = {k}
  <2>1. page \in [Actors -> Pages] /\ page[a].pending \union {k} \subseteq Mutations
    BY <1>2, <1>3 DEF ComposerType
  <2>2. /\ page' \in [Actors -> Pages] /\ \A b \in Actors \ {a} : page'[b] = page[b]
        /\ page'[a]["pending"] = page[a].pending \union {k} /\ SamePage(page[a], page'[a], {"pending"})
    BY <1>8, <2>1, PageWith
  <2> QED BY <1>1, <1>3, <2>2 DEF SamePage, Pages
<1>10. /\ request' \in [Actors -> [Mutations -> Requests]]
       /\ \A b \in Actors \ {a} : request'[b] = request[b]
       /\ request'[a][k] = q
       /\ \A l \in Mutations \ {k} : request'[a][l] = request[a][l]
  <2>1. request \in [Actors -> [Mutations -> Requests]] /\ request[a] \in [Mutations -> Requests]
    BY DEF ComposerType
  <2>2. /\ request' \in [Actors -> [Mutations -> Requests]]
        /\ \A b \in Actors \ {a} : request'[b] = request[b]
        /\ request'[a] = [request[a] EXCEPT ![k] = q]
    BY <1>2, <1>6, <1>7, <2>1, RequestReplaced
  <2> QED BY <1>2, <2>1, <2>2
<1>11. ComposerType'
  BY <1>4, <1>5, <1>9, <1>10 DEF ComposerType
<1>12. Grows
  BY <1>4, Quiet
<1>13. PageHolds(a)'
  BY <1>4, <1>9 DEF PageHolds, InLogOrder
<1>14. RequestsHold(a)'
  <2>1. ASSUME NEW l \in Mutations
        PROVE  \E r \in Rooms : r = request'[a][l].room /\ RequestHolds(a, l, r)'
    <3>1. CASE l = k
      <4>1. page[a].active \in Rooms /\ Listed(rooms, page[a].active)
        BY <1>1 DEF Pages, PageHolds, Listed
      <4> QED BY <1>4, <1>7, <1>10, <3>1, <4>1 DEF RequestHolds, Listed
    <3>2. CASE l # k
      <4>1. PICK r \in Rooms : r = request[a][l].room
        BY DEF ComposerType, Requests
      <4>2. RequestHolds(a, l, r)
        BY <4>1 DEF RequestsHold
      <4>3. request'[a][l] = request[a][l] /\ l \notin page'[a].pending
            /\ page'[a].shown = page[a].shown
        BY <1>9, <1>10, <3>2
      <4>4. RequestHolds(a, l, r)'
        BY <1>12, <4>2, <4>3, RequestGoesOn
      <4> QED BY <4>1, <4>3, <4>4
    <3> QED BY <3>1, <3>2
  <2>2. \A l, m \in page'[a].pending : l = m
    BY <1>9
  <2> QED BY <2>1, <2>2, RequestsTogether
<1>15. CreationHolds(a)'
  <2>1. ASSUME creation[a].state = "made"
        PROVE  page[a].active # creation[a].room
    BY <2>1 DEF CreationHolds, PageHolds
  <2> QED BY <1>4, <1>7, <1>9, <1>10, <2>1 DEF CreationHolds, Listed
<1> QED
  BY <1>4, <1>9, <1>10, <1>11, <1>12, <1>13, <1>14, <1>15, OthersGoOn

LEMMA AppendKeepsOrder ==
  ASSUME ComposerType, NEW r \in Rooms, NEW s \in Seq(Rooms \X Nat), InLogOrder(s, r),
         NEW i \in DOMAIN log[r], \A m \in Elements(s) : m[2] < i
  PROVE  /\ Append(s, <<r, i>>) \in Seq(Rooms \X Nat)
         /\ InLogOrder(Append(s, <<r, i>>), r)
         /\ Elements(Append(s, <<r, i>>)) = Elements(s) \union {<<r, i>>}
<1>1. i \in Nat
  BY DEF ComposerType
<1> DEFINE t == Append(s, <<r, i>>)
           n == Len(s)
<1>2. /\ t \in Seq(Rooms \X Nat) /\ n \in Nat /\ DOMAIN s = 1..n /\ DOMAIN t = 1..(n + 1)
      /\ t[n + 1] = <<r, i>> /\ \A j \in 1..n : t[j] = s[j]
  BY <1>1
<1> HIDE DEF t, n
<1>3. Elements(t) = Elements(s) \union {<<r, i>>}
  <2>1. ASSUME NEW m \in Elements(t) PROVE m \in Elements(s) \union {<<r, i>>}
    <3>1. PICK j \in 1..(n + 1) : m = t[j]
      BY <1>2 DEF Elements
    <3>2. j \in 1..n \/ j = n + 1
      BY <1>2
    <3> QED BY <1>2, <3>1, <3>2 DEF Elements
  <2>2. ASSUME NEW m \in Elements(s) \union {<<r, i>>} PROVE m \in Elements(t)
    <3>1. 1..n \subseteq 1..(n + 1) /\ n + 1 \in 1..(n + 1)
      BY <1>2
    <3> QED BY <1>2, <3>1 DEF Elements
  <2> QED BY <2>1, <2>2
<1>4. \A m \in 1..n : s[m] \in {r} \X DOMAIN log[r] /\ s[m][2] < i
  BY <1>2 DEF InLogOrder, Elements
<1>5. ASSUME NEW l \in DOMAIN t, NEW m \in DOMAIN t, l < m PROVE t[l][2] < t[m][2]
  <2>1. l \in 1..n /\ (m \in 1..n \/ m = n + 1)
    BY <1>2, <1>5
  <2>2. CASE m \in 1..n
    BY <1>2, <1>5, <2>1, <2>2 DEF InLogOrder
  <2>3. CASE m = n + 1
    BY <1>2, <1>4, <2>1, <2>3
  <2> QED BY <2>1, <2>2, <2>3
<1>6. Elements(t) \subseteq {r} \X DOMAIN log[r]
  BY <1>3 DEF InLogOrder
<1> QED
  BY <1>2, <1>3, <1>5, <1>6 DEF InLogOrder, t

Replied(pages, a, shows, k) ==
  [pages EXCEPT ![a].shown = shows, ![a].draft = NoText, ![a].pending = @ \ {k}]

LEMMA RepliedInSteps ==
  ASSUME NEW pages \in [Actors -> Pages], NEW a \in Actors, NEW shows, NEW k
  PROVE  Replied(pages, a, shows, k) =
           WithField(WithField(WithField(pages, a, "shown", shows), a, "draft", NoText),
                     a, "pending", pages[a].pending \ {k})
BY DEF WithField, Replied

LEMMA ConfirmStep ==
  ASSUME ComposerInv, NEW a \in Actors, NEW k \in Mutations, Confirm(a, k)
  PROVE  ComposerInv'
<1> USE DEF ComposerInv
<1>1. PICK r \in Rooms : r = request[a][k].room
  BY DEF ComposerType, Requests
<1>2. PICK i : i = Position(r, a, k)
  OBVIOUS
<1>3. k \in page[a].pending /\ request[a][k].state = "stored"
  BY DEF Confirm
<1>4. i \in DOMAIN log[r] /\ \A m \in Elements(page[a].shown[r]) : m[2] < i
  <2>1. RequestHolds(a, k, r)
    BY <1>1 DEF RequestsHold
  <2>2. PICK j \in DOMAIN log[r] : log[r][j] = <<a, k>>
    BY <1>3, <2>1 DEF RequestHolds, Room!Stored
  <2> QED BY <1>2, <1>3, <2>1, <2>2, PositionIs DEF RequestHolds
<1>5. /\ page[a] \in Pages /\ page[a].shown \in Shows /\ page[a].shown[r] \in Seq(Rooms \X Nat)
      /\ InLogOrder(page[a].shown[r], r)
      /\ page[a].pending \subseteq Mutations
  BY DEF ComposerType, Pages, Shows, PageHolds
<1>6. PICK s : s = Append(page[a].shown[r], <<r, i>>)
  OBVIOUS
<1>7. /\ s \in Seq(Rooms \X Nat) /\ InLogOrder(s, r)
      /\ Elements(s) = Elements(page[a].shown[r]) \union {<<r, i>>}
  BY <1>4, <1>5, <1>6, AppendKeepsOrder
<1>8. PICK shows : shows = [page[a].shown EXCEPT ![r] = s]
  OBVIOUS
<1>9. /\ shows \in Shows /\ shows[r] = s
      /\ \A t \in Rooms \ {r} : shows[t] = page[a].shown[t]
  BY <1>5, <1>7, <1>8 DEF Shows
<1>10. ShownWith(page[a].shown, r, i) = shows
  <2>1. i \in Nat
    BY <1>4 DEF ComposerType
  <2>2. <<r, i>> \notin Elements(page[a].shown[r])
    BY <1>4, <2>1
  <2> QED BY <1>6, <1>8, <2>2 DEF ShownWith
<1>11. UNCHANGED <<log, rooms, creation, bounds>>
       /\ confirmed' = [confirmed EXCEPT ![a] = @ \union {<<r, i>>}]
  BY <1>1, <1>2 DEF Confirm
<1>12. PICK p : p = WithField(page, a, "shown", shows)
  OBVIOUS
<1>13. PICK q : q = WithField(p, a, "draft", NoText)
  OBVIOUS
<1>14. page' = WithField(q, a, "pending", page[a].pending \ {k})
  <2>1. page' = Replied(page, a, shows, k)
    BY <1>1, <1>2, <1>10 DEF Confirm, RoomOfReply, Replied
  <2>2. page \in [Actors -> Pages]
    BY DEF ComposerType
  <2> QED BY <1>12, <1>13, <2>1, <2>2, RepliedInSteps
<1>15. /\ page' \in [Actors -> Pages]
       /\ \A b \in Actors \ {a} : page'[b] = page[b]
       /\ page'[a].loaded = page[a].loaded /\ page'[a].rooms = page[a].rooms
       /\ page'[a].shown = shows /\ page'[a].active = page[a].active
       /\ page'[a].pending = page[a].pending \ {k}
  <2>1. page \in [Actors -> Pages]
    BY DEF ComposerType
  <2>2. /\ p \in [Actors -> Pages] /\ \A b \in Actors \ {a} : p[b] = page[b]
        /\ p[a]["shown"] = shows /\ SamePage(page[a], p[a], {"shown"})
    BY <1>9, <1>12, <2>1, PageWith
  <2>3. /\ q \in [Actors -> Pages] /\ \A b \in Actors \ {a} : q[b] = p[b]
        /\ SamePage(p[a], q[a], {"draft"})
    <3>1. NoText \in Nat
      BY DEF NoText
    <3> DEFINE n == NoText
    <3>2. q = WithField(p, a, "draft", n) /\ n \in Nat
      BY <1>13, <3>1
    <3> HIDE DEF n
    <3> QED BY <2>2, <3>2, PageWith
  <2>4. /\ page' \in [Actors -> Pages] /\ \A b \in Actors \ {a} : page'[b] = q[b]
        /\ page'[a]["pending"] = page[a].pending \ {k} /\ SamePage(q[a], page'[a], {"pending"})
    <3>1. page[a].pending \ {k} \subseteq Mutations
      BY <1>5
    <3> QED BY <1>14, <2>3, <3>1, PageWith
  <2> QED BY <1>5, <2>2, <2>3, <2>4 DEF SamePage, Pages
<1>16. /\ request' \in [Actors -> [Mutations -> Requests]]
       /\ \A b \in Actors \ {a} : request'[b] = request[b]
       /\ \A l \in Mutations : /\ request'[a][l].room = request[a][l].room
                               /\ l # k => request'[a][l] = request[a][l]
       /\ request'[a][k].state = "gone"
  <2>1. request' = Marked(a, k, "gone")
    BY DEF Confirm, Marked
  <2> QED BY <2>1, RequestWith
<1>17. page'[a].pending = {}
  BY <1>3, <1>15 DEF RequestsHold
<1>18. /\ confirmed' \in [Actors -> SUBSET (Rooms \X Nat)]
       /\ confirmed'[a] = confirmed[a] \union {<<r, i>>}
       /\ \A b \in Actors \ {a} : confirmed'[b] = confirmed[b]
  <2>1. i \in Nat /\ confirmed \in [Actors -> SUBSET (Rooms \X Nat)]
    BY <1>4 DEF ComposerType
  <2> QED BY <1>11, <2>1
<1>19. ComposerType'
  BY <1>11, <1>15, <1>16, <1>18 DEF ComposerType
<1>20. Grows
  BY <1>11, Quiet
<1>21. PageHolds(a)'
  <2>1. ASSUME NEW t \in Rooms
        PROVE  /\ InLogOrder(shows[t], t) /\ InLogOrder(page[a].loaded.shown[t], t)
               /\ Elements(page[a].loaded.shown[t]) \subseteq Elements(shows[t])
               /\ Elements(page[a].shown[t]) \subseteq Elements(shows[t])
    BY <1>7, <1>9 DEF PageHolds
  <2>2. \A c \in confirmed'[a] : c \in Elements(shows[c[1]])
    <3>1. ASSUME NEW c \in confirmed[a] PROVE c \in Elements(shows[c[1]])
      <4>1. c \in Elements(page[a].shown[c[1]]) /\ c[1] \in Rooms
        BY DEF PageHolds, ComposerType
      <4> QED BY <2>1, <4>1
    <3>2. <<r, i>> \in Elements(shows[r])
      BY <1>7, <1>9
    <3> QED BY <1>18, <3>1, <3>2
  <2> QED BY <1>11, <1>15, <2>1, <2>2 DEF PageHolds, InLogOrder
<1>22. RequestsHold(a)'
  <2>1. ASSUME NEW l \in Mutations
        PROVE  \E t \in Rooms : t = request'[a][l].room /\ RequestHolds(a, l, t)'
    <3>1. PICK t \in Rooms : t = request[a][l].room
      BY DEF ComposerType, Requests
    <3>2. RequestHolds(a, l, t)
      BY <3>1 DEF RequestsHold
    <3>3. /\ Listed(rooms, t)
          /\ request'[a][l].state = "stored" => Room(t)!Stored(a, l)
      BY <1>16, <3>2 DEF RequestHolds
    <3> QED BY <1>11, <1>16, <1>17, <3>1, <3>3 DEF RequestHolds, Room!Stored
  <2> QED BY <1>17, <2>1, RequestsTogether
<1>23. CreationHolds(a)'
  <2>1. ASSUME creation[a].state = "made"
        PROVE  shows[creation[a].room] = <<>>
    <3>1. creation[a].room # r /\ page[a].shown[creation[a].room] = <<>>
      BY <1>1, <2>1 DEF CreationHolds
    <3>2. creation[a].room \in Rooms
      BY DEF ComposerType, Creations
    <3> QED BY <1>9, <3>1, <3>2
  <2> QED BY <1>11, <1>15, <1>16, <2>1 DEF CreationHolds, Listed
<1> QED
  BY <1>11, <1>15, <1>16, <1>18, <1>19, <1>20, <1>21, <1>22, <1>23, OthersGoOn

LEMMA MakeRoomStep ==
  ASSUME ComposerInv, NEW a \in Actors, NEW r \in Rooms, MakeRoom(a, r)
  PROVE  ComposerInv'
<1> USE DEF ComposerInv
<1>1. /\ rooms' = Append(rooms, r) /\ ~Listed(rooms, r)
      /\ creation' = [creation EXCEPT ![a] = [state |-> "made", room |-> r]]
      /\ UNCHANGED <<log, page, request, bounds, confirmed>>
  BY DEF MakeRoom
<1>2. rooms \in Seq(Rooms)
  BY DEF ComposerType
<1>3. /\ rooms' \in Seq(Rooms) /\ rooms' # <<>> /\ Listed(rooms', r)
      /\ \A s \in Rooms : Listed(rooms, s) => Listed(rooms', s)
  BY <1>1, <1>2 DEF Listed
<1>4. /\ creation' \in [Actors -> Creations]
      /\ creation'[a].state = "made" /\ creation'[a].room = r
      /\ \A b \in Actors \ {a} : creation'[b] = creation[b]
  <2>1. [state |-> "made", room |-> r] \in Creations
    BY DEF Creations
  <2> QED BY <1>1, <2>1 DEF ComposerType
<1>5. ComposerType'
  BY <1>1, <1>3, <1>4 DEF ComposerType
<1>6. LogsHold'
  <2>1. \A s \in Rooms : log'[s] # <<>> => Listed(rooms', s)
    BY <1>1, <1>3 DEF LogsHold
  <2> QED BY <1>1, <1>3, <2>1 DEF LogsHold, Listed
<1>7. Grows
  BY <1>1, <1>3, <1>6 DEF Grows
<1>8. PageHolds(a)' /\ RequestsHold(a)'
  BY <1>1, <1>7, PageGoesOn, RequestsGoOn
<1>9. CreationHolds(a)'
  <2>1. /\ page[a] \in Pages /\ page[a].shown[r] \in Seq(Rooms \X Nat)
        /\ page[a].loaded.shown[r] \in Seq(Rooms \X Nat)
    <3>1. page[a] \in Pages
      BY DEF ComposerType
    <3>2. page[a].shown \in Shows /\ page[a].loaded.shown \in Shows
      BY <3>1 DEF Pages, Snapshots
    <3> QED BY <3>1, <3>2 DEF Shows
  <2>2. log[r] = <<>>
    BY <1>1 DEF LogsHold
  <2>3. page[a].shown[r] = <<>> /\ page[a].loaded.shown[r] = <<>>
    <3>1. Elements(page[a].shown[r]) = {} /\ Elements(page[a].loaded.shown[r]) = {}
      BY <2>2 DEF PageHolds, InLogOrder
    <3>2. ASSUME NEW s \in Seq(Rooms \X Nat), Elements(s) = {} PROVE s = <<>>
      <4>1. DOMAIN s = {}
        BY <3>2 DEF Elements
      <4> QED BY <4>1
    <3> QED BY <2>1, <3>1, <3>2
  <2>4. ~Listed(page[a].rooms, r) /\ ~Listed(page[a].loaded.rooms, r)
    BY <1>1 DEF PageHolds, Listed
  <2>5. \A k \in Mutations : request[a][k].room # r
    BY <1>1 DEF RequestsHold, RequestHolds
  <2> QED BY <1>1, <1>3, <1>4, <2>3, <2>4, <2>5 DEF CreationHolds, Listed
<1> QED
  BY <1>1, <1>4, <1>5, <1>7, <1>8, <1>9, OthersGoOn

Opened(pages, a, rs, shows, r) ==
  [pages EXCEPT ![a].rooms = rs, ![a].shown = shows, ![a].active = r]

LEMMA OpenedInSteps ==
  ASSUME NEW pages \in [Actors -> Pages], NEW a \in Actors, NEW rs, NEW shows, NEW r
  PROVE  Opened(pages, a, rs, shows, r) =
           WithField(WithField(WithField(pages, a, "rooms", rs), a, "shown", shows), a, "active", r)
BY DEF WithField, Opened

LEMMA RoomMadeStep ==
  ASSUME ComposerInv, NEW a \in Actors, RoomMade(a)
  PROVE  ComposerInv'
<1> USE DEF ComposerInv
<1>1. PICK r \in Rooms : r = creation[a].room
  BY DEF ComposerType, Creations
<1>2. /\ creation[a].state = "made"
      /\ UNCHANGED <<log, rooms, request, bounds, confirmed>>
  BY DEF RoomMade
<1>3. /\ Listed(rooms, r) /\ page[a].shown[r] = <<>>
      /\ page[a] \in Pages /\ page[a].shown \in Shows /\ page[a].rooms \in Seq(Rooms)
  BY <1>1, <1>2 DEF CreationHolds, ComposerType, Pages
<1>4. PICK rs : rs = Append(page[a].rooms, r)
  OBVIOUS
<1>5. /\ rs \in Seq(Rooms) /\ Listed(rs, r)
      /\ \A i \in DOMAIN rs : rs[i] = r \/ (i \in DOMAIN page[a].rooms /\ rs[i] = page[a].rooms[i])
  BY <1>3, <1>4 DEF Listed
<1>6. PICK shows : shows = page[a].shown
  OBVIOUS
<1>7. PICK p : p = WithField(page, a, "rooms", rs)
  OBVIOUS
<1>8. PICK q : q = WithField(p, a, "shown", shows)
  OBVIOUS
<1>9. page' = WithField(q, a, "active", r)
  <2>1. [shows EXCEPT ![r] = <<>>] = shows
    BY <1>3, <1>6 DEF Shows
  <2>2. page' = [page EXCEPT ![a].rooms = rs, ![a].shown = [shows EXCEPT ![r] = <<>>], ![a].active = r]
    <3>1. page \in [Actors -> Pages]
      BY DEF ComposerType
    <3> QED BY <1>1, <1>4, <1>6, <3>1 DEF RoomMade
  <2>3. page' = Opened(page, a, rs, shows, r)
    BY <2>1, <2>2 DEF Opened
  <2>4. page \in [Actors -> Pages]
    BY DEF ComposerType
  <2> QED BY <1>7, <1>8, <2>3, <2>4, OpenedInSteps
<1>10. /\ page' \in [Actors -> Pages]
       /\ \A b \in Actors \ {a} : page'[b] = page[b]
       /\ page'[a].loaded = page[a].loaded /\ page'[a].rooms = rs
       /\ page'[a].shown = page[a].shown /\ page'[a].active = r
       /\ page'[a].pending = page[a].pending
  <2>1. page \in [Actors -> Pages]
    BY DEF ComposerType
  <2>2. /\ p \in [Actors -> Pages] /\ \A b \in Actors \ {a} : p[b] = page[b]
        /\ p[a]["rooms"] = rs /\ SamePage(page[a], p[a], {"rooms"})
    BY <1>5, <1>7, <2>1, PageWith
  <2>3. /\ q \in [Actors -> Pages] /\ \A b \in Actors \ {a} : q[b] = p[b]
        /\ q[a]["shown"] = shows /\ SamePage(p[a], q[a], {"shown"})
    BY <1>3, <1>6, <1>8, <2>2, PageWith
  <2>4. /\ page' \in [Actors -> Pages] /\ \A b \in Actors \ {a} : page'[b] = q[b]
        /\ page'[a]["active"] = r /\ SamePage(q[a], page'[a], {"active"})
    BY <1>9, <2>3, PageWith
  <2> QED BY <1>3, <1>6, <2>2, <2>3, <2>4 DEF SamePage, Pages
<1>11. /\ creation' \in [Actors -> Creations] /\ creation'[a].state = "none"
       /\ \A b \in Actors \ {a} : creation'[b] = creation[b]
  <2>1. NoCreation \in Creations /\ NoCreation.state = "none"
    BY ComposerAssumption DEF NoCreation, Creations
  <2> QED BY <2>1 DEF RoomMade, ComposerType
<1>12. ComposerType'
  BY <1>2, <1>10, <1>11 DEF ComposerType
<1>13. Grows
  BY <1>2, Quiet
<1>14. PageHolds(a)'
  <2>1. \A i \in DOMAIN rs : Listed(rooms, rs[i])
    BY <1>3, <1>5 DEF PageHolds
  <2>2. \A i \in DOMAIN page'[a].rooms : Listed(rooms', page'[a].rooms[i])
    BY <1>2, <1>10, <2>1
  <2>3. Listed(page'[a].rooms, page'[a].active) /\ page'[a].loaded = page[a].loaded
    BY <1>5, <1>10
  <2> QED BY <1>2, <1>10, <2>2, <2>3 DEF PageHolds, InLogOrder
<1>15. RequestsHold(a)'
  BY <1>2, <1>10, <1>13, RequestsGoOn
<1>16. CreationHolds(a)'
  BY <1>11 DEF CreationHolds
<1> QED
  BY <1>2, <1>10, <1>11, <1>12, <1>13, <1>14, <1>15, <1>16, OthersGoOn

LEMMA SnapshotHolds ==
  ASSUME ComposerType, LogsHold
  PROVE  /\ Snapshot \in Snapshots /\ Snapshot.rooms = rooms
         /\ \A r \in Rooms : InLogOrder(Snapshot.shown[r], r)
<1>1. ASSUME NEW r \in Rooms
      PROVE  /\ [i \in DOMAIN log[r] |-> <<r, i>>] \in Seq(Rooms \X Nat)
             /\ InLogOrder([i \in DOMAIN log[r] |-> <<r, i>>], r)
             /\ <<>> \in Seq(Rooms \X Nat) /\ InLogOrder(<<>>, r)
  <2>1. Len(log[r]) \in Nat /\ DOMAIN log[r] = 1..Len(log[r])
    BY DEF ComposerType
  <2>2. \A i \in DOMAIN log[r] : <<r, i>> \in Rooms \X Nat
    BY <2>1
  <2>3. [i \in DOMAIN log[r] |-> <<r, i>>] \in Seq(Rooms \X Nat)
    BY <2>1, <2>2
  <2>4. InLogOrder([i \in DOMAIN log[r] |-> <<r, i>>], r)
    <3>1. PICK s : s = [i \in DOMAIN log[r] |-> <<r, i>>]
      OBVIOUS
    <3>2. DOMAIN s = DOMAIN log[r] /\ \A i \in DOMAIN s : s[i] = <<r, i>> /\ s[i][2] = i
      BY <3>1
    <3>3. InLogOrder(s, r)
      BY <3>2 DEF InLogOrder, Elements
    <3> QED BY <3>1, <3>3
  <2> QED BY <2>3, <2>4 DEF InLogOrder, Elements
<1> DEFINE shows == [r \in Rooms |-> IF Listed(rooms, r) THEN [i \in DOMAIN log[r] |-> <<r, i>>]
                                                         ELSE <<>>]
<1>2. shows \in Shows /\ \A r \in Rooms : InLogOrder(shows[r], r)
  BY <1>1 DEF Shows
<1>3. Snapshot = [rooms |-> rooms, shown |-> shows] /\ rooms \in Seq(Rooms)
  BY DEF Snapshot, ComposerType
<1> HIDE DEF shows
<1> QED
  BY <1>2, <1>3 DEF Snapshots

\* A page that is filled from a snapshot.
LEMMA FilledPage ==
  ASSUME NEW p \in Pages, NEW s \in Snapshots, s.rooms # <<>>
  PROVE  LET q == Filled(p, s)
         IN /\ q \in Pages /\ q.loaded = s /\ q.rooms = s.rooms /\ q.shown = s.shown
            /\ q.active = s.rooms[1] /\ q.pending = p.pending /\ q.draft = p.draft
            /\ Listed(q.rooms, q.active)
<1>1. s.rooms \in Seq(Rooms) /\ s.shown \in Shows /\ 1 \in DOMAIN s.rooms
  BY DEF Snapshots
<1>2. PICK r \in Rooms : r = s.rooms[1]
  BY <1>1
<1>3. PICK rs \in Seq(Rooms) : rs = s.rooms
  BY <1>1
<1>4. PICK shows \in Shows : shows = s.shown
  BY <1>1
<1>5. Filled(p, s) = [p EXCEPT !.loaded = s, !.rooms = rs, !.shown = shows, !.active = r]
  BY <1>2, <1>3, <1>4 DEF Filled
<1>6. Filled(p, s) = [loaded |-> s, rooms |-> rs, shown |-> shows, active |-> r,
                      draft |-> p.draft, pending |-> p.pending]
  BY <1>5 DEF Pages
<1>7. p.draft \in Nat /\ p.pending \subseteq Mutations
  BY DEF Pages
<1> QED
  BY <1>1, <1>2, <1>3, <1>4, <1>6, <1>7 DEF Pages, Listed

BoxWith(p, n, t) == [p EXCEPT !.draft = n, !.pending = t]

LEMMA BoxOf ==
  ASSUME NEW p \in Pages, NEW n \in Nat, NEW t \in SUBSET Mutations
  PROVE  LET q == BoxWith(p, n, t)
         IN /\ q \in Pages /\ q.loaded = p.loaded /\ q.rooms = p.rooms /\ q.shown = p.shown
            /\ q.active = p.active /\ q.pending = t /\ q.draft = n
<1>1. PICK o : o = [p EXCEPT !.draft = n]
  OBVIOUS
<1>2. /\ o \in Pages /\ o.loaded = p.loaded /\ o.rooms = p.rooms /\ o.shown = p.shown
      /\ o.active = p.active /\ o.draft = n
  BY <1>1 DEF Pages
<1>3. PICK q : q = [o EXCEPT !.pending = t]
  OBVIOUS
<1>4. /\ q \in Pages /\ q.loaded = o.loaded /\ q.rooms = o.rooms /\ q.shown = o.shown
      /\ q.active = o.active /\ q.draft = o.draft /\ q.pending = t
  BY <1>2, <1>3 DEF Pages
<1>5. q = BoxWith(p, n, t)
  BY <1>1, <1>3 DEF BoxWith
<1> QED
  BY <1>2, <1>4, <1>5

\* A page that is loaded again, or filled from what it was loaded with.
LEMMA TurnOfPage ==
  ASSUME ComposerInv, NEW a \in Actors, NEW p \in Pages, NEW s \in Snapshots, s.rooms # <<>>,
         page' = [page EXCEPT ![a] = p], bounds' \in [Actors -> Counts],
         p.loaded = s, p.rooms = s.rooms, p.shown = s.shown, Listed(p.rooms, p.active),
         p.pending \subseteq page[a].pending,
         \A r \in Rooms : InLogOrder(s.shown[r], r),
         \A i \in DOMAIN s.rooms : Listed(rooms, s.rooms[i]),
         \A k \in p.pending, r \in Rooms : Elements(s.shown[r]) \subseteq Elements(page[a].shown[r]),
         confirmed' = [confirmed EXCEPT ![a] = {}], UNCHANGED <<log, rooms, request>>,
         creation' \in [Actors -> Creations], \A b \in Actors \ {a} : creation'[b] = creation[b],
         creation'[a].state = "made" => creation'[a] = creation[a] /\ s = page[a].loaded
  PROVE  ComposerInv'
<1> USE DEF ComposerInv
<1>1. /\ page' \in [Actors -> Pages] /\ page'[a] = p
      /\ \A b \in Actors \ {a} : page'[b] = page[b]
  BY DEF ComposerType
<1>2. /\ confirmed' \in [Actors -> SUBSET (Rooms \X Nat)] /\ confirmed'[a] = {}
      /\ \A b \in Actors \ {a} : confirmed'[b] = confirmed[b]
  BY DEF ComposerType
<1>3. ComposerType'
  BY <1>1, <1>2 DEF ComposerType
<1>4. Grows
  BY Quiet
<1>5. PageHolds(a)'
  BY <1>1, <1>2 DEF PageHolds, InLogOrder
<1>6. RequestsHold(a)'
  <2>1. ASSUME NEW k \in Mutations
        PROVE  \E r \in Rooms : r = request'[a][k].room /\ RequestHolds(a, k, r)'
    <3>1. PICK r \in Rooms : r = request[a][k].room
      BY DEF ComposerType, Requests
    <3>2. RequestHolds(a, k, r)
      BY <3>1 DEF RequestsHold
    <3>3. CASE k \in p.pending
      BY <1>1, <1>4, <3>1, <3>2, <3>3, RequestGoesOn
    <3>4. CASE k \notin p.pending
      BY <1>1, <3>1, <3>2, <3>4 DEF RequestHolds, Room!Stored
    <3> QED BY <3>3, <3>4
  <2>2. \A k, l \in page'[a].pending : k = l
    BY <1>1 DEF RequestsHold
  <2> QED BY <2>1, <2>2, RequestsTogether
<1>7. CreationHolds(a)'
  BY <1>1 DEF CreationHolds, Listed
<1> QED
  BY <1>1, <1>2, <1>3, <1>4, <1>5, <1>6, <1>7, OthersGoOn

LEMMA LoadPageStep ==
  ASSUME ComposerInv, NEW a \in Actors, LoadPage(a)
  PROVE  ComposerInv'
<1> USE DEF ComposerInv
<1>1. PICK s \in Snapshots : s = Snapshot
  BY SnapshotHolds
<1>2. s.rooms = rooms /\ rooms # <<>> /\ \A r \in Rooms : InLogOrder(s.shown[r], r)
  BY <1>1, SnapshotHolds DEF LogsHold
<1>3. page[a] \in Pages /\ bounds[a] \in Counts
  BY DEF ComposerType
<1>4. PICK f : f = Filled(page[a], s)
  OBVIOUS
<1>5. f \in Pages /\ f.loaded = s /\ f.rooms = s.rooms /\ f.shown = s.shown /\ Listed(f.rooms, f.active)
  BY <1>2, <1>3, <1>4, FilledPage
<1>6. PICK p : p = BoxWith(f, NoText, {})
  OBVIOUS
<1>7. /\ p \in Pages /\ p.loaded = s /\ p.rooms = s.rooms /\ p.shown = s.shown
      /\ Listed(p.rooms, p.active) /\ p.pending = {}
  <2>1. NoText \in Nat /\ {} \in SUBSET Mutations
    BY DEF NoText
  <2> QED BY <1>5, <1>6, <2>1, BoxOf
<1>8. page' = [page EXCEPT ![a] = p]
  BY <1>1, <1>4, <1>6 DEF LoadPage, BoxWith
<1>9. bounds' \in [Actors -> Counts]
  <2>1. PICK n \in Nat : n = bounds[a].loads + 1
    BY <1>3 DEF Counts
  <2>2. [bounds[a] EXCEPT !.loads = n] \in Counts
    BY <1>3 DEF Counts
  <2>3. bounds' = [bounds EXCEPT ![a] = [bounds[a] EXCEPT !.loads = n]]
    BY <2>1 DEF LoadPage
  <2> QED BY <2>2, <2>3 DEF ComposerType
<1>10. /\ creation' \in [Actors -> Creations] /\ creation'[a].state = "none"
       /\ \A b \in Actors \ {a} : creation'[b] = creation[b]
  <2>1. NoCreation \in Creations /\ NoCreation.state = "none"
    BY ComposerAssumption DEF NoCreation, Creations
  <2> QED BY <2>1 DEF LoadPage, ComposerType
<1>11. confirmed' = [confirmed EXCEPT ![a] = {}] /\ UNCHANGED <<log, rooms, request>>
  BY DEF LoadPage
<1>12. \A i \in DOMAIN s.rooms : Listed(rooms, s.rooms[i])
  BY <1>2 DEF Listed
<1> QED
  BY <1>2, <1>7, <1>8, <1>9, <1>10, <1>11, <1>12, TurnOfPage

LEMMA SwitchLanguageStep ==
  ASSUME ComposerInv, NEW a \in Actors, SwitchLanguage(a)
  PROVE  ComposerInv'
<1> USE DEF ComposerInv
<1>1. page[a] \in Pages /\ bounds[a] \in Counts
  BY DEF ComposerType
<1>2. PICK s \in Snapshots : s = page[a].loaded
  BY <1>1 DEF Pages
<1>3. /\ s.rooms # <<>> /\ \A r \in Rooms : InLogOrder(s.shown[r], r)
      /\ \A r \in Rooms : Elements(s.shown[r]) \subseteq Elements(page[a].shown[r])
      /\ \A i \in DOMAIN s.rooms : Listed(rooms, s.rooms[i])
  BY <1>2 DEF PageHolds
<1>4. PICK p : p = Filled(page[a], s)
  OBVIOUS
<1>5. /\ p \in Pages /\ p.loaded = s /\ p.rooms = s.rooms /\ p.shown = s.shown
      /\ Listed(p.rooms, p.active) /\ p.pending = page[a].pending
  BY <1>1, <1>3, <1>4, FilledPage
<1>6. page' = [page EXCEPT ![a] = p]
  BY <1>2, <1>4 DEF SwitchLanguage
<1>7. bounds' \in [Actors -> Counts]
  <2>1. PICK n \in Nat : n = bounds[a].switches + 1
    BY <1>1 DEF Counts
  <2>2. [bounds[a] EXCEPT !.switches = n] \in Counts
    BY <1>1 DEF Counts
  <2>3. bounds' = [bounds EXCEPT ![a] = [bounds[a] EXCEPT !.switches = n]]
    BY <2>1 DEF SwitchLanguage
  <2> QED BY <2>2, <2>3 DEF ComposerType
<1>8. confirmed' = [confirmed EXCEPT ![a] = {}] /\ UNCHANGED <<log, rooms, request, creation>>
  BY DEF SwitchLanguage
<1>9. creation' \in [Actors -> Creations]
  BY <1>8 DEF ComposerType
<1> QED
  BY <1>2, <1>3, <1>5, <1>6, <1>7, <1>8, <1>9, TurnOfPage

LEMMA ComposerStart == ComposerInit => ComposerInv
<1> SUFFICES ASSUME ComposerInit PROVE ComposerInv
  OBVIOUS
<1> USE DEF ComposerInit
<1>1. First \in Rooms /\ NoText \in Nat
  BY ComposerAssumption DEF NoText
<1>2. NoRequest \in Requests /\ NoCreation \in Creations
      /\ NoRequest.state = "gone" /\ NoRequest.room = First /\ NoCreation.state = "none"
  BY <1>1 DEF NoRequest, NoCreation, Requests, Creations
<1>3. /\ log \in [Rooms -> Seq(Actors \X Mutations)] /\ \A r \in Rooms : log[r] = <<>>
      /\ rooms \in Seq(Rooms) /\ rooms # <<>> /\ Listed(rooms, First)
  BY <1>1 DEF Listed
<1>4. PICK s : s = Snapshot
  OBVIOUS
<1>5. s \in Snapshots /\ s.rooms = rooms /\ \A r \in Rooms : s.shown[r] = <<>>
  <2> DEFINE shows == [r \in Rooms |-> IF Listed(rooms, r) THEN [i \in DOMAIN log[r] |-> <<r, i>>]
                                                           ELSE <<>>]
  <2>1. ASSUME NEW r \in Rooms PROVE [i \in DOMAIN log[r] |-> <<r, i>>] = <<>>
    BY <1>3
  <2>2. shows \in Shows /\ \A r \in Rooms : shows[r] = <<>>
    BY <2>1 DEF Shows
  <2>3. s = [rooms |-> rooms, shown |-> shows]
    BY <1>4 DEF Snapshot
  <2> HIDE DEF shows
  <2> QED BY <1>3, <2>2, <2>3 DEF Snapshots
<1> DEFINE p == [loaded |-> s, rooms |-> <<First>>, shown |-> s.shown, active |-> First,
                 draft |-> NoText, pending |-> {}]
<1>6. /\ p \in Pages /\ p.loaded = s /\ p.rooms = <<First>> /\ p.shown = s.shown
      /\ p.active = First /\ p.pending = {}
  BY <1>1, <1>5 DEF Pages, Snapshots
<1>7. page = [a \in Actors |-> p]
  BY <1>4
<1> HIDE DEF p
<1>8. ComposerType
  <2>1. [texts |-> 0, sends |-> 0, loads |-> 0, switches |-> 0] \in Counts
    BY DEF Counts
  <2> QED BY <1>2, <1>3, <1>6, <1>7, <2>1 DEF ComposerType
<1>9. LogsHold
  BY <1>3 DEF LogsHold
<1>10. ASSUME NEW a \in Actors PROVE PageHolds(a) /\ RequestsHold(a) /\ CreationHolds(a)
  <2>1. page[a] = p /\ confirmed[a] = {} /\ creation[a].state = "none"
    BY <1>2, <1>7
  <2>2. PageHolds(a)
    <3>1. \A r \in Rooms : InLogOrder(<<>>, r) /\ Elements(<<>>) = {}
      BY DEF InLogOrder, Elements
    <3>2. \A i \in DOMAIN <<First>> : Listed(rooms, <<First>>[i])
      BY <1>3
    <3>3. Listed(<<First>>, First)
      BY DEF Listed
    <3> QED BY <1>3, <1>5, <1>6, <2>1, <3>1, <3>2, <3>3 DEF PageHolds
  <2>3. RequestsHold(a)
    BY <1>2, <1>3, <1>6, <2>1 DEF RequestsHold, RequestHolds
  <2> QED BY <2>1, <2>2, <2>3 DEF CreationHolds
<1> QED
  BY <1>8, <1>9, <1>10 DEF ComposerInv

LEMMA ComposerStutter == ComposerInv /\ UNCHANGED composerVars => ComposerInv'
<1> SUFFICES ASSUME ComposerInv, UNCHANGED composerVars PROVE ComposerInv'
  OBVIOUS
<1>1. UNCHANGED <<log, rooms, page, request, creation, bounds, confirmed>>
  BY DEF composerVars
<1>2. ComposerType'
  BY <1>1 DEF ComposerInv, ComposerType
<1>3. Grows
  BY <1>1, Quiet DEF ComposerInv
<1>4. LogsHold'
  BY <1>3 DEF Grows
<1>5. ASSUME NEW a \in Actors PROVE PageHolds(a)' /\ RequestsHold(a)' /\ CreationHolds(a)'
  BY <1>1, <1>3, MemberGoesOn DEF ComposerInv
<1> QED
  BY <1>2, <1>4, <1>5 DEF ComposerInv

LEMMA ComposerStep == ComposerInv /\ [ComposerNext]_composerVars => ComposerInv'
<1> SUFFICES ASSUME ComposerInv, [ComposerNext]_composerVars PROVE ComposerInv'
  OBVIOUS
<1>1. CASE UNCHANGED composerVars
  BY <1>1, ComposerStutter
<1>2. CASE ComposerNext
  BY <1>2, BoxStep, SubmitMessageStep, LoadPageStep, SwitchLanguageStep, AskStep, RoomMadeStep,
     MakeRoomStep, StoreMessageStep, LossStep, ConfirmStep, FailStep DEF ComposerNext
<1> QED
  BY <1>1, <1>2

LEMMA ComposerInvariant == ComposerSpec => []ComposerInv
BY ComposerStart, ComposerStep, PTL DEF ComposerSpec

\* However replies, late requests, room changes and turns interleave, a page shows each
\* message once, in its room and in the order of the room, and the open room is listed
\* (submitMessage and updateRoomMessages of halo-workspace.tsx).
THEOREM MessagesShowInOrder == ComposerSpec => []ShownInServerOrder
<1>1. ComposerInv => ShownInServerOrder
  BY DEF ComposerInv, PageHolds, InLogOrder, ShownInServerOrder
<1> QED
  BY <1>1, ComposerInvariant, PTL

\* What a page was loaded with, and every message it was told is stored, stay on it
\* until it is loaded again or its language is changed.
THEOREM ConfirmedMessagesStay == ComposerSpec => []ConfirmedStaysShown
<1>1. ComposerInv => ConfirmedStaysShown
  BY DEF ComposerInv, PageHolds, ConfirmedStaysShown
<1> QED
  BY <1>1, ComposerInvariant, PTL

\* But for a reload, the text box goes empty only on a message that its room has stored.
THEOREM DraftsAreKept == ComposerSpec => BoxEmptiedByStoredMessage
<1> DEFINE Kept(a) == page[a].draft # NoText /\ page'[a].draft = NoText
                        => \/ bounds'[a].loads # bounds[a].loads
                           \/ \E k \in page[a].pending :
                                /\ k \notin page'[a].pending
                                /\ Room(request[a][k].room)!Stored(a, k)
<1>1. ComposerInv /\ [ComposerNext]_composerVars => [\A a \in Actors : Kept(a)]_composerVars
  <2> SUFFICES ASSUME ComposerInv, ComposerNext, NEW a \in Actors,
                      page[a].draft # NoText, page'[a].draft = NoText
               PROVE  \/ bounds'[a].loads # bounds[a].loads
                      \/ \E k \in page[a].pending :
                           /\ k \notin page'[a].pending
                           /\ Room(request[a][k].room)!Stored(a, k)
    OBVIOUS
  <2>1. page \in [Actors -> Pages] /\ page[a] \in Pages /\ bounds[a] \in Counts
        /\ bounds \in [Actors -> Counts]
    BY DEF ComposerInv, ComposerType
  <2>2. page' # page
    OBVIOUS
  <2>3. PICK b \in Actors :
          \/ Type(b) \/ SubmitMessage(b) \/ LoadPage(b) \/ SwitchLanguage(b) \/ RoomMade(b)
          \/ \E r \in Rooms : OpenRoom(b, r)
          \/ \E k \in Mutations : Confirm(b, k) \/ FailMessage(b, k)
    BY <2>2 DEF ComposerNext, AskForRoom, RoomRefused, MakeRoom, Store, Refuse, Vanish
  <2>4. b = a
    <3>1. \A c \in Actors \ {b} : page'[c] = page[c]
      BY <2>1, <2>3 DEF Type, SubmitMessage, LoadPage, SwitchLanguage, RoomMade, OpenRoom, Confirm,
                        FailMessage
    <3> QED BY <3>1
  <2>5. ~Type(a)
    <3>1. ASSUME Type(a) PROVE page'[a].draft = bounds[a].texts + 1
      BY <2>1, <3>1 DEF Type, Pages
    <3>2. bounds[a].texts + 1 # NoText
      BY <2>1 DEF Counts, NoText
    <3> QED BY <3>1, <3>2
  <2>6. page'[a].draft = page[a].draft
        \/ LoadPage(a) \/ \E k \in Mutations : Confirm(a, k)
    <3>1. CASE SwitchLanguage(a)
      BY <2>1, <3>1 DEF SwitchLanguage, Filled, Pages
    <3>2. CASE RoomMade(a)
      BY <2>1, <3>2 DEF RoomMade, Pages
    <3>3. CASE SubmitMessage(a)
      BY <2>1, <3>3 DEF SubmitMessage, Pages
    <3>4. ASSUME NEW r \in Rooms, OpenRoom(a, r) PROVE page'[a].draft = page[a].draft
      BY <2>1, <3>4 DEF OpenRoom, Pages
    <3>5. ASSUME NEW k \in Mutations, FailMessage(a, k) PROVE page'[a].draft = page[a].draft
      BY <2>1, <3>5 DEF FailMessage, DraftOnError, Pages
    <3> QED BY <2>3, <2>4, <2>5, <3>1, <3>2, <3>3, <3>4, <3>5
  <2>7. CASE LoadPage(a)
    <3>1. bounds'[a].loads = bounds[a].loads + 1
      BY <2>1, <2>7 DEF LoadPage, Counts
    <3> QED BY <2>1, <3>1 DEF Counts
  <2>8. ASSUME NEW k \in Mutations, Confirm(a, k)
        PROVE  /\ k \in page[a].pending /\ k \notin page'[a].pending
               /\ Room(request[a][k].room)!Stored(a, k)
    <3>1. k \in page[a].pending /\ request[a][k].state = "stored"
      BY <2>8 DEF Confirm
    <3>2. page'[a].pending = page[a].pending \ {k}
      BY <2>1, <2>8 DEF Confirm, Pages
    <3>3. Room(request[a][k].room)!Stored(a, k)
      BY <3>1 DEF ComposerInv, RequestsHold, RequestHolds
    <3> QED BY <3>1, <3>2, <3>3
  <2> QED BY <2>6, <2>7, <2>8
<1> QED
  BY <1>1, ComposerInvariant, PTL DEF ComposerSpec, BoxEmptiedByStoredMessage
=============================================================================
