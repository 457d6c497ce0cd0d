----------------------------- MODULE EntryForms ------------------------------
(***************************************************************************)
(* The dialogs of the console that edit an entry of a list: a member, a      *)
(* quota, a model, a tenant, a role, a department.  A dialog has one form,   *)
(* whoever it is open for.  It is filled from the row that was clicked, or    *)
(* by a request sent when it opens, or both; saving writes what the form     *)
(* holds to the entry the dialog is for.                                     *)
(*                                                                         *)
(* The values of a form are represented by the entry they were read from.    *)
(***************************************************************************)
EXTENDS ConsolePage

CONSTANTS
  Entries,        \* the rows of the list
  CallIds         \* bound: fetches and allocation switches in flight

Parts == {"own", "fetched"}

\* A dialog: the parts of its form that come from the row and from a request, whether it
\* also makes new entries, and whether the page forgets the entry when it closes.
MemberDialog == [filled |-> {"own"}, fetched |-> {"fetched"}, creates |-> FALSE, forgets |-> TRUE]
QuotaDialog == [filled |-> {}, fetched |-> {"fetched"}, creates |-> FALSE, forgets |-> TRUE]
TenantDialog == [filled |-> {"own"}, fetched |-> {}, creates |-> FALSE, forgets |-> TRUE]
ModelDialog == [filled |-> {"own"}, fetched |-> {}, creates |-> TRUE, forgets |-> FALSE]
RoleDialog == [filled |-> {"own"}, fetched |-> {}, creates |-> TRUE, forgets |-> FALSE]
DepartmentDialog == [filled |-> {"own"}, fetched |-> {}, creates |-> TRUE, forgets |-> FALSE]

Dialogs == [member |-> MemberDialog, quota |-> QuotaDialog, tenant |-> TenantDialog,
            model |-> ModelDialog, role |-> RoleDialog, department |-> DepartmentDialog]
FormViews == DOMAIN Dialogs
Dialog == Dialogs[view]

ASSUME FormsAssumption == None \notin Entries

VARIABLES
  opened,         \* the dialog is shown
  editing,        \* the entry it is for, None for a new one
  form,           \* where the values of each part of the form come from
  calls,          \* fetches and allocation switches in flight
  save,           \* the save in flight
  stored,         \* per entry and part: where the stored values come from
  unsure,         \* history: the form shows less than, or other than, its entry's values
  excused         \* history: entries saved from such a form

formVars == <<opened, editing, form, calls, save, stored, unsure, excused>>

NoCall == [kind |-> "none", entry |-> None]
NoSave == [state |-> "none", entry |-> None, form |-> [p \in Parts |-> None], left |-> {}]

PartsOfForm == Dialog.filled \union Dialog.fetched

---------------------------------------------------------------------------
(* Opening and closing.                                                    *)

Show(e, filled) ==
  /\ view \in FormViews /\ ~opened /\ Begun
  /\ opened' = TRUE /\ editing' = e
  /\ form' = filled
  /\ UNCHANGED <<save, stored, excused>>

\* Faulty: the dialog opens with the form it was closed with.
NothingPrefilled(e) == form

\* The part that is fetched keeps what it held until the answer is there.
Prefilled(e) ==
  [p \in Parts |-> IF p \in Dialog.filled THEN stored[e][p] ELSE form[p]]

OpenEntry(e) ==
  /\ Show(e, Prefilled(e))
  /\ unsure' = (Dialog.fetched # {})
  /\ IF Dialog.fetched = {} THEN UNCHANGED calls
     ELSE \E c \in CallIds : /\ calls[c] = NoCall
                             /\ calls' = [calls EXCEPT ![c] = [kind |-> "fetch", entry |-> e]]

OpenNew ==
  /\ Dialog.creates /\ Show(None, [p \in Parts |-> None])
  /\ unsure' = FALSE /\ UNCHANGED calls

Closed == IF Dialog.forgets THEN None ELSE editing

CloseDialog ==
  /\ opened /\ opened' = FALSE /\ editing' = Closed
  /\ UNCHANGED <<form, calls, save, stored, unsure, excused, pageVars>>

---------------------------------------------------------------------------
(* Answers to what was asked when a dialog opened; nothing cancels them.     *)

AnswerFetch(c) ==
  /\ calls[c].kind = "fetch"
  /\ form' = [form EXCEPT !["fetched"] = stored[calls[c].entry]["fetched"]]
  /\ unsure' = (calls[c].entry # editing)
  /\ calls' = [calls EXCEPT ![c] = NoCall]
  /\ UNCHANGED <<opened, editing, save, stored, excused, pageVars>>

\* The roles become none, the quota the default.
FailFetch(c) ==
  /\ calls[c].kind = "fetch"
  /\ form' = [form EXCEPT !["fetched"] = None]
  /\ unsure' = TRUE
  /\ calls' = [calls EXCEPT ![c] = NoCall]
  /\ UNCHANGED <<opened, editing, save, stored, excused, pageVars>>

\* The model dialog switches the model on and off for a tenant, at once.
ToggleAllocation ==
  /\ view = "model" /\ opened /\ editing # None /\ Begun
  /\ \E c \in CallIds : /\ calls[c] = NoCall
                        /\ calls' = [calls EXCEPT ![c] = [kind |-> "toggle", entry |-> editing]]
  /\ UNCHANGED <<opened, editing, form, save, stored, unsure, excused>>

\* When the list it loads holds the model, the dialog is for that model from now on,
\* whatever it shows.  Otherwise, or when the request fails, nothing changes.
AnswerToggle(c) ==
  /\ calls[c].kind = "toggle"
  /\ \/ editing' = calls[c].entry /\ unsure' = (unsure \/ editing # calls[c].entry)
     \/ UNCHANGED <<editing, unsure>>
  /\ calls' = [calls EXCEPT ![c] = NoCall]
  /\ UNCHANGED <<opened, form, save, stored, excused, pageVars>>

---------------------------------------------------------------------------
(* Saving: the button is disabled while a save is in flight, closing is not.  *)

SubmitForm ==
  /\ opened /\ save.state = "none" /\ Begun
  /\ save' = [state |-> "sent", entry |-> editing, form |-> form, left |-> PartsOfForm]
  /\ excused' = excused \union (IF unsure THEN {editing} ELSE {})
  /\ UNCHANGED <<opened, editing, form, calls, stored, unsure>>

\* One request per part, for a member sent together; one of them may fail.
StorePart(p) ==
  /\ p \in save.left
  /\ stored' = IF save.entry = None THEN stored
               ELSE [stored EXCEPT ![save.entry][p] = save.form[p]]
  /\ save' = [save EXCEPT !.left = @ \ {p}]
  /\ UNCHANGED <<opened, editing, form, calls, unsure, excused, pageVars>>

\* Faulty: the save waits for the first of its requests, not for all.
FinishEarly ==
  /\ save.state = "sent" /\ save.left # PartsOfForm
  /\ opened' = FALSE /\ editing' = Closed /\ save' = NoSave
  /\ UNCHANGED <<form, calls, stored, unsure, excused, pageVars>>

\* The dialog that is shown by now is closed, whoever it is for.
FinishSave ==
  /\ save.state = "sent" /\ save.left = {}
  /\ opened' = FALSE /\ editing' = Closed /\ save' = NoSave
  /\ UNCHANGED <<form, calls, stored, unsure, excused, pageVars>>

FailSave ==
  /\ save.state = "sent" /\ save' = NoSave
  /\ UNCHANGED <<opened, editing, form, calls, stored, unsure, excused, pageVars>>

---------------------------------------------------------------------------
FormsInit ==
  /\ opened = FALSE /\ editing = None /\ form = [p \in Parts |-> None]
  /\ calls = [c \in CallIds |-> NoCall] /\ save = NoSave
  /\ stored = [e \in Entries |-> [p \in Parts |-> e]]
  /\ unsure = FALSE /\ excused = {}

FormsNext ==
  \/ \E e \in Entries : OpenEntry(e)
  \/ OpenNew \/ CloseDialog \/ ToggleAllocation \/ SubmitForm \/ FinishSave \/ FailSave
  \/ \E c \in CallIds : AnswerFetch(c) \/ FailFetch(c) \/ AnswerToggle(c)
  \/ \E p \in Parts : StorePart(p)

---------------------------------------------------------------------------
\* An entry keeps its own values through every save of every dialog, unless it was
\* saved before its values were fetched, after the answer for another entry came late
\* or none came, or after an allocation switch had turned the dialog to another model.
EntriesKeepTheirOwn ==
  \A e \in Entries \ excused, p \in Parts : stored[e][p] = e

\* A dialog that a save closes was stored in all its parts.
ClosedWhenStored ==
  [][save.state = "sent" /\ save'.state = "none" /\ opened /\ ~opened' /\ save.entry # None
       => \A p \in PartsOfForm : stored[save.entry][p] = save.form[p]]_formVars
=============================================================================
