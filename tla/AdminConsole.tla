----------------------------- MODULE AdminConsole ----------------------------
(***************************************************************************)
(* The web console of the workspace and of the platform: the page a tab is   *)
(* on, with its table, dialog, list or settings.                             *)
(***************************************************************************)
EXTENDS MembersPage, EntryForms, CatalogPage, SettingsPage

vars == <<pageVars, membersVars, formVars, catalogVars, settingsVars>>

Init == PageInit /\ MembersInit /\ FormsInit /\ CatalogInit /\ SettingsInit

Next ==
  \/ /\ view = "members" /\ MembersNext
     /\ UNCHANGED <<formVars, catalogVars, settingsVars>>
  \/ /\ view \in FormViews /\ FormsNext
     /\ UNCHANGED <<membersVars, catalogVars, settingsVars>>
  \/ /\ view \in ListViews /\ CatalogNext
     /\ UNCHANGED <<membersVars, formVars, settingsVars>>
  \/ /\ view = "settings" /\ SettingsNext
     /\ UNCHANGED <<membersVars, formVars, catalogVars>>

Spec == Init /\ [][Next]_vars
=============================================================================
