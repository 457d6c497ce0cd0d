--------------------------- MODULE Administration ---------------------------
(***************************************************************************)
(* The two back offices on one API and one database.  Both work on the same *)
(* requests; a behaviour asks for the operations of one group.               *)
(***************************************************************************)
EXTENDS PlatformAdministration, WorkspaceGovernance

\* Rows are told apart from the histories of raced that are not about one row.
ASSUME AdministrationAssumption ==
  {"administrators", "settings", "board", "wall", "profile"} \cap (RoleIds \union Staff) = {}

vars == <<requestVars, platformVars, governanceVars>>

Init == RequestsInit /\ PlatformInit /\ GovernanceInit

Next ==
  \/ PlatformNext /\ UNCHANGED governanceVars
  \/ GovernanceNext /\ UNCHANGED platformVars

Spec == Init /\ [][Next]_vars

\* Every variable of the two back offices has its type.
TypeOK == RequestsTypeOK /\ PlatformTypeOK /\ GovernanceTypeOK

\* Of the platform and of the workspace: what was announced and not taken back is
\* shown, unless a list was written back that had been read before another change.
AnnouncementsAreShown == PublishedIsShown /\ AnnouncedIsShown
=============================================================================
