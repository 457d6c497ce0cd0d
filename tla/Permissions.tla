------------------------------ MODULE Permissions ------------------------------
(***************************************************************************)
(* The decision whether a principal may use a capability on a resource       *)
(* (packages/core/src/permissions.ts): every denial is looked at before       *)
(* anything is allowed.  The API asks it for the human members of a           *)
(* workspace; agents get the intersection of what their delegator, their      *)
(* version, the resource and the tool allow.                                 *)
(*                                                                         *)
(* A principal is a record [kind, status, workspace, role, projects, rooms,   *)
(* granted, denied] and a resource a record [workspace, project, room]; a     *)
(* field the code may leave undefined is Undefined.                          *)
(***************************************************************************)

CONSTANT Undefined

GuestCapabilities == {"workspace.read", "room.read", "document.read"}

MemberCapabilities ==
  {"workspace.read", "agent.profile.read", "agent.invoke", "room.read", "room.message.create",
   "document.read", "document.edit", "document.proposal.create", "document.proposal.review",
   "integration.tool.read.execute", "approval.request"}

AdminCapabilities ==
  {"workspace.read", "workspace.manage", "member.invite", "member.manage", "agent.profile.read",
   "agent.profile.create", "agent.profile.publish", "agent.invoke", "room.read", "room.manage",
   "room.message.create", "document.read", "document.edit", "document.proposal.create",
   "document.proposal.review", "document.publish", "integration.tool.read.execute",
   "integration.tool.write.execute", "approval.request", "approval.review", "audit.read"}

OwnerCapabilities == AdminCapabilities \union {"workspace.security.manage"}

Capability == OwnerCapabilities

RoleCapabilities ==
  [owner |-> OwnerCapabilities, admin |-> AdminCapabilities, member |-> MemberCapabilities,
   guest |-> GuestCapabilities]

BuiltInRoles == {"owner", "admin", "member", "guest"}

---------------------------------------------------------------------------
(* authorize                                                               *)

OutsideProject(p, s) ==
  s.project # Undefined /\ p.role \notin {"owner", "admin"} /\ s.project \notin p.projects

OutsideRoom(p, s) ==
  s.room # Undefined /\ p.rooms # Undefined /\ s.room \notin p.rooms

RoleAllows(p, c) == p.role \in BuiltInRoles /\ c \in RoleCapabilities[p.role]

NeedsHuman(p, c) == p.kind # "human" /\ c = "approval.review"

\* The reason authorize answers with: the first denial that applies.
Decision(p, c, s) ==
  IF p.workspace = Undefined \/ s.workspace = Undefined THEN "tenant_context_missing"
  ELSE IF p.workspace # s.workspace THEN "cross_workspace"
  ELSE IF p.status # "active" THEN "principal_inactive"
  ELSE IF OutsideProject(p, s) THEN "outside_project_scope"
  ELSE IF OutsideRoom(p, s) THEN "outside_room_scope"
  ELSE IF c \in p.denied THEN "explicitly_denied"
  ELSE IF NeedsHuman(p, c) THEN "human_approval_required"
  ELSE IF ~RoleAllows(p, c) /\ c \notin p.granted THEN "capability_missing"
  ELSE "allowed"

Allowed(p, c, s) == Decision(p, c, s) = "allowed"

---------------------------------------------------------------------------
(* What asks it.                                                           *)

\* requireWorkspaceCapability: an active member and the workspace it is a member of.
MemberPrincipal(workspace, role) ==
  [kind |-> "human", status |-> "active", workspace |-> workspace, role |-> role,
   projects |-> {}, rooms |-> Undefined, granted |-> {}, denied |-> {}]

WorkspaceItself(workspace) ==
  [workspace |-> workspace, project |-> Undefined, room |-> Undefined]

MemberMay(workspace, role, c) ==
  Allowed(MemberPrincipal(workspace, role), c, WorkspaceItself(workspace))

\* intersectCapabilities: what an agent may use for its delegator.
Delegated(delegator, version, policy, tool) == delegator \cap version \cap policy \cap tool
=============================================================================
