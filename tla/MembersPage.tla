----------------------------- MODULE MembersPage -----------------------------
(***************************************************************************)
(* The member table of the workspace console.  A role or a status is set in *)
(* the row at once and sent; when the answer is an error the row gets back  *)
(* the value it showed before.  Departments change through requests that a  *)
(* reload follows; the member form sends two, and the first of them that    *)
(* fails ends the save while the other one stays on its way.  The page      *)
(* keeps no order between all these: answers come back in any order, and a  *)
(* reload shows what the server held when it read.                          *)
(***************************************************************************)
EXTENDS ConsolePage

CONSTANTS
  Members,        \* memberships of the workspace
  Self,           \* the one whose page this is
  Departments,    \* departments, the value for "unassigned" among them
  Shown,          \* the department every member is in at first
  RoleChoices,    \* bound: the roles that are chosen in a row and in the member form
  PatchIds,       \* bound: patches in flight
  WriteIds,       \* bound: requests of the batch and of the dialogs in flight
  LoadIds         \* bound: loads in flight

MemberRoles == {"owner", "admin", "member", "guest"}
Fields == {"role", "status", "department"}
Cells == Members \X Fields
Values == MemberRoles \union {"active", "suspended"} \union Departments

ASSUME MembersPageAssumption ==
  /\ Self \in Members /\ Shown \in Departments /\ None \notin Values \union Members
  /\ RoleChoices \subseteq MemberRoles

VARIABLES
  directory,      \* the memberships on the server: the owner flag and the bound role apart
  rows,           \* the rows of the page
  acting,         \* the role of Self in the session the page holds
  patches,        \* role and status changes in flight
  writes,         \* requests of the batch and of the dialog being saved, and of saves that ended
  loads,          \* reads of the organization in flight
  loading,        \* the flag that replaces the page by a spinner
  exposed         \* history: cells where two of these overlapped, or where the server made a
                  \* change that the page got no answer to, or no longer waited for

membersVars == <<directory, rows, acting, patches, writes, loads, loading, exposed>>

NoPatch == [state |-> "none", member |-> None, field |-> "none", value |-> None, previous |-> None]
NoWrite == [state |-> "none", form |-> None, members |-> {}, kind |-> "none", value |-> None]
NoLoad  == [state |-> "none", copy |-> None, clean |-> FALSE, covers |-> {}]

\* haloai_list_workspace_members
RoleOf(m) == IF directory[m].isOwner THEN "owner" ELSE directory[m].binding
Overview ==
  [m \in Members |-> [role |-> RoleOf(m), status |-> directory[m].status,
                      department |-> directory[m].department]]

\* Requests that move members to a department, bind the roles of a member, or hand over
\* the workspace; the last two are about the role a row shows.
Kinds == {"department", "roles", "transfer"}
FieldOf(kind) == IF kind = "department" THEN "department" ELSE "role"
CellsOfRequest(q) == q.members \X {FieldOf(q.kind)}
CellsOf(w) == CellsOfRequest(writes[w])
Patched == {<<patches[p].member, patches[p].field>> : p \in {q \in PatchIds : patches[q].state # "none"}}
Written == UNION {CellsOf(w) : w \in {v \in WriteIds : writes[v].state # "none"}}

\* The rows ticked for the batch: one by one or all that the filter leaves, and kept
\* when the filter changes.
Selections == SUBSET Members \ {{}}

\* A change begins: what a load in flight shows may be older or newer than it.
Disturbed == [l \in LoadIds |-> [loads[l] EXCEPT !.clean = FALSE]]

---------------------------------------------------------------------------
(* Roles and statuses: shown at once, taken back when the request fails.     *)

RoleSelectEnabled == acting = "owner"
StatusButtonShown(m) == rows[m].role # "owner"

SendPatch(p, m, f, v) ==
  /\ ~loading /\ patches[p].state = "none" /\ rows[m][f] # v /\ Begun
  /\ patches' = [patches EXCEPT ![p] = [state |-> "sent", member |-> m, field |-> f, value |-> v,
                                        previous |-> rows[m][f]]]
  /\ rows' = [rows EXCEPT ![m][f] = v]
  /\ exposed' = exposed \union ({<<m, f>>} \cap (Patched \union Written))
  /\ loads' = Disturbed
  /\ UNCHANGED <<directory, acting, writes, loading>>

UpdateRole(p) ==
  RoleSelectEnabled /\ \E m \in Members, role \in RoleChoices : SendPatch(p, m, "role", role)

UpdateStatus(p) ==
  \E m \in Members :
    /\ StatusButtonShown(m)
    /\ SendPatch(p, m, "status", IF rows[m].status = "suspended" THEN "active" ELSE "suspended")

\* The server keeps an owner, lets nobody suspend an owner or itself, and grades active
\* members only.
MayApply(q) ==
  IF q.field = "role"
  THEN /\ RoleOf(Self) = "owner" /\ directory[q.member].status = "active"
       /\ directory[q.member].isOwner /\ q.value # "owner"
            => \E m \in Members \ {q.member} : directory[m].isOwner
  ELSE /\ RoleOf(Self) \in {"owner", "admin"}
       /\ q.value = "suspended" => q.member # Self /\ ~directory[q.member].isOwner

\* A new role is both the flag and the binding.
Changed(e, field, value) ==
  IF field = "role" THEN [e EXCEPT !.isOwner = (value = "owner"), !.binding = value]
  ELSE [e EXCEPT !.status = value]

ApplyPatch(p) ==
  LET q == patches[p]
  IN /\ q.state = "sent" /\ MayApply(q)
     /\ directory' = [directory EXCEPT ![q.member] = Changed(@, q.field, q.value)]
     /\ patches' = [patches EXCEPT ![p].state = "applied"]
     /\ UNCHANGED <<rows, acting, writes, loads, loading, exposed, pageVars>>

ConfirmPatch(p) ==
  /\ patches[p].state = "applied"
  /\ patches' = [patches EXCEPT ![p] = NoPatch]
  /\ UNCHANGED <<directory, rows, acting, writes, loads, loading, exposed, pageVars>>

\* Faulty: the row keeps the value that was refused.
KeepPatched(p) ==
  /\ patches[p].state = "sent"
  /\ patches' = [patches EXCEPT ![p] = NoPatch]
  /\ UNCHANGED <<directory, rows, acting, writes, loads, loading, exposed, pageVars>>

\* An error, or an answer that does not arrive although the server made the change.
RollBack(p) ==
  LET q == patches[p]
  IN /\ q.state # "none"
     /\ rows' = [rows EXCEPT ![q.member][q.field] = q.previous]
     /\ exposed' = exposed \union (IF q.state = "applied" THEN {<<q.member, q.field>>} ELSE {})
     /\ patches' = [patches EXCEPT ![p] = NoPatch]
     /\ UNCHANGED <<directory, acting, writes, loads, loading, pageVars>>

---------------------------------------------------------------------------
(* The organization: read when the page opens, when its language changes and *)
(* after every save that succeeded.                                          *)

StartLoad(l, after) ==
  /\ loads[l].state = "none"
  /\ loads' = [loads EXCEPT ![l] =
       [state |-> "asked", copy |-> None, covers |-> UNION {CellsOf(w) : w \in after},
        clean |-> Patched = {} /\ \A w \in WriteIds \ after : writes[w].state = "none"]]
  /\ loading' = TRUE

Reload(l) ==
  /\ StartLoad(l, {}) /\ Begun
  /\ UNCHANGED <<directory, rows, acting, patches, writes, exposed>>

\* Owners and admins may read the members.
ReadOrganization(l) ==
  /\ loads[l].state = "asked" /\ RoleOf(Self) \in {"owner", "admin"}
  /\ loads' = [loads EXCEPT ![l].state = "read", ![l].copy = Overview]
  /\ UNCHANGED <<directory, rows, acting, patches, writes, loading, exposed, pageVars>>

ShowOrganization(l) ==
  /\ loads[l].state = "read"
  /\ rows' = loads[l].copy /\ acting' = loads[l].copy[Self].role /\ loading' = FALSE
  /\ exposed' = IF loads[l].clean THEN {} ELSE Cells
  /\ loads' = [loads EXCEPT ![l] = NoLoad]
  /\ UNCHANGED <<directory, patches, writes, pageVars>>

FailLoad(l) ==
  /\ loads[l].state # "none"
  /\ loading' = FALSE
  /\ exposed' = exposed \union loads[l].covers
  /\ loads' = [loads EXCEPT ![l] = NoLoad]
  /\ UNCHANGED <<directory, rows, acting, patches, writes, pageVars>>

---------------------------------------------------------------------------
(* The batch, the member form and the hand-over.                             *)

Request(form, kind, members, value) ==
  [state |-> "sent", form |-> form, members |-> members, kind |-> kind, value |-> value]

Of(form) == {w \in WriteIds : writes[w].form = form}

\* A save sends its requests together; its button is disabled until they are answered or
\* one of them failed.
Submit(form, new) ==
  /\ ~loading /\ Of(form) = {} /\ Begun
  /\ \A w \in DOMAIN new : writes[w].state = "none"
  /\ writes' = [w \in WriteIds |-> IF w \in DOMAIN new THEN new[w] ELSE writes[w]]
  /\ exposed' = exposed \union
       ((UNION {CellsOfRequest(new[w]) : w \in DOMAIN new}) \cap (Patched \union Written))
  /\ loads' = Disturbed
  /\ UNCHANGED <<directory, rows, acting, patches, loading>>

\* executeBatchAssign sends every ticked row, those the filter hides included.
BatchAssign ==
  \E w \in WriteIds, ticked \in Selections, d \in Departments :
    Submit("batch", [v \in {w} |-> Request("batch", "department", ticked, d)])

\* saveMember sends the department and the bound roles in one Promise.all.
SaveMember ==
  \E w, v \in WriteIds, m \in Members, d \in Departments, role \in RoleChoices :
    /\ w # v
    /\ Submit("dialog", [x \in {w, v} |-> IF x = w THEN Request("dialog", "department", {m}, d)
                                          ELSE Request("dialog", "roles", {m}, role)])

\* The dialog is shown to an owner and lists the others.
TransferOwnership ==
  /\ acting = "owner"
  /\ \E w \in WriteIds, m \in Members \ {Self} :
       Submit("dialog", [v \in {w} |-> Request("dialog", "transfer", {Self, m}, m)])

MayWrite(q) ==
  /\ RoleOf(Self) \in {"owner", "admin"}
  /\ q.kind = "transfer" => RoleOf(Self) = "owner" /\ directory[q.value].status = "active"

\* What a request makes of a member it is about.
Rewritten(m, q) ==
  IF q.kind = "department" THEN [directory[m] EXCEPT !.department = q.value]
  ELSE IF q.kind = "roles" THEN [directory[m] EXCEPT !.binding = q.value]
  ELSE [directory[m] EXCEPT !.isOwner = (m = q.value),
                            !.binding = IF m = q.value THEN "owner" ELSE "admin"]

ApplyWrite(w) ==
  LET q == writes[w]
  IN /\ q.state = "sent" /\ MayWrite(q)
     /\ directory' = [m \in Members |-> IF m \in q.members THEN Rewritten(m, q) ELSE directory[m]]
     /\ writes' = [writes EXCEPT ![w].state = "applied"]
     /\ UNCHANGED <<rows, acting, patches, loads, loading, exposed, pageVars>>

\* All answers are there, the page loads.
FinishWrites(form, l) ==
  /\ Of(form) # {} /\ \A w \in Of(form) : writes[w].state = "applied"
  /\ StartLoad(l, Of(form))
  /\ writes' = [w \in WriteIds |-> IF w \in Of(form) THEN NoWrite ELSE writes[w]]
  /\ UNCHANGED <<directory, rows, acting, patches, exposed, pageVars>>

\* An error: the page says so and does not load; what the same save sent besides goes on,
\* and nobody waits for it.  Such a request ends whatever its answer is.
FailWrite(w) ==
  /\ writes[w].state # "none"
  /\ exposed' = exposed \union (IF writes[w].state = "applied" THEN CellsOf(w) ELSE {})
  /\ writes' = [v \in WriteIds |->
       IF v = w THEN NoWrite
       ELSE IF writes[v].form = writes[w].form THEN [writes[v] EXCEPT !.form = None]
       ELSE writes[v]]
  /\ UNCHANGED <<directory, rows, acting, patches, loads, loading, pageVars>>

---------------------------------------------------------------------------
MembersInit ==
  /\ directory = [m \in Members |-> [isOwner |-> m = Self,
                                     binding |-> IF m = Self THEN "owner" ELSE "member",
                                     status |-> "active", department |-> Shown]]
  /\ rows = Overview /\ acting = "owner"
  /\ patches = [p \in PatchIds |-> NoPatch]
  /\ writes = [w \in WriteIds |-> NoWrite]
  /\ loads = [l \in LoadIds |-> NoLoad] /\ loading = FALSE
  /\ exposed = {}

MembersNext ==
  \/ \E p \in PatchIds : UpdateRole(p) \/ UpdateStatus(p) \/ ApplyPatch(p) \/ ConfirmPatch(p) \/ RollBack(p)
  \/ \E l \in LoadIds : Reload(l) \/ ReadOrganization(l) \/ ShowOrganization(l) \/ FailLoad(l)
  \/ BatchAssign \/ SaveMember \/ TransferOwnership
  \/ \E w \in WriteIds : ApplyWrite(w) \/ FailWrite(w)
  \/ \E form \in {"batch", "dialog"}, l \in LoadIds : FinishWrites(form, l)

---------------------------------------------------------------------------
\* Once everything the page sent has been answered, a row shows what the server holds,
\* whatever was refused on the way.  Until the next load that nothing overlaps, a cell is
\* excepted from an overlap, a lost answer, or a request that the server granted although
\* another one of the same save failed.
RowsAreTheServers ==
  Patched = {} /\ Written = {} /\ (\A l \in LoadIds : loads[l].state = "none")
    => \A m \in Members, f \in Fields : <<m, f>> \in exposed \/ rows[m][f] = Overview[m][f]
=============================================================================
