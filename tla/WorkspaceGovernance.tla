------------------------- MODULE WorkspaceGovernance -------------------------
(***************************************************************************)
(* The workspace back office: custom roles and the capabilities they grant,  *)
(* the roles of a member, the announcements of the workspace, and the name   *)
(* of a person, which is kept in its account and in each of its workspaces.  *)
(*                                                                         *)
(* The capabilities of a role and the roles of a member are replaced in the  *)
(* same way: a transaction deletes the rows it finds and inserts the new     *)
(* ones.  It is read committed: the DELETE sees the rows that are committed   *)
(* when it starts, waits for a row that another transaction is deleting, and *)
(* skips it when it is gone.  updateRole locks the role with an UPDATE       *)
(* before; assignMemberRoles locks nothing.                                  *)
(***************************************************************************)
EXTENDS ApiRequests, Permissions

CONSTANTS
  RoleIds,        \* rows of access_roles
  RoleKeys,       \* the keys a custom role can have
  BuiltIns,       \* the roles every workspace starts with
  Capabilities,   \* capabilities that a request may name
  Catalogue,      \* the capabilities that the table capabilities lists
  Staff,          \* members whose roles are assigned
  Messages,       \* workspace announcements
  Names,          \* names a person may take
  FirstName,      \* the one it registered with
  Places          \* the workspaces of that person

GovernanceOps == {"create_role", "update_role", "delete_role", "list_roles", "assign",
                  "announce", "retract", "profile"}

ASSUME GovernanceAssumption ==
  /\ BuiltIns \subseteq RoleIds /\ Catalogue \subseteq Capabilities
  /\ Nobody \notin RoleIds \union RoleKeys \union Staff
  /\ RoleIds \cap (Staff \union RoleKeys \union Capabilities) = {} /\ FirstName \in Names

VARIABLES
  roleKey,        \* access_roles: the key of a role, Nobody when there is no such row
  holds,          \* the rows of a role (capabilities) or of a member (roles)
  granted,        \* history: the capability sets that requests gave to a role
  given,          \* history: the roles that the last request gave to a member
  listed,         \* history: the last list of roles that was answered
  wall,           \* the announcements in the settings table
  posted,         \* history: announcements made and not retracted
  accountName,    \* users.name
  displayName,    \* actors.displayName in each workspace
  open,           \* the active workspaces with an active membership of the person
  reached,        \* history: the workspaces that the last save of the name listed
  job             \* per request: phase, arguments, what it has read

personVars == <<accountName, displayName, open, reached>>
tableVars == <<roleKey, holds, granted, given, listed, wall, posted, personVars>>
governanceVars == <<tableVars, job>>

Free == [phase |-> "idle", op |-> "none", number |-> 0, owner |-> Nobody, key |-> Nobody,
         items |-> {}, rows |-> {}, copy |-> {}, name |-> Nobody, places |-> {}, stale |-> FALSE]

Exists(x) == roleKey[x] # Nobody
Items(rows) == {row.item : row \in rows}

\* Requests that have read what r is writing do not know of it.
Overtaken(r, phases) ==
  [s \in Requests |->
     IF s = r THEN Free
     ELSE [job[s] EXCEPT !.stale = @ \/ (job[s].phase \in phases /\ job[s].owner = job[r].owner)]]

Finish(r) == job' = [job EXCEPT ![r] = Free]

---------------------------------------------------------------------------
(* The routes: the caller holds the capability, the body fits its schema.    *)

\* What each route asks of its caller; a profile is one's own.
Required ==
  [create_role |-> {"workspace.manage"}, update_role |-> {"workspace.manage"},
   delete_role |-> {"workspace.manage"}, list_roles |-> {"workspace.read"},
   assign |-> {"member.manage"}, announce |-> {"workspace.manage"},
   retract |-> {"workspace.manage"}, profile |-> {}]

MayAsk(role, place, op) == \A c \in Required[op] : MemberMay(place, role, c)

Begin(r, q) ==
  /\ Made(q.op)
  /\ \E role \in BuiltInRoles, place \in Places : MayAsk(role, place, q.op)
  /\ job[r].phase = "idle"
  /\ job' = [job EXCEPT ![r] = [q EXCEPT !.phase = "begun", !.number = requests + 1]]
  /\ UNCHANGED tableVars

BeginRole(r) ==
  \/ \E x \in RoleIds, k \in RoleKeys, caps \in SUBSET Capabilities \ {{}} :
       /\ granted[x] = {} /\ \A s \in Requests : job[s].owner # x
       /\ Begin(r, [Free EXCEPT !.op = "create_role", !.owner = x, !.key = k, !.items = caps])
  \/ \E x \in RoleIds, caps \in SUBSET Capabilities \ {{}} :
       Begin(r, [Free EXCEPT !.op = "update_role", !.owner = x, !.items = caps])
  \/ \E x \in RoleIds : Begin(r, [Free EXCEPT !.op = "delete_role", !.owner = x])
  \/ Begin(r, [Free EXCEPT !.op = "list_roles"])

BeginAssign(r) ==
  \E m \in Staff, roles \in SUBSET RoleIds :
    Begin(r, [Free EXCEPT !.op = "assign", !.owner = m, !.items = roles])

BeginAnnouncement(r) ==
  \E a \in Messages :
    \/ a \notin posted \union wall /\ Begin(r, [Free EXCEPT !.op = "announce", !.items = {a}])
    \/ Begin(r, [Free EXCEPT !.op = "retract", !.items = {a}])

BeginProfile(r) ==
  \E n \in Names : Begin(r, [Free EXCEPT !.op = "profile", !.name = n])

---------------------------------------------------------------------------
(* Roles: the rows of access_roles.                                        *)

\* createRole looks for the key, updateRole and deleteRole for the role, which
\* must not be a built-in one to be deleted.
Find(r) ==
  LET q == job[r]
      found == CASE q.op = "create_role" -> \A x \in RoleIds : roleKey[x] # q.key
                 [] q.op = "update_role" -> Exists(q.owner)
                 [] q.op = "delete_role" -> Exists(q.owner) /\ q.owner \notin BuiltIns
  IN /\ q.phase = "begun" /\ q.op \in {"create_role", "update_role", "delete_role"}
     /\ job' = [job EXCEPT ![r] = IF found THEN [@ EXCEPT !.phase = "found"] ELSE Free]
     /\ UNCHANGED <<tableVars, requestVars>>

\* The role, its grants, the commit.  A key that another request took meanwhile, or
\* a capability that is not in the catalogue, takes the whole transaction back.
CreateRole(r) ==
  LET q == job[r]
  IN /\ q.phase = "found" /\ q.op = "create_role"
     /\ IF (\A x \in RoleIds : roleKey[x] # q.key) /\ q.items \subseteq Catalogue
        THEN /\ roleKey' = [roleKey EXCEPT ![q.owner] = q.key]
             /\ holds' = [holds EXCEPT ![q.owner] = {[item |-> c, by |-> q.number] : c \in q.items}]
             /\ granted' = [granted EXCEPT ![q.owner] = @ \union {q.items}]
        ELSE UNCHANGED <<roleKey, holds, granted>>
     /\ Finish(r)
     /\ UNCHANGED <<given, listed, wall, posted, personVars>>
     /\ UNCHANGED requestVars

RoleLockedBy(r) == job[r].op = "update_role" /\ job[r].phase \in {"locked", "seen", "deleted"}

\* Faulty: updateRole does not lock its role before it replaces the grants.
LockNoRole(r) ==
  /\ job[r].phase = "found" /\ job[r].op = "update_role"
  /\ job' = [job EXCEPT ![r].phase = "locked"]
  /\ UNCHANGED <<tableVars, requestVars>>

\* The UPDATE of updateRole waits for the row lock of the role.
LockRole(r) ==
  /\ job[r].phase = "found" /\ job[r].op = "update_role"
  /\ \A s \in Requests \ {r} : ~(RoleLockedBy(s) /\ job[s].owner = job[r].owner)
  /\ job' = [job EXCEPT ![r].phase = "locked"]
  /\ UNCHANGED <<tableVars, requestVars>>

\* Requests that are deleting an assignment of role x, for which its DELETE waits.
Unassigning(x) ==
  {s \in Requests : /\ job[s].op = "assign" /\ job[s].phase = "deleted"
                    /\ x \in Items(job[s].rows)}

\* The DELETE of deleteRole takes the grants and the assignments of the role along.
DeleteRole(r) ==
  LET x == job[r].owner
  IN /\ job[r].phase = "found" /\ job[r].op = "delete_role"
     /\ \A s \in Requests \ {r} : ~(RoleLockedBy(s) /\ job[s].owner = x)
     /\ Unassigning(x) = {}
     /\ roleKey' = [roleKey EXCEPT ![x] = Nobody]
     /\ holds' = [o \in DOMAIN holds |-> IF o = x THEN {} ELSE {row \in holds[o] : row.item # x}]
     /\ Finish(r)
     /\ UNCHANGED <<granted, given, listed, wall, posted, personVars>>
     /\ UNCHANGED requestVars

\* A deletion holds the role and waits for an assignment row; the request that is
\* deleting the row waits for the role to assign it again.  One of them fails.
BreakDeadlock(r) ==
  /\ job[r].phase = "found" /\ job[r].op = "delete_role"
  /\ \E s \in Unassigning(job[r].owner) :
       /\ job[r].owner \in job[s].items
       /\ \E loser \in {r, s} : Finish(loser)
  /\ UNCHANGED <<tableVars, requestVars>>

\* listRoles reads the roles, and the grants in a statement of its own.
ReadRoles(r) ==
  /\ job[r].phase = "begun" /\ job[r].op = "list_roles"
  /\ job' = [job EXCEPT ![r].phase = "listing", ![r].items = {x \in RoleIds : Exists(x)}]
  /\ UNCHANGED <<tableVars, requestVars>>

ReadGrants(r) ==
  /\ job[r].phase = "listing"
  /\ listed' = [x \in job[r].items |-> Items(holds[x])]
  /\ Finish(r)
  /\ UNCHANGED <<roleKey, holds, granted, given, wall, posted, personVars>>
  /\ UNCHANGED requestVars

---------------------------------------------------------------------------
(* The grants of a role and the roles of a member are replaced.              *)

\* Faulty: nothing is deleted when there is nothing to insert.
SeeIfAny(r) ==
  /\ \/ job[r].phase = "locked"
     \/ job[r].phase = "begun" /\ job[r].op = "assign"
  /\ job' = [job EXCEPT ![r].phase = "seen",
                        ![r].rows = IF job[r].items = {} THEN {} ELSE holds[job[r].owner]]
  /\ UNCHANGED <<tableVars, requestVars>>

\* The DELETE starts: these are the rows it will delete.
See(r) ==
  /\ \/ job[r].phase = "locked"
     \/ job[r].phase = "begun" /\ job[r].op = "assign"
  /\ job' = [job EXCEPT ![r].phase = "seen", ![r].rows = holds[job[r].owner]]
  /\ UNCHANGED <<tableVars, requestVars>>

\* It waits for the rows that another request is deleting, and skips what is gone.
Delete(r) ==
  /\ job[r].phase = "seen"
  /\ \A s \in Requests \ {r} : 
       job[s].phase = "deleted" => job[s].rows \cap job[r].rows = {}
  /\ job' = [job EXCEPT ![r].phase = "deleted", ![r].rows = @ \cap holds[job[r].owner]]
  /\ UNCHANGED <<tableVars, requestVars>>

\* The INSERT and the commit.  A row for the same item that came in meanwhile, a
\* role that is gone or a capability that is not in the catalogue takes it all back.
Insert(r) ==
  LET q == job[r]
      kept == holds[q.owner] \ q.rows
      valid == IF q.op = "assign" THEN \A x \in q.items : Exists(x)
               ELSE Exists(q.owner) /\ q.items \subseteq Catalogue
  IN /\ q.phase = "deleted"
     /\ IF valid /\ Items(kept) \cap q.items = {}
        THEN /\ holds' = [holds EXCEPT ![q.owner] =
                            kept \union {[item |-> i, by |-> q.number] : i \in q.items}]
             /\ granted' = IF q.op = "assign" THEN granted
                           ELSE [granted EXCEPT ![q.owner] = @ \union {q.items}]
             /\ given' = IF q.op = "assign" THEN [given EXCEPT ![q.owner] = q.items] ELSE given
             /\ raced' = IF q.stale THEN raced \union {q.owner} ELSE raced \ {q.owner}
             /\ job' = Overtaken(r, {"seen", "deleted"})
        ELSE UNCHANGED <<holds, granted, given, raced>> /\ Finish(r)
     /\ UNCHANGED <<roleKey, listed, wall, posted, personVars, ops, requests>>

---------------------------------------------------------------------------
(* Announcements: one settings row holds the list of the workspace.          *)

ReadWall(r) ==
  /\ job[r].phase = "begun" /\ job[r].op \in {"announce", "retract"}
  /\ job' = [job EXCEPT ![r].phase = "copied", ![r].copy = wall]
  /\ UNCHANGED <<tableVars, requestVars>>

\* Faulty: the list that is written back keeps only what was there before.
WallWithout(q) == q.copy \ q.items

\* The list as it was read, with the announcement in front or taken out.
NewWall(q) == IF q.op = "announce" THEN q.items \union q.copy ELSE q.copy \ q.items

WriteWall(r) ==
  LET q == job[r]
  IN /\ q.phase = "copied"
     /\ wall' = NewWall(q)
     /\ posted' = IF q.op = "announce" THEN posted \union q.items ELSE posted \ q.items
     /\ job' = Overtaken(r, {"copied"})
     /\ raced' = IF q.stale THEN raced \union {"wall"} ELSE raced
     /\ UNCHANGED <<roleKey, holds, granted, given, listed, personVars, ops, requests>>

---------------------------------------------------------------------------
(* The name of a person.                                                   *)

Renaming(r) == job[r].phase \in {"renamed", "renaming"}

\* The account first, in transactions of its own.
RenameAccount(r) ==
  /\ job[r].phase = "begun" /\ job[r].op = "profile"
  /\ accountName' = job[r].name
  /\ job' = [job EXCEPT ![r].phase = "renamed"]
  /\ raced' = IF \E s \in Requests \ {r} : Renaming(s) THEN raced \union {"profile"} ELSE raced
  /\ UNCHANGED <<roleKey, holds, granted, given, listed, wall, posted, displayName, open, reached,
                 ops, requests>>

\* Then listWorkspacesForUser, read once: active memberships of active workspaces.
ListPlaces(r) ==
  /\ job[r].phase = "renamed"
  /\ job' = [job EXCEPT ![r] = IF open = {} THEN Free
                               ELSE [@ EXCEPT !.phase = "renaming", !.places = open]]
  /\ reached' = open
  /\ UNCHANGED <<roleKey, holds, granted, given, listed, wall, posted, accountName, displayName, open>>
  /\ UNCHANGED requestVars

\* Faulty: the workspace that the person is renamed in last keeps the name it had.
RenameAllButOne(r) ==
  /\ job[r].phase = "renaming"
  /\ \E p \in job[r].places :
       /\ displayName' = IF job[r].places = {p} THEN displayName
                         ELSE [displayName EXCEPT ![p] = job[r].name]
       /\ job' = [job EXCEPT ![r] = IF job[r].places = {p} THEN Free
                                    ELSE [job[r] EXCEPT !.places = @ \ {p}]]
  /\ UNCHANGED <<roleKey, holds, granted, given, listed, wall, posted, accountName, open, reached>>
  /\ UNCHANGED requestVars

\* The actor in each listed workspace, each in its own transaction, whatever has become
\* of the membership.
RenameActor(r) ==
  /\ job[r].phase = "renaming"
  /\ \E p \in job[r].places :
       /\ displayName' = [displayName EXCEPT ![p] = job[r].name]
       /\ job' = [job EXCEPT ![r] = IF job[r].places = {p} THEN Free
                                    ELSE [job[r] EXCEPT !.places = @ \ {p}]]
  /\ UNCHANGED <<roleKey, holds, granted, given, listed, wall, posted, accountName, open, reached>>
  /\ UNCHANGED requestVars

\* A transaction fails: the request ends, what was renamed stays so.
FailToRename(r) ==
  /\ Renaming(r)
  /\ Finish(r)
  /\ raced' = raced \union {"profile"}
  /\ UNCHANGED <<tableVars, ops, requests>>

\* Other requests suspend or restore the membership, archive or restore the workspace.
\* Bound: only where names are saved.
Toggle(p) ==
  /\ "profile" \in ops
  /\ open' = IF p \in open THEN open \ {p} ELSE open \union {p}
  /\ UNCHANGED <<roleKey, holds, granted, given, listed, wall, posted, accountName, displayName, reached, job>>
  /\ UNCHANGED requestVars

---------------------------------------------------------------------------
GovernanceInit ==
  /\ roleKey = [x \in RoleIds |-> IF x \in BuiltIns THEN x ELSE Nobody]
  /\ holds = [o \in RoleIds \union Staff |-> {}]
  /\ granted = [x \in RoleIds |-> IF x \in BuiltIns THEN {{}} ELSE {}]
  /\ given = [m \in Staff |-> {}]
  /\ listed = <<>>
  /\ wall = {} /\ posted = {}
  /\ accountName = FirstName /\ displayName = [p \in Places |-> FirstName]
  /\ open = Places /\ reached = Places
  /\ job = [r \in Requests |-> Free]

Govern(r) ==
  \/ BeginRole(r) \/ Find(r) \/ CreateRole(r) \/ LockRole(r) \/ DeleteRole(r) \/ BreakDeadlock(r)
  \/ ReadRoles(r) \/ ReadGrants(r)
  \/ BeginAssign(r) \/ See(r) \/ Delete(r) \/ Insert(r)
  \/ BeginAnnouncement(r) \/ ReadWall(r) \/ WriteWall(r)
  \/ BeginProfile(r) \/ RenameAccount(r) \/ ListPlaces(r) \/ RenameActor(r) \/ FailToRename(r)

GovernanceNext ==
  \/ \E r \in Requests : Govern(r)
  \/ \E p \in Places : Toggle(p)

---------------------------------------------------------------------------
(* Properties.                                                             *)

Job ==
  [phase : {"idle", "begun", "found", "locked", "seen", "deleted", "listing", "copied", "renamed",
            "renaming"},
   op : GovernanceOps \union {"none"}, number : 0..MaxRequests,
   owner : RoleIds \union Staff \union {Nobody}, key : RoleKeys \union {Nobody},
   items : SUBSET (RoleIds \union Capabilities \union Messages),
   rows : SUBSET [item : RoleIds \union Capabilities, by : 0..MaxRequests],
   copy : SUBSET Messages, name : Names \union {Nobody}, places : SUBSET Places, stale : BOOLEAN]

\* Every variable has its type.
GovernanceTypeOK ==
  /\ roleKey \in [RoleIds -> RoleKeys \union BuiltIns \union {Nobody}]
  /\ holds \in [RoleIds \union Staff -> SUBSET [item : RoleIds \union Capabilities,
                                                by : 0..MaxRequests]]
  /\ granted \in [RoleIds -> SUBSET SUBSET Capabilities]
  /\ given \in [Staff -> SUBSET RoleIds]
  /\ wall \subseteq Messages /\ posted \subseteq Messages
  /\ accountName \in Names /\ displayName \in [Places -> Names]
  /\ open \subseteq Places /\ reached \subseteq Places
  /\ job \in [Requests -> Job]

\* A role is listed with the capabilities that one request gave it, whatever updates
\* ran at once, or with none when it was deleted between the two reads.
RolesAreListedAsGranted ==
  \A x \in DOMAIN listed : listed[x] \in granted[x] \/ listed[x] = {}

\* The roles of a member are those that the last successful request gave it, without
\* the ones that were deleted since, unless another one committed rows between that
\* request's DELETE and its own commit.
RolesComeFromOneRequest ==
  \A m \in Staff :
    \/ m \in raced
    \/ Items(holds[m]) = {x \in given[m] : Exists(x)}

\* What was announced and not retracted is on the wall, unless a list was written
\* back that had been read before another change.
AnnouncedIsShown == "wall" \in raced \/ wall = posted

\* When no profile is being saved, a person bears the name of its account in every
\* workspace that the last save listed, suspended or archived since or not, unless two
\* saves overlapped or one failed half-way.  A workspace that was not listed, because
\* the membership or the workspace was not active then, keeps the name it had.
OneNameEverywhere ==
  \/ "profile" \in raced
  \/ \E r \in Requests : Renaming(r)
  \/ \A p \in reached : displayName[p] = accountName
=============================================================================
