------------------------- MODULE AdministrationProofs -------------------------
(***************************************************************************)
(* The two back offices, proved for any number of requests, accounts, links, *)
(* roles and members: what the permission decision of their routes allows,   *)
(* and the safety properties of PlatformAdministration and                  *)
(* WorkspaceGovernance, by one inductive invariant with a named part per     *)
(* table.  A part relates the rows, the requests that have read them, and    *)
(* the history raced, which says that a read was overtaken.                  *)
(***************************************************************************)
EXTENDS Administration, FiniteSetTheorems, TLAPS

USE DEF tableVars, personVars

---------------------------------------------------------------------------
(* The decision that every route asks for, whoever asks it.                  *)

\* The roles form a ladder: each may do what the one below may (roleCapabilities).
THEOREM RolesAreALadder ==
  /\ GuestCapabilities \subseteq MemberCapabilities
  /\ MemberCapabilities \subseteq AdminCapabilities
  /\ AdminCapabilities \subseteq OwnerCapabilities
  /\ OwnerCapabilities \ AdminCapabilities = {"workspace.security.manage"}
BY Zenon DEF GuestCapabilities, MemberCapabilities, AdminCapabilities, OwnerCapabilities

\* The order of the checks decides what is answered, never whether something is
\* allowed: it is when no denial applies and the role or a grant covers it.
THEOREM OrderOfChecksDoesNotMatter ==
  ASSUME NEW p, NEW c, NEW s
  PROVE  Allowed(p, c, s) <=>
           /\ p.workspace # Undefined /\ s.workspace # Undefined /\ p.workspace = s.workspace
           /\ p.status = "active"
           /\ ~OutsideProject(p, s) /\ ~OutsideRoom(p, s)
           /\ c \notin p.denied
           /\ ~NeedsHuman(p, c)
           /\ RoleAllows(p, c) \/ c \in p.granted
BY DEF Allowed, Decision

\* Nothing is allowed across workspaces, to a suspended principal, or against an
\* explicit denial, whatever role and grants there are.
THEOREM DenialsComeFirst ==
  ASSUME NEW p, NEW c, NEW s,
         p.workspace # s.workspace \/ p.status # "active" \/ c \in p.denied
  PROVE  ~Allowed(p, c, s)
BY OrderOfChecksDoesNotMatter

\* The comment at permissions.ts:144: an agent is never the one who reviews an approval,
\* even if its role or a grant lists the capability.
THEOREM AgentsNeverReview ==
  ASSUME NEW p, NEW s, p.kind # "human"
  PROVE  ~Allowed(p, "approval.review", s)
BY OrderOfChecksDoesNotMatter DEF NeedsHuman

\* The comment at permissions.ts:104: an agent without a role of its own, granted what
\* its delegator's role, its version, the resource and the tool have in common, may
\* do nothing that its delegator's role does not allow, nor its version.
THEOREM DelegationNeverWidens ==
  ASSUME NEW p, NEW c, NEW s, NEW role \in BuiltInRoles, NEW version, NEW resource, NEW tool,
         p.role \notin BuiltInRoles,
         p.granted = Delegated(RoleCapabilities[role], version, resource, tool),
         Allowed(p, c, s)
  PROVE  /\ c \in RoleCapabilities[role]
         /\ c \in version /\ c \in resource /\ c \in tool
<1>1. c \in p.granted
  BY OrderOfChecksDoesNotMatter DEF RoleAllows
<1> QED
  BY <1>1, Zenon DEF Delegated

\* The check of a workspace route is exactly the table of the roles: custom roles,
\* which requireWorkspaceCapability does not pass on, can neither add nor take away.
THEOREM RoutesAskTheRoleTable ==
  ASSUME NEW workspace, workspace # Undefined, NEW role \in BuiltInRoles, NEW c
  PROVE  MemberMay(workspace, role, c) <=> c \in RoleCapabilities[role]
<1> DEFINE p == MemberPrincipal(workspace, role)
           s == WorkspaceItself(workspace)
<1>1. /\ p.workspace = workspace /\ s.workspace = workspace /\ p.status = "active"
      /\ p.kind = "human" /\ p.role = role /\ p.granted = {} /\ p.denied = {}
      /\ s.project = Undefined /\ s.room = Undefined
  BY DEF MemberPrincipal, WorkspaceItself
<1>2. ~OutsideProject(p, s) /\ ~OutsideRoom(p, s) /\ ~NeedsHuman(p, c)
  BY <1>1 DEF OutsideProject, OutsideRoom, NeedsHuman
<1>3. RoleAllows(p, c) <=> c \in RoleCapabilities[role]
  BY <1>1 DEF RoleAllows
<1>4. Allowed(p, c, s) <=> c \in RoleCapabilities[role]
  <2> HIDE DEF p, s
  <2> QED BY <1>1, <1>2, <1>3, OrderOfChecksDoesNotMatter
<1> QED
  BY <1>4 DEF MemberMay

---------------------------------------------------------------------------
(* The platform back office.                                               *)

\* The arguments a request has in each phase.
CallShape(q) ==
  /\ q.phase = "counted" => q.op = "suspend"
  /\ q.phase = "read" => q.op \in {"publish", "withdraw"}
  /\ q.phase \in {"saving", "saved"} => q.op = "settings"
  /\ q.phase = "opening" => q.op = "open"
  /\ q.op \in {"add", "suspend", "activate", "tenant", "open", "workspace"} =>
       q.user \in Users /\ q.target \in Users
  /\ q.phase \in {"sending", "creating"} => q.user \in Users /\ q.target \in Users /\ q.slug \in Slugs
  /\ q.op \in {"tenant", "workspace"} => q.slug \in Slugs
  /\ q.op \in {"publish", "withdraw"} => q.notice \in Notices
  /\ q.op = "open" => q.link \in Links /\ q.target = q.user
  /\ q.todo # <<>> => q.phase \in {"sending", "opening", "creating"}
  /\ q.op = "settings" =>
       /\ q.policy \in Policies
       /\ q.phase = "asked" => q.next = 1
       /\ q.phase = "saving" => q.next \in {2, 3}
       /\ q.phase = "saved" => q.next = 4

\* A count that is still right leaves an administrator whoever is suspended.
CountsHold ==
  "administrators" \in raced
    \/ /\ ActiveAdmins # {}
       /\ \A r \in Requests : call[r].phase = "counted" /\ ~call[r].stale
                                => \A u \in Users : ActiveAdmins \ {u} # {}

Saving(q) == q.phase \in {"saving", "saved"}

\* One save at a time, and what it has saved is stored; without one the copy is good.
SavesHold ==
  "settings" \in raced
    \/ /\ \A r, s \in Requests : Saving(call[r]) /\ Saving(call[s]) => r = s
       /\ \A r \in Requests : Saving(call[r]) =>
            \A n \in 1..3 : n < call[r].next => stored[PolicyKeys[n]] = call[r].policy
       /\ (\A r \in Requests : ~Saving(call[r])) => policy = stored

BoardHolds ==
  "board" \in raced
    \/ /\ board = published
       /\ \A r \in Requests : call[r].phase = "read" /\ ~call[r].stale => call[r].copy = board

\* Who opens a link holds its row: what was found of it stays.
LinkHeld(r, q) ==
  /\ q.phase = "opening" => q.todo = <<q.link>> \/ (q.todo = <<>> /\ lock[q.link] = r)
  /\ q.phase = "creating" /\ q.op = "open" =>
       /\ lock[q.link] = r /\ IsPending(q.link)
       /\ link[q.link].email = q.user /\ link[q.link].slug = q.slug

TenantsHold ==
  /\ \A r \in Requests : LinkHeld(r, call[r])
  /\ \A l \in Links : link[l].usedBy # Nobody => link[l].slug \in Slugs
  /\ UsedLinkOwnsItsTenant

PlatformInv ==
  /\ PlatformTypeOK
  /\ \A r \in Requests : CallShape(call[r])
  /\ CountsHold /\ SavesHold /\ BoardHolds /\ TenantsHold

---------------------------------------------------------------------------
(* The workspace back office.                                              *)

RoleWrites == {"create_role", "update_role", "delete_role"}

JobShape(q) ==
  /\ q.phase # "idle" => q.op # "none"
  /\ q.phase = "found" => q.op \in RoleWrites
  /\ q.phase = "locked" => q.op = "update_role"
  /\ q.phase \in {"seen", "deleted"} => q.op \in {"update_role", "assign"}
  /\ q.phase = "listing" => q.op = "list_roles" /\ q.items \subseteq RoleIds
  /\ q.phase = "copied" => q.op \in {"announce", "retract"}
  /\ q.phase \in {"renamed", "renaming"} => q.op = "profile"
  /\ q.op \in RoleWrites => q.owner \in RoleIds
  /\ q.op \in {"create_role", "update_role"} => q.items \subseteq Capabilities
  /\ q.op = "create_role" => q.key \in RoleKeys
  /\ q.op = "assign" => q.owner \in Staff /\ q.items \subseteq RoleIds
  /\ q.op \in {"announce", "retract"} => q.owner = Nobody /\ q.items \subseteq Messages
  /\ q.op = "profile" => q.name \in Names

\* A role that no request has given anything is not there.
RowsHold ==
  /\ \A x \in RoleIds : Exists(x) => granted[x] # {}
  /\ \A x \in RoleIds : Items(holds[x]) \subseteq Capabilities
  /\ \A m \in Staff : Items(holds[m]) \subseteq RoleIds
  /\ \A m \in Staff : \A x \in given[m] : granted[x] # {}

\* A role is made by one request, and nobody else works on it before it is there; an
\* update holds its row, so that the grants it saw are still all there are.
RolesHold ==
  /\ \A r \in Requests : job[r].op = "create_role" =>
       /\ granted[job[r].owner] = {}
       /\ \A s \in Requests \ {r} : job[s].op = "create_role" => job[s].owner # job[r].owner
  /\ \A r \in Requests : job[r].op = "update_role" /\ job[r].phase # "begun" =>
       granted[job[r].owner] # {}
  /\ \A r, s \in Requests : RoleLockedBy(r) /\ RoleLockedBy(s) /\ job[r].owner = job[s].owner => r = s
  /\ \A r \in Requests : job[r].op = "update_role" /\ job[r].phase \in {"seen", "deleted"} =>
       job[r].rows = holds[job[r].owner]
  /\ \A x \in RoleIds : Items(holds[x]) \in granted[x] \union {{}}
  /\ DOMAIN listed \subseteq RoleIds
  /\ RolesAreListedAsGranted

\* An assignment that knows of all others has seen every row there is.
AssignmentsHold ==
  /\ \A r \in Requests : job[r].op = "assign" /\ job[r].phase \in {"seen", "deleted"} /\ ~job[r].stale =>
       holds[job[r].owner] \subseteq job[r].rows
  /\ RolesComeFromOneRequest

WallHolds ==
  "wall" \in raced
    \/ /\ wall = posted
       /\ \A r \in Requests : job[r].phase = "copied" /\ ~job[r].stale => job[r].copy = wall

\* One save at a time: the account bears its name, and so do the places it has been at.
NamesHold ==
  "profile" \in raced
    \/ /\ \A r, s \in Requests : Renaming(r) /\ Renaming(s) => r = s
       /\ \A r \in Requests : Renaming(r) => accountName = job[r].name
       /\ \A r \in Requests : job[r].phase = "renaming" =>
            \A p \in reached \ job[r].places : displayName[p] = accountName
       /\ (\A r \in Requests : ~Renaming(r)) => \A p \in reached : displayName[p] = accountName

GovernanceInv ==
  /\ RequestsTypeOK /\ GovernanceTypeOK
  /\ \A r \in Requests : JobShape(job[r])
  /\ RowsHold /\ RolesHold /\ AssignmentsHold /\ WallHolds /\ NamesHold

---------------------------------------------------------------------------
(* Requests of the platform.                                               *)

LEMMA IdleIsTyped ==
  /\ Idle \in Call /\ CallShape(Idle)
  /\ Idle.phase = "idle" /\ Idle.op = "none" /\ Idle.stale = FALSE /\ Idle.next = 1 /\ Idle.todo = <<>>
BY DEF Idle, Call, CallShape, PlatformOps

\* One request goes on, the others stay.
Moves(r, c) ==
  /\ c \in Call /\ CallShape(c) /\ LinkHeld(r, c)'
  /\ call' = [call EXCEPT ![r] = c]

\* A request asks for something, or is turned away.
LEMMA AskMoves ==
  ASSUME PlatformInv, NEW r \in Requests, NEW q \in Call, CallShape(q), q.phase = "idle", Ask(r, q),
         q.next = 1
  PROVE  \E c \in Call : Moves(r, c) /\ c.phase \in {"idle", "asked"}
<1>1. PICK c \in Call : c = IF IsAdmin(q.user) THEN [q EXCEPT !.phase = "asked"] ELSE Idle
  BY IdleIsTyped DEF Call
<1>2. c.phase \in {"idle", "asked"} /\ CallShape(c)
  BY <1>1, IdleIsTyped DEF Call, CallShape
<1>3. call' = [call EXCEPT ![r] = c]
  BY <1>1 DEF Ask
<1>4. LinkHeld(r, c)'
  BY <1>2 DEF LinkHeld
<1> QED BY <1>2, <1>3, <1>4 DEF Moves

Asks(r) == AskAboutAdministrator(r) \/ AskForTenant(r) \/ AskForSettings(r) \/ AskForNotice(r)

LEMMA AsksMove ==
  ASSUME PlatformInv, NEW r \in Requests, Asks(r)
  PROVE  /\ \E c \in Call : Moves(r, c) /\ c.phase \in {"idle", "asked"}
         /\ UNCHANGED <<admin, registered, tenant, link, lapsed, stored, policy, board, published, lock>>
         /\ raced' = raced
<1>1. ASSUME NEW u \in Users, NEW t \in Users, NEW o \in {"add", "suspend", "activate"},
             Ask(r, [Idle EXCEPT !.op = o, !.user = u, !.target = t])
      PROVE  \E c \in Call : Moves(r, c) /\ c.phase \in {"idle", "asked"}
  <2>1. PICK q : q = [Idle EXCEPT !.op = o, !.user = u, !.target = t]
    OBVIOUS
  <2>2. q \in Call /\ q.phase = "idle" /\ q.next = 1 /\ q.todo = <<>>
      /\ q.op = o /\ q.user = u /\ q.target = t
    BY <2>1, IdleIsTyped DEF Call, PlatformOps
  <2>3. CallShape(q)
    BY <2>2 DEF CallShape
  <2> QED BY <1>1, <2>1, <2>2, <2>3, AskMoves
<1>2. ASSUME NEW u \in Users, NEW t \in Users, NEW s \in Slugs,
             Ask(r, [Idle EXCEPT !.op = "tenant", !.user = u, !.target = t, !.slug = s])
      PROVE  \E c \in Call : Moves(r, c) /\ c.phase \in {"idle", "asked"}
  <2>1. PICK q : q = [Idle EXCEPT !.op = "tenant", !.user = u, !.target = t, !.slug = s]
    OBVIOUS
  <2>2. q \in Call /\ q.phase = "idle" /\ q.next = 1 /\ q.todo = <<>>
      /\ q.op = "tenant" /\ q.user = u /\ q.target = t /\ q.slug = s
    BY <2>1, IdleIsTyped DEF Call, PlatformOps
  <2>3. CallShape(q)
    BY <2>2 DEF CallShape
  <2> QED BY <1>2, <2>1, <2>2, <2>3, AskMoves
<1>3. ASSUME NEW u \in Users, NEW p \in Policies,
             Ask(r, [Idle EXCEPT !.op = "settings", !.user = u, !.policy = p])
      PROVE  \E c \in Call : Moves(r, c) /\ c.phase \in {"idle", "asked"}
  <2>1. PICK q : q = [Idle EXCEPT !.op = "settings", !.user = u, !.policy = p]
    OBVIOUS
  <2>2. q \in Call /\ q.phase = "idle" /\ q.next = 1 /\ q.todo = <<>>
      /\ q.op = "settings" /\ q.user = u /\ q.policy = p
    BY <2>1, IdleIsTyped DEF Call, PlatformOps
  <2>3. CallShape(q)
    BY <2>2 DEF CallShape
  <2> QED BY <1>3, <2>1, <2>2, <2>3, AskMoves
<1>4. ASSUME NEW u \in Users, NEW n \in Notices, NEW o \in {"publish", "withdraw"},
             Ask(r, [Idle EXCEPT !.op = o, !.user = u, !.notice = n])
      PROVE  \E c \in Call : Moves(r, c) /\ c.phase \in {"idle", "asked"}
  <2>1. PICK q : q = [Idle EXCEPT !.op = o, !.user = u, !.notice = n]
    OBVIOUS
  <2>2. q \in Call /\ q.phase = "idle" /\ q.next = 1 /\ q.todo = <<>>
      /\ q.op = o /\ q.user = u /\ q.notice = n
    BY <2>1, IdleIsTyped DEF Call, PlatformOps
  <2>3. CallShape(q)
    BY <2>2 DEF CallShape
  <2> QED BY <1>4, <2>1, <2>2, <2>3, AskMoves
<1>5. /\ UNCHANGED <<admin, registered, tenant, link, lapsed, stored, policy, board, published, lock>>
      /\ raced' = raced
  BY DEF Asks, AskAboutAdministrator, AskForTenant, AskForSettings, AskForNotice, Ask, Made
<1> QED
  BY <1>1, <1>2, <1>3, <1>4, <1>5
  DEF Asks, AskAboutAdministrator, AskForTenant, AskForSettings, AskForNotice

LEMMA WorkspaceMoves ==
  ASSUME PlatformInv, NEW r \in Requests, AskForWorkspace(r)
  PROVE  /\ \E c \in Call : Moves(r, c) /\ c.phase \in {"creating", "opening"}
         /\ UNCHANGED <<admin, registered, tenant, link, lapsed, stored, policy, board, published, lock>>
         /\ raced' = raced
<1>1. registered \subseteq Users /\ Slugs \subseteq Rows /\ Links \subseteq Rows
  BY DEF PlatformInv, PlatformTypeOK, Rows
<1>2. ASSUME NEW u \in registered, NEW s \in Slugs, NEW c,
             c = [Idle EXCEPT !.op = "workspace", !.user = u, !.target = u,
                              !.slug = s, !.phase = "creating", !.todo = <<s>>],
             call' = [call EXCEPT ![r] = c]
      PROVE  \E d \in Call : Moves(r, d) /\ d.phase \in {"creating", "opening"}
  <2>1. <<s>> \in Seq(Rows)
    BY <1>1
  <2>2. c \in Call /\ c.phase = "creating" /\ c.op = "workspace"
    BY <1>1, <1>2, <2>1 DEF Idle, Call, PlatformOps
  <2>3. CallShape(c) /\ LinkHeld(r, c)'
    BY <1>1, <1>2 DEF Idle, CallShape, LinkHeld
  <2> QED BY <1>2, <2>2, <2>3 DEF Moves
<1>3. ASSUME NEW u \in registered, NEW l \in Links, NEW c,
             c = [Idle EXCEPT !.op = "open", !.user = u, !.target = u,
                              !.link = l, !.phase = "opening", !.todo = <<l>>],
             call' = [call EXCEPT ![r] = c]
      PROVE  \E d \in Call : Moves(r, d) /\ d.phase \in {"creating", "opening"}
  <2>1. <<l>> \in Seq(Rows)
    BY <1>1
  <2>2. c \in Call /\ c.phase = "opening" /\ c.op = "open"
    BY <1>1, <1>3, <2>1 DEF Idle, Call, PlatformOps
  <2>3. CallShape(c) /\ LinkHeld(r, c)'
    BY <1>1, <1>3 DEF Idle, CallShape, LinkHeld
  <2> QED BY <1>3, <2>2, <2>3 DEF Moves
<1>4. /\ UNCHANGED <<admin, registered, tenant, link, lapsed, stored, policy, board, published, lock>>
      /\ raced' = raced
  BY DEF AskForWorkspace, Made
<1> QED
  BY <1>2, <1>3, <1>4 DEF AskForWorkspace

\* Whose read is overtaken by a write of r goes on knowing that it is stale.
LEMMA WrittenCalls ==
  ASSUME PlatformInv, NEW r \in Requests, NEW os, NEW phases, call' = Written(r, os, phases),
         NEW s \in Requests
  PROVE  /\ call'[s] \in Call
         /\ s = r => call'[s] = Idle
         /\ s # r =>
              /\ call'[s].phase = call[s].phase /\ call'[s].op = call[s].op
              /\ call'[s].user = call[s].user /\ call'[s].target = call[s].target
              /\ call'[s].slug = call[s].slug /\ call'[s].link = call[s].link
              /\ call'[s].policy = call[s].policy /\ call'[s].notice = call[s].notice
              /\ call'[s].copy = call[s].copy /\ call'[s].next = call[s].next
              /\ call'[s].todo = call[s].todo
              /\ call'[s].stale <=> call[s].stale \/ (call[s].op \in os /\ call[s].phase \in phases)
<1>1. CASE s = r
  BY <1>1, IdleIsTyped DEF Written
<1>2. CASE s # r
  <2> DEFINE t == call[s].stale \/ (call[s].op \in os /\ call[s].phase \in phases)
             c == [call[s] EXCEPT !.stale = t]
  <2>1. call[s] \in Call
    BY DEF PlatformInv, PlatformTypeOK
  <2>2. call'[s] = c
    BY <1>2 DEF Written
  <2>3. t \in BOOLEAN
    BY <2>1 DEF Call
  <2>4. t <=> call[s].stale \/ (call[s].op \in os /\ call[s].phase \in phases)
    OBVIOUS
  <2> HIDE DEF t
  <2>5. /\ c \in Call /\ c.phase = call[s].phase /\ c.op = call[s].op
        /\ c.user = call[s].user /\ c.target = call[s].target
        /\ c.slug = call[s].slug /\ c.link = call[s].link
        /\ c.policy = call[s].policy /\ c.notice = call[s].notice
        /\ c.copy = call[s].copy /\ c.next = call[s].next
        /\ c.todo = call[s].todo /\ c.stale = t
    BY <2>1, <2>3 DEF Call
  <2> HIDE DEF c
  <2> QED BY <1>2, <2>2, <2>4, <2>5
<1> QED BY <1>1, <1>2

---------------------------------------------------------------------------
(* Tenants: requests that lock rows.                                       *)

LEMMA MovesOne ==
  ASSUME PlatformInv, NEW r \in Requests, NEW c \in Call, Moves(r, c)
  PROVE  /\ call' \in [Requests -> Call]
         /\ \A s \in Requests : CallShape(call[s])'
         /\ call'[r] = c
         /\ \A s \in Requests \ {r} : call'[s] = call[s]
<1>1. call \in [Requests -> Call] /\ \A s \in Requests : CallShape(call[s])
  BY DEF PlatformInv, PlatformTypeOK
<1>2. /\ call' \in [Requests -> Call]
      /\ call'[r] = c
      /\ \A s \in Requests \ {r} : call'[s] = call[s]
  BY <1>1 DEF Moves
<1>3. CallShape(c)
  BY DEF Moves
<1>4. ASSUME NEW s \in Requests
      PROVE  CallShape(call'[s])
  BY <1>1, <1>2, <1>3
<1>5. \A s \in Requests : CallShape(call[s])'
  BY <1>4 DEF CallShape
<1> QED BY <1>2, <1>5

\* Steps of requests that have neither counted, nor saved, nor read a list.
Calm == {"idle", "asked", "sending", "opening", "creating"}

CalmStep(r) ==
  /\ call[r].phase \in Calm
  /\ \E c \in Call : Moves(r, c) /\ c.phase \in Calm
  /\ UNCHANGED <<admin, registered, lapsed, stored, policy, board, published>>
  /\ raced' = raced

LEMMA CalmStepsKeep ==
  ASSUME PlatformInv, NEW r \in Requests, CalmStep(r)
  PROVE  /\ call' \in [Requests -> Call]
         /\ \A s \in Requests : CallShape(call[s])'
         /\ CountsHold' /\ SavesHold' /\ BoardHolds'
<1>1. PICK c \in Call : Moves(r, c) /\ c.phase \in Calm
  BY DEF CalmStep
<1>2. /\ call' \in [Requests -> Call]
      /\ \A s \in Requests : CallShape(call[s])'
      /\ call'[r] = c
      /\ \A s \in Requests \ {r} : call'[s] = call[s]
  BY <1>1, MovesOne
<1>3. /\ admin' = admin /\ stored' = stored /\ policy' = policy
      /\ board' = board /\ published' = published /\ raced' = raced
      /\ call[r].phase \in Calm /\ c.phase \in Calm
  BY <1>1 DEF CalmStep
<1>4. ASSUME NEW s \in Requests
      PROVE  \/ call'[s] = call[s]
             \/ /\ call'[s].phase \notin {"counted", "saving", "saved", "read"}
                /\ call[s].phase \notin {"counted", "saving", "saved", "read"}
  BY <1>2, <1>3 DEF Calm
<1>5. CountsHold'
  BY <1>3, <1>4 DEF PlatformInv, CountsHold, ActiveAdmins
<1>6. SavesHold'
  BY <1>3, <1>4 DEF PlatformInv, SavesHold, Saving
<1>7. BoardHolds'
  BY <1>3, <1>4 DEF PlatformInv, BoardHolds
<1> QED BY <1>2, <1>5, <1>6, <1>7

\* What another request holds is not taken from it.
LEMMA OthersHold ==
  ASSUME PlatformInv, NEW s \in Requests, call'[s] = call[s],
         \A l \in Links : lock[l] = s /\ link[l] # NoLink => lock'[l] = s /\ link'[l] = link[l],
         \A l \in Links : lock[l] = s => lock'[l] = s
  PROVE  LinkHeld(s, call[s])'
<1>1. LinkHeld(s, call[s]) /\ CallShape(call[s])
  BY DEF PlatformInv, TenantsHold
<1>2. CASE call[s].phase = "opening"
  BY <1>1, <1>2 DEF LinkHeld, CallShape
<1>3. CASE call[s].phase = "creating" /\ call[s].op = "open"
  <2> DEFINE l == call[s].link
  <2>1. l \in Links /\ lock[l] = s /\ IsPending(l)
    BY <1>1, <1>3 DEF LinkHeld, CallShape
  <2>2. link[l] # NoLink
    BY <2>1 DEF IsPending, NoLink
  <2>3. lock'[l] = s /\ link'[l] = link[l]
    BY <2>1, <2>2
  <2> QED BY <1>1, <1>3, <2>3 DEF LinkHeld, IsPending
<1> QED BY <1>2, <1>3 DEF LinkHeld

\* Nothing happens to links, tenants and locks.
LEMMA TenantsStay ==
  ASSUME PlatformInv, NEW r \in Requests, UNCHANGED <<tenant, link>>,
         LinkHeld(r, call[r])',
         \A s \in Requests \ {r} : LinkHeld(s, call[s])'
  PROVE  TenantsHold'
BY DEF PlatformInv, TenantsHold, UsedLinkOwnsItsTenant, IsPending

\* What the steps of a tenant request have to be shown to keep.
TenantTypes ==
  /\ tenant \in [Slugs -> Users \union {Nobody}]
  /\ link \in [Links -> [slug : Slugs \union {Nobody}, email : Users \union {Nobody},
                         inviter : Users \union {Nobody}, usedBy : Users \union {Nobody},
                         revoked : BOOLEAN]]
  /\ lock \in [Rows -> Requests \union {Nobody}]

LEMMA TakeHolds ==
  ASSUME PlatformInv, NEW r \in Requests, Take(r)
  PROVE  CalmStep(r) /\ TenantTypes' /\ TenantsHold'
<1> DEFINE h == Head(call[r].todo)
<1>1. /\ call[r] \in Call /\ CallShape(call[r]) /\ LinkHeld(r, call[r])
      /\ lock \in [Rows -> Requests \union {Nobody}] /\ Nobody \notin Requests
  BY RequestsAssumption DEF PlatformInv, PlatformTypeOK, TenantsHold
<1>2. call[r].todo \in Seq(Rows) /\ call[r].todo # <<>>
  BY <1>1 DEF Call, Take
<1>3. h \in Rows /\ Tail(call[r].todo) \in Seq(Rows)
  BY <1>2
<1>4. lock[h] = Nobody /\ lock' = [lock EXCEPT ![h] = r]
  BY DEF Take
<1> HIDE DEF h
<1>5. PICK t \in Seq(Rows) : t = Tail(call[r].todo)
  BY <1>3
<1>6. PICK c \in Call : c = [call[r] EXCEPT !.todo = t]
  BY <1>1, <1>5 DEF Call
<1>7. /\ c.phase = call[r].phase /\ c.op = call[r].op /\ c.user = call[r].user
      /\ c.target = call[r].target /\ c.slug = call[r].slug /\ c.link = call[r].link
      /\ c.policy = call[r].policy /\ c.notice = call[r].notice /\ c.next = call[r].next
      /\ c.todo = t
  BY <1>1, <1>6 DEF Call
<1>8. call[r].phase \in {"sending", "opening", "creating"}
  BY <1>1, <1>2 DEF CallShape
<1>9. CallShape(c)
  BY <1>1, <1>7, <1>8 DEF CallShape
<1>10. call' = [call EXCEPT ![r] = c]
  BY <1>5, <1>6 DEF Take, PlatformInv, PlatformTypeOK
<1>11. link' = link /\ tenant' = tenant
  BY DEF Take
<1>12. \A row \in Rows : lock[row] # Nobody => lock'[row] = lock[row]
  BY <1>1, <1>3, <1>4
<1>13. Links \subseteq Rows
  BY DEF Rows
<1>14. LinkHeld(r, c)'
  <2>1. CASE c.phase = "opening"
    <3>1. call[r].todo = <<call[r].link>>
      BY <1>1, <1>2, <1>7, <2>1 DEF LinkHeld
    <3>2. h = call[r].link /\ t = <<>>
      BY <1>5, <3>1 DEF h
    <3>3. lock'[h] = r
      BY <1>1, <1>3, <1>4
    <3> QED BY <1>7, <2>1, <3>2, <3>3 DEF LinkHeld
  <2>2. CASE c.phase = "creating" /\ c.op = "open"
    <3>1. /\ lock[call[r].link] = r /\ IsPending(call[r].link) /\ call[r].link \in Links
          /\ link[call[r].link].email = call[r].user /\ link[call[r].link].slug = call[r].slug
      BY <1>1, <1>7, <2>2 DEF LinkHeld, CallShape
    <3>2. lock'[call[r].link] = r
      BY <1>1, <1>12, <1>13, <3>1
    <3> QED BY <1>7, <1>11, <2>2, <3>1, <3>2 DEF LinkHeld, IsPending
  <2> QED BY <2>1, <2>2 DEF LinkHeld
<1>15. Moves(r, c)
  BY <1>9, <1>10, <1>14 DEF Moves
<1>16. /\ call'[r] = c
       /\ \A s \in Requests \ {r} : call'[s] = call[s]
  BY <1>15, MovesOne
<1>17. LinkHeld(r, call[r])'
  BY <1>14, <1>16 DEF LinkHeld
<1>18. ASSUME NEW s \in Requests \ {r}
       PROVE  LinkHeld(s, call[s])'
  <2>1. \A l \in Links : lock[l] = s => lock'[l] = s
    BY <1>1, <1>12, <1>13
  <2> QED BY <1>11, <1>16, <2>1, OthersHold
<1>19. TenantsHold'
  BY <1>11, <1>17, <1>18, TenantsStay
<1>20. TenantTypes'
  BY <1>1, <1>3, <1>4, <1>11 DEF TenantTypes, PlatformInv, PlatformTypeOK
<1>21. CalmStep(r)
  BY <1>7, <1>8, <1>15 DEF CalmStep, Calm, Take, requestVars
<1> QED BY <1>19, <1>20, <1>21

\* A transaction ends: what r held is free, what others hold is not.
LEMMA EndMoves ==
  ASSUME PlatformInv, NEW r \in Requests, End(r)
  PROVE  /\ Moves(r, Idle) /\ call'[r] = Idle
         /\ UNCHANGED <<admin, registered, lapsed, stored, policy, board, published>>
         /\ raced' = raced
         /\ lock' \in [Rows -> Requests \union {Nobody}]
         /\ \A s \in Requests \ {r}, l \in Links : lock[l] = s => lock'[l] = s
         /\ \A s \in Requests \ {r} : call'[s] = call[s]
         /\ LinkHeld(r, call[r])'
<1>1. lock \in [Rows -> Requests \union {Nobody}] /\ Links \subseteq Rows
  BY DEF PlatformInv, PlatformTypeOK, Rows
<1>2. lock' = [row \in Rows |-> IF lock[row] = r THEN Nobody ELSE lock[row]]
  BY DEF End, Unlocked
<1>3. /\ lock' \in [Rows -> Requests \union {Nobody}]
      /\ \A s \in Requests \ {r}, l \in Links : lock[l] = s => lock'[l] = s
  BY <1>1, <1>2
<1>4. LinkHeld(r, Idle)'
  BY IdleIsTyped DEF LinkHeld
<1>5. Moves(r, Idle)
  BY <1>4, IdleIsTyped DEF Moves, End
<1>6. call'[r] = Idle /\ \A s \in Requests \ {r} : call'[s] = call[s]
  BY <1>5, IdleIsTyped, MovesOne
<1>7. LinkHeld(r, call[r])'
  BY <1>4, <1>6 DEF LinkHeld
<1> QED BY <1>3, <1>5, <1>6, <1>7 DEF End, requestVars

LEMMA EndIsCalm ==
  ASSUME PlatformInv, NEW r \in Requests, End(r), call[r].phase \in Calm
  PROVE  CalmStep(r)
BY EndMoves, IdleIsTyped DEF CalmStep, Calm

\* The transaction ends without having changed anything.
LEMMA EndHolds ==
  ASSUME PlatformInv, NEW r \in Requests, End(r), call[r].phase \in Calm, UNCHANGED <<tenant, link>>
  PROVE  CalmStep(r) /\ TenantTypes' /\ TenantsHold'
<1>1. \A s \in Requests \ {r} : LinkHeld(s, call[s])'
  BY EndMoves, OthersHold
<1>2. TenantsHold'
  BY <1>1, EndMoves, TenantsStay
<1> QED BY <1>2, EndIsCalm, EndMoves DEF TenantTypes, PlatformInv, PlatformTypeOK

\* A transaction goes on and changes nothing yet but its own request.
LEMMA GoesOn ==
  ASSUME PlatformInv, NEW r \in Requests, NEW c \in Call, Moves(r, c),
         call[r].phase \in Calm, c.phase \in Calm, raced' = raced,
         UNCHANGED <<admin, registered, tenant, link, lapsed, stored, policy, board, published, lock>>
  PROVE  CalmStep(r) /\ TenantTypes' /\ TenantsHold'
<1>1. call'[r] = c /\ \A s \in Requests \ {r} : call'[s] = call[s]
  BY MovesOne
<1>2. LinkHeld(r, call[r])'
  BY <1>1 DEF LinkHeld, Moves
<1>3. \A s \in Requests \ {r} : LinkHeld(s, call[s])'
  BY <1>1, OthersHold
<1>4. TenantsHold'
  BY <1>2, <1>3, TenantsStay
<1> QED BY <1>4 DEF CalmStep, TenantTypes, PlatformInv, PlatformTypeOK

LEMMA PrepareHolds ==
  ASSUME PlatformInv, NEW r \in Requests, Prepare(r)
  PROVE  CalmStep(r) /\ TenantTypes' /\ TenantsHold'
<1> DEFINE LinkRows == {l \in Links : IsPending(l) /\ link[l].slug = call[r].slug}
<1>1. call[r] \in Call /\ CallShape(call[r]) /\ call[r].phase = "asked" /\ call[r].op = "tenant"
  BY DEF PlatformInv, PlatformTypeOK, Prepare
<1>2. call[r].user \in Users /\ call[r].target \in Users /\ call[r].slug \in Slugs
  BY <1>1 DEF CallShape
<1>3. CASE ~IsAdmin(call[r].user)
  BY <1>1, <1>3, EndHolds DEF Prepare, Calm
<1>4. CASE IsAdmin(call[r].user)
  <2>1. PICK todo \in IF call[r].target \in registered THEN {<<call[r].slug>>}
                      ELSE IF LinkRows = {} THEN {<<Pending(call[r].slug)>>}
                      ELSE {<<l, Pending(call[r].slug)>> : l \in LinkRows} :
               call' = [call EXCEPT
                          ![r].phase = IF call[r].target \in registered THEN "creating" ELSE "sending",
                          ![r].todo = todo]
    BY <1>4 DEF Prepare
  <2>2. todo \in Seq(Rows)
    <3>1. call[r].slug \in Rows /\ Pending(call[r].slug) \in Rows /\ LinkRows \subseteq Rows
      BY <1>2 DEF Rows
    <3>2. \/ todo = <<call[r].slug>> \/ todo = <<Pending(call[r].slug)>>
          \/ \E l \in LinkRows : todo = <<l, Pending(call[r].slug)>>
      BY <2>1
    <3> HIDE DEF LinkRows
    <3>3. \A a, b \in Rows : <<a>> \in Seq(Rows) /\ <<a, b>> \in Seq(Rows)
      OBVIOUS
    <3> QED BY <3>1, <3>2, <3>3
  <2>3. PICK p \in {"creating", "sending"} :
          p = IF call[r].target \in registered THEN "creating" ELSE "sending"
    OBVIOUS
  <2>4. PICK c \in Call : c = [call[r] EXCEPT !.phase = p, !.todo = todo]
    BY <1>1, <2>2 DEF Call
  <2>5. /\ c.phase = p /\ c.op = call[r].op /\ c.user = call[r].user
        /\ c.target = call[r].target /\ c.slug = call[r].slug
    BY <1>1, <2>4 DEF Call
  <2>6. call' = [call EXCEPT ![r] = c]
    BY <2>1, <2>3, <2>4 DEF PlatformInv, PlatformTypeOK
  <2>7. CallShape(c) /\ LinkHeld(r, c)'
    BY <1>1, <1>2, <2>5 DEF CallShape, LinkHeld
  <2>8. Moves(r, c)
    BY <2>6, <2>7 DEF Moves
  <2>9. /\ UNCHANGED <<admin, registered, tenant, link, lapsed, stored, policy, board, published, lock>>
        /\ raced' = raced
    BY <1>4 DEF Prepare, requestVars
  <2> QED BY <1>1, <2>5, <2>8, <2>9, GoesOn DEF Calm
<1> QED BY <1>3, <1>4

LEMMA OpenHolds ==
  ASSUME PlatformInv, NEW r \in Requests, Open(r)
  PROVE  CalmStep(r) /\ TenantTypes' /\ TenantsHold'
<1>1. /\ call[r] \in Call /\ CallShape(call[r]) /\ LinkHeld(r, call[r])
      /\ call[r].phase = "opening" /\ call[r].todo = <<>>
  BY DEF PlatformInv, PlatformTypeOK, TenantsHold, Open
<1>2. /\ call[r].op = "open" /\ call[r].link \in Links /\ lock[call[r].link] = r
      /\ call[r].user \in Users /\ call[r].target = call[r].user
  BY <1>1 DEF CallShape, LinkHeld
<1>3. CASE Openable(call[r]) /\ IsAdmin(link[call[r].link].inviter)
  <2>1. IsPending(call[r].link) /\ link[call[r].link].email = call[r].user
    BY <1>3 DEF Openable
  <2>2. PICK s \in Slugs : s = link[call[r].link].slug
    BY <1>2, <2>1 DEF IsPending, PlatformInv, PlatformTypeOK
  <2>3. <<s>> \in Seq(Rows)
    BY DEF Rows
  <2>4. PICK c \in Call : c = [call[r] EXCEPT !.phase = "creating", !.slug = s, !.todo = <<s>>]
    BY <1>1, <2>3 DEF Call
  <2>5. /\ c.phase = "creating" /\ c.op = call[r].op /\ c.user = call[r].user
        /\ c.target = call[r].target /\ c.slug = s /\ c.link = call[r].link
    BY <1>1, <2>4 DEF Call
  <2>6. call' = [call EXCEPT ![r] = c]
    BY <1>3, <2>2, <2>4 DEF Open, PlatformInv, PlatformTypeOK
  <2>7. /\ UNCHANGED <<admin, registered, tenant, link, lapsed, stored, policy, board, published, lock>>
        /\ raced' = raced
    BY <1>3 DEF Open, requestVars
  <2>8. CallShape(c)
    BY <1>2, <2>5 DEF CallShape
  <2>9. LinkHeld(r, c)'
    BY <1>2, <2>1, <2>2, <2>5, <2>7 DEF LinkHeld, IsPending
  <2>10. Moves(r, c)
    BY <2>6, <2>8, <2>9 DEF Moves
  <2> QED BY <1>1, <2>5, <2>7, <2>10, GoesOn DEF Calm
<1>4. CASE ~(Openable(call[r]) /\ IsAdmin(link[call[r].link].inviter))
  BY <1>1, <1>4, EndHolds DEF Open, Calm
<1> QED BY <1>3, <1>4

\* A link that is sent takes back what its request holds and is still pending.
LEMMA SendHolds ==
  ASSUME PlatformInv, NEW r \in Requests, Send(r)
  PROVE  CalmStep(r) /\ TenantTypes' /\ TenantsHold'
<1>1. /\ call[r] \in Call /\ call[r].phase = "sending" /\ End(r) /\ tenant' = tenant
      /\ call[r].user \in Users /\ call[r].target \in Users /\ call[r].slug \in Slugs
  BY DEF PlatformInv, PlatformTypeOK, CallShape, Send
<1>2. CASE UNCHANGED link
  BY <1>1, <1>2, EndHolds DEF Calm
<1>3. CASE ~UNCHANGED link
  <2>1. PICK l \in Links :
          /\ link[l] = NoLink
          /\ link' = [m \in Links |->
               IF m = l
               THEN [NoLink EXCEPT !.slug = call[r].slug, !.email = call[r].target,
                                   !.inviter = call[r].user]
               ELSE IF m \in Revocable(r) THEN [link[m] EXCEPT !.revoked = TRUE] ELSE link[m]]
    BY <1>3 DEF Send
  <2>2. \A m \in Links \ Revocable(r) : ~(IsPending(m) /\ link[m].slug = call[r].slug)
    BY <1>3 DEF Send
  <2>3. /\ link'[l].slug = call[r].slug /\ link'[l].email = call[r].target
        /\ link'[l].usedBy = Nobody /\ ~link'[l].revoked
    BY <2>1 DEF NoLink
  <2>4. link \in [Links -> [slug : Slugs \union {Nobody}, email : Users \union {Nobody},
                         inviter : Users \union {Nobody}, usedBy : Users \union {Nobody},
                         revoked : BOOLEAN]]
    BY DEF PlatformInv, PlatformTypeOK
  <2>5. ASSUME NEW m \in Links \ {l}
        PROVE  /\ link'[m].slug = link[m].slug /\ link'[m].email = link[m].email
               /\ link'[m].usedBy = link[m].usedBy /\ link'[m].inviter = link[m].inviter
               /\ m \in Revocable(r) => link'[m].revoked
               /\ m \notin Revocable(r) => link'[m] = link[m]
    BY <2>1, <2>4
  <2>6. \A m \in Links : m \in Revocable(r) => lock[m] = r /\ IsPending(m)
    BY DEF Revocable
  <2>7. link' \in [Links -> [slug : Slugs \union {Nobody}, email : Users \union {Nobody},
                             inviter : Users \union {Nobody}, usedBy : Users \union {Nobody},
                             revoked : BOOLEAN]]
    BY <1>1, <2>1, <2>4 DEF NoLink
  <2>8. ASSUME NEW s \in Requests \ {r}
        PROVE  LinkHeld(s, call[s])'
    <3>1. \A m \in Links : lock[m] = s /\ link[m] # NoLink => link'[m] = link[m]
      BY <2>1, <2>5, <2>6
    <3> QED BY <1>1, <3>1, EndMoves, OthersHold
  <2>9. \A m \in Links : link[m].usedBy # Nobody =>
          tenant[link[m].slug] = link[m].usedBy /\ link[m].slug \in Slugs
    BY DEF PlatformInv, TenantsHold, UsedLinkOwnsItsTenant
  <2>10. ASSUME NEW m \in Links, link'[m].usedBy # Nobody
         PROVE  link'[m].slug \in Slugs /\ tenant'[link'[m].slug] = link'[m].usedBy
    BY <1>1, <2>3, <2>5, <2>9, <2>10
  <2>11. ASSUME NEW m \in Links, NEW n \in Links, IsPending(m)', IsPending(n)',
                link'[m].slug = link'[n].slug
         PROVE  m = n
    <3>1. ASSUME NEW k \in Links \ {l}, IsPending(k)'
          PROVE  IsPending(k) /\ k \notin Revocable(r) /\ link'[k] = link[k]
      BY <2>5, <3>1 DEF IsPending
    <3>2. ASSUME NEW k \in Links \ {l}, IsPending(k)'
          PROVE  link'[k].slug # link'[l].slug
      BY <2>2, <2>3, <3>1, <3>2
    <3>3. CASE m # l /\ n # l
      <4>1. \A i, j \in Links : IsPending(i) /\ IsPending(j) /\ link[i].slug = link[j].slug => i = j
        BY DEF PlatformInv, TenantsHold, UsedLinkOwnsItsTenant
      <4> QED BY <2>11, <3>1, <3>3, <4>1
    <3> QED BY <2>11, <3>2, <3>3
  <2>12. LinkHeld(r, call[r])'
    BY <1>1, EndMoves
  <2>13. TenantsHold'
    BY <2>8, <2>10, <2>11, <2>12 DEF TenantsHold, UsedLinkOwnsItsTenant
  <2>14. TenantTypes'
    BY <1>1, <2>7, EndMoves DEF TenantTypes, PlatformInv, PlatformTypeOK
  <2> QED BY <1>1, <2>13, <2>14, EndIsCalm DEF Calm
<1> QED BY <1>2, <1>3

\* The workspace and the use of its link are one step of the one that holds the link.
LEMMA CreateHolds ==
  ASSUME PlatformInv, NEW r \in Requests, Create(r)
  PROVE  CalmStep(r) /\ TenantTypes' /\ TenantsHold'
<1>1. /\ call[r] \in Call /\ call[r].phase = "creating" /\ End(r)
      /\ call[r].user \in Users /\ call[r].target \in Users /\ call[r].slug \in Slugs
      /\ LinkHeld(r, call[r]) /\ CallShape(call[r])
  BY DEF PlatformInv, PlatformTypeOK, TenantsHold, CallShape, Create
<1>2. CASE tenant[call[r].slug] # Nobody
  BY <1>1, <1>2, EndHolds DEF Calm, Create
<1>3. CASE tenant[call[r].slug] = Nobody
  <2>1. tenant' = [tenant EXCEPT ![call[r].slug] = call[r].target]
    BY <1>3 DEF Create
  <2>2. /\ link \in [Links -> [slug : Slugs \union {Nobody}, email : Users \union {Nobody},
                               inviter : Users \union {Nobody}, usedBy : Users \union {Nobody},
                               revoked : BOOLEAN]]
        /\ tenant \in [Slugs -> Users \union {Nobody}]
        /\ Nobody \notin Users
    BY PlatformAssumption DEF PlatformInv, PlatformTypeOK
  <2>3. \A m \in Links : link[m].usedBy # Nobody =>
          /\ tenant[link[m].slug] = link[m].usedBy /\ link[m].slug \in Slugs
          /\ link[m].slug # call[r].slug
    BY <1>3 DEF PlatformInv, TenantsHold, UsedLinkOwnsItsTenant
  <2>4. \A i, j \in Links : IsPending(i) /\ IsPending(j) /\ link[i].slug = link[j].slug => i = j
    BY DEF PlatformInv, TenantsHold, UsedLinkOwnsItsTenant
  <2>5. tenant' \in [Slugs -> Users \union {Nobody}] /\ tenant'[call[r].slug] = call[r].target
    BY <1>1, <2>1, <2>2
  <2>6. \A s \in Slugs : s # call[r].slug => tenant'[s] = tenant[s]
    BY <2>1, <2>2
  <2>7. LinkHeld(r, call[r])'
    BY <1>1, EndMoves
  <2>8. CASE call[r].op # "open"
    <3>1. link' = link
      BY <1>3, <2>8 DEF Create
    <3>2. \A s \in Requests \ {r} : LinkHeld(s, call[s])'
      BY <1>1, <3>1, EndMoves, OthersHold
    <3>3. \A m \in Links : link[m].usedBy # Nobody => tenant'[link[m].slug] = link[m].usedBy
      BY <2>3, <2>6
    <3>4. TenantsHold'
      BY <2>3, <2>4, <2>7, <3>1, <3>2, <3>3 DEF TenantsHold, UsedLinkOwnsItsTenant, IsPending
    <3>5. TenantTypes'
      BY <1>1, <2>2, <2>5, <3>1, EndMoves DEF TenantTypes
    <3> QED BY <1>1, <3>4, <3>5, EndIsCalm DEF Calm
  <2>9. CASE call[r].op = "open"
    <3>1. PICK l \in Links : l = call[r].link
      BY <1>1, <2>9 DEF CallShape
    <3>2. /\ lock[l] = r /\ IsPending(l) /\ link[l].slug = call[r].slug
          /\ call[r].target = call[r].user
      BY <1>1, <2>9, <3>1 DEF LinkHeld, CallShape
    <3>3. link' = [link EXCEPT ![l].usedBy = call[r].user]
      BY <1>3, <2>9, <3>1 DEF Create
    <3>4. link' \in [Links -> [slug : Slugs \union {Nobody}, email : Users \union {Nobody},
                               inviter : Users \union {Nobody}, usedBy : Users \union {Nobody},
                               revoked : BOOLEAN]]
      BY <1>1, <2>2, <3>3
    <3>5. /\ link'[l].usedBy = call[r].user /\ link'[l].slug = call[r].slug
          /\ \A m \in Links \ {l} : link'[m] = link[m]
      BY <1>1, <2>2, <3>2, <3>3
    <3>6. ~IsPending(l)'
      BY <1>1, <2>2, <3>5 DEF IsPending
    <3>7. ASSUME NEW s \in Requests \ {r}
          PROVE  LinkHeld(s, call[s])'
      <4>1. \A m \in Links : lock[m] = s => link'[m] = link[m]
        BY <3>2, <3>5
      <4> QED BY <1>1, <4>1, EndMoves, OthersHold
    <3>8. ASSUME NEW m \in Links, link'[m].usedBy # Nobody
          PROVE  link'[m].slug \in Slugs /\ tenant'[link'[m].slug] = link'[m].usedBy
      BY <1>1, <2>3, <2>5, <2>6, <3>2, <3>5, <3>8
    <3>9. ASSUME NEW m \in Links, NEW n \in Links, IsPending(m)', IsPending(n)',
                 link'[m].slug = link'[n].slug
          PROVE  m = n
      <4>1. m # l /\ n # l
        BY <3>6, <3>9
      <4>2. IsPending(m) /\ IsPending(n) /\ link[m].slug = link[n].slug
        BY <3>5, <3>9, <4>1 DEF IsPending
      <4> QED BY <2>4, <4>2
    <3>10. TenantsHold'
      BY <2>7, <3>7, <3>8, <3>9 DEF TenantsHold, UsedLinkOwnsItsTenant
    <3>11. TenantTypes'
      BY <1>1, <2>5, <3>4, EndMoves DEF TenantTypes
    <3> QED BY <1>1, <3>10, <3>11, EndIsCalm DEF Calm
  <2> QED BY <2>8, <2>9
<1> QED BY <1>2, <1>3

---------------------------------------------------------------------------
(* Administrators, settings and announcements.                             *)

\* One request goes on, and nothing of tenants and links changes.
LEMMA MovesKeepTenants ==
  ASSUME PlatformInv, NEW r \in Requests, NEW c \in Call, Moves(r, c),
         UNCHANGED <<tenant, link, lock>>
  PROVE  TenantTypes' /\ TenantsHold'
<1>1. call'[r] = c /\ \A s \in Requests \ {r} : call'[s] = call[s]
  BY MovesOne
<1>2. LinkHeld(r, call[r])'
  BY <1>1 DEF LinkHeld, Moves
<1>3. \A s \in Requests \ {r} : LinkHeld(s, call[s])'
  BY <1>1, OthersHold
<1> QED BY <1>2, <1>3, TenantsStay DEF TenantTypes, PlatformInv, PlatformTypeOK

\* A request ends without having held anything.
LEMMA IdleMoves ==
  ASSUME NEW r \in Requests, call' = [call EXCEPT ![r] = Idle]
  PROVE  Moves(r, Idle) /\ Idle \in Call
BY IdleIsTyped DEF Moves, LinkHeld

\* A write ends r and marks what others have read.
LEMMA WritesKeep ==
  ASSUME PlatformInv, NEW r \in Requests, NEW os, NEW phases, call' = Written(r, os, phases),
         UNCHANGED <<tenant, link, lock>>
  PROVE  /\ call' \in [Requests -> Call] /\ \A s \in Requests : CallShape(call[s])'
         /\ TenantTypes' /\ TenantsHold'
<1>1. call' \in [Requests -> Call]
  <2>1. \A s \in Requests : call'[s] \in Call
    BY WrittenCalls
  <2> QED BY <2>1 DEF Written
<1>2. ASSUME NEW s \in Requests
      PROVE  CallShape(call[s])' /\ LinkHeld(s, call[s])'
  <2>1. CASE s = r
    <3>1. call'[s] = Idle
      BY <2>1, WrittenCalls
    <3> QED BY <3>1, IdleIsTyped DEF CallShape, LinkHeld
  <2>2. CASE s # r
    <3>1. /\ call'[s].phase = call[s].phase /\ call'[s].op = call[s].op
          /\ call'[s].user = call[s].user /\ call'[s].target = call[s].target
          /\ call'[s].slug = call[s].slug /\ call'[s].link = call[s].link
          /\ call'[s].policy = call[s].policy /\ call'[s].notice = call[s].notice
          /\ call'[s].next = call[s].next /\ call'[s].todo = call[s].todo
      BY <2>2, WrittenCalls
    <3>2. CallShape(call[s]) /\ LinkHeld(s, call[s])
      BY DEF PlatformInv, TenantsHold
    <3>3. CallShape(call[s])'
      BY <3>1, <3>2 DEF CallShape
    <3>4. LinkHeld(s, call[s])'
      BY <3>1, <3>2 DEF LinkHeld, IsPending
    <3> QED BY <3>3, <3>4
  <2> QED BY <2>1, <2>2
<1>3. TenantsHold'
  BY <1>2, TenantsStay
<1>4. TenantTypes'
  BY DEF TenantTypes, PlatformInv, PlatformTypeOK
<1> QED BY <1>1, <1>2, <1>3, <1>4

\* The four parts are kept by a step that changes nothing they are about.
LEMMA CountsStay ==
  ASSUME PlatformInv, ActiveAdmins \subseteq ActiveAdmins',
         "administrators" \in raced => "administrators" \in raced',
         \A s \in Requests : call'[s].phase = "counted" /\ ~call'[s].stale =>
                               call[s].phase = "counted" /\ ~call[s].stale
  PROVE  CountsHold'
<1>1. CASE "administrators" \in raced
  BY <1>1 DEF CountsHold
<1>2. CASE "administrators" \notin raced
  <2>1. /\ ActiveAdmins # {}
        /\ \A s \in Requests : call[s].phase = "counted" /\ ~call[s].stale =>
             \A u \in Users : ActiveAdmins \ {u} # {}
    BY <1>2 DEF PlatformInv, CountsHold
  <2>2. ActiveAdmins' # {}
    BY <2>1
  <2>3. ASSUME NEW s \in Requests, call'[s].phase = "counted", ~call'[s].stale, NEW u \in Users
        PROVE  ActiveAdmins' \ {u} # {}
    BY <2>1, <2>3
  <2> QED BY <2>2, <2>3 DEF CountsHold
<1> QED BY <1>1, <1>2

LEMMA SavesStay ==
  ASSUME PlatformInv, UNCHANGED <<stored, policy>>, "settings" \in raced => "settings" \in raced',
         \A s \in Requests : /\ Saving(call'[s]) <=> Saving(call[s])
                             /\ Saving(call[s]) => /\ call'[s].next = call[s].next
                                                   /\ call'[s].policy = call[s].policy
  PROVE  SavesHold'
BY DEF PlatformInv, SavesHold, Saving

LEMMA BoardStays ==
  ASSUME PlatformInv, UNCHANGED <<board, published>>, "board" \in raced => "board" \in raced',
         \A s \in Requests : call'[s].phase = "read" /\ ~call'[s].stale =>
                               \/ call'[s].copy = board
                               \/ call[s].phase = "read" /\ ~call[s].stale /\ call'[s].copy = call[s].copy
  PROVE  BoardHolds'
BY DEF PlatformInv, BoardHolds

\* What the other variables have to be shown to keep.
PlatformTypes ==
  /\ admin \in [Users -> {"none", "active", "suspended"}]
  /\ registered \subseteq Users /\ lapsed \subseteq Links
  /\ stored \in [Keys -> Policies] /\ policy \in [Keys -> Policies]
  /\ board \subseteq Notices /\ published \subseteq Notices

LEMMA PartsMakeInv ==
  ASSUME call' \in [Requests -> Call], \A s \in Requests : CallShape(call[s])',
         TenantTypes', PlatformTypes', CountsHold', SavesHold', BoardHolds', TenantsHold'
  PROVE  PlatformInv'
BY DEF PlatformInv, PlatformTypeOK, TenantTypes, PlatformTypes

LEMMA AddHolds ==
  ASSUME PlatformInv, NEW r \in Requests, Add(r)
  PROVE  PlatformInv'
<1>1. /\ call' = [call EXCEPT ![r] = Idle] /\ call[r].phase = "asked"
      /\ UNCHANGED <<registered, tenant, link, lapsed, stored, policy, board, published, lock>>
      /\ raced' = raced
  BY DEF Add, requestVars
<1>2. Moves(r, Idle) /\ Idle \in Call
  BY <1>1, IdleMoves
<1>3. /\ call' \in [Requests -> Call]
      /\ \A s \in Requests : CallShape(call[s])'
      /\ call'[r] = Idle
      /\ \A s \in Requests \ {r} : call'[s] = call[s]
  BY <1>2, MovesOne
<1>4. TenantTypes' /\ TenantsHold'
  BY <1>1, <1>2, MovesKeepTenants
<1>5. call[r] \in Call /\ CallShape(call[r]) /\ call[r].target \in Users
  BY DEF PlatformInv, PlatformTypeOK, Add, CallShape
<1>6. /\ admin \in [Users -> {"none", "active", "suspended"}]
      /\ \/ admin' = admin \/ admin' = [admin EXCEPT ![call[r].target] = "active"]
  BY DEF Add, PlatformInv, PlatformTypeOK
<1>7. ActiveAdmins \subseteq ActiveAdmins' /\ admin' \in [Users -> {"none", "active", "suspended"}]
  BY <1>5, <1>6 DEF ActiveAdmins
<1>8. CountsHold'
  BY <1>1, <1>3, <1>7, IdleIsTyped, CountsStay
<1>9. SavesHold'
  BY <1>1, <1>3, IdleIsTyped, SavesStay DEF Saving
<1>10. BoardHolds'
  BY <1>1, <1>3, IdleIsTyped, BoardStays
<1>11. PlatformTypes'
  BY <1>1, <1>7 DEF PlatformTypes, PlatformInv, PlatformTypeOK
<1> QED BY <1>3, <1>4, <1>8, <1>9, <1>10, <1>11, PartsMakeInv

\* Two administrators at least: whoever is suspended, one is left.
LEMMA CountHolds ==
  ASSUME PlatformInv, NEW r \in Requests, Count(r)
  PROVE  PlatformInv'
<1>1. /\ call[r].phase = "asked" /\ call[r].op = "suspend"
      /\ UNCHANGED <<admin, registered, tenant, link, lapsed, stored, policy, board, published, lock>>
      /\ raced' = raced
  BY DEF Count, requestVars
<1>2. call[r] \in Call /\ CallShape(call[r])
  BY DEF PlatformInv, PlatformTypeOK
<1>3. PICK c \in Call : c = IF Cardinality(ActiveAdmins) > 1
                            THEN [call[r] EXCEPT !.phase = "counted"] ELSE Idle
  BY <1>2, IdleIsTyped DEF Call
<1>4. call' = [call EXCEPT ![r] = c]
  BY <1>3 DEF Count, PlatformInv, PlatformTypeOK
<1>5. \/ c = Idle
      \/ /\ Cardinality(ActiveAdmins) > 1 /\ c.phase = "counted"
         /\ c.op = call[r].op /\ c.user = call[r].user /\ c.target = call[r].target
         /\ c.todo = call[r].todo /\ c.slug = call[r].slug
  BY <1>2, <1>3 DEF Call
<1>6. CallShape(c) /\ LinkHeld(r, c)'
  BY <1>1, <1>2, <1>5, IdleIsTyped DEF CallShape, LinkHeld
<1>7. Moves(r, c)
  BY <1>4, <1>6 DEF Moves
<1>8. /\ call' \in [Requests -> Call]
      /\ \A s \in Requests : CallShape(call[s])'
      /\ call'[r] = c
      /\ \A s \in Requests \ {r} : call'[s] = call[s]
  BY <1>7, MovesOne
<1>9. TenantTypes' /\ TenantsHold'
  BY <1>1, <1>7, MovesKeepTenants
<1>10. c.phase \in {"idle", "counted"} /\ call[r].phase = "asked"
  BY <1>1, <1>5, IdleIsTyped
<1>11. ASSUME Cardinality(ActiveAdmins) > 1, NEW u \in Users
       PROVE  ActiveAdmins \ {u} # {}
  <2>1. IsFiniteSet(ActiveAdmins)
    BY PlatformAssumption, FS_Subset DEF ActiveAdmins
  <2>2. SUFFICES ASSUME ActiveAdmins \ {u} = {} PROVE FALSE
    OBVIOUS
  <2>3. ActiveAdmins \subseteq {u}
    BY <2>2
  <2>4. IsFiniteSet({u}) /\ Cardinality({u}) = 1
    BY FS_Singleton
  <2>5. Cardinality(ActiveAdmins) <= 1
    BY <2>3, <2>4, FS_Subset
  <2>6. Cardinality(ActiveAdmins) \in Nat
    BY <2>1, FS_CardinalityType
  <2> QED BY <1>11, <2>5, <2>6
<1>12. CountsHold'
  <2>1. CASE c = Idle
    BY <1>1, <1>8, <2>1, IdleIsTyped, CountsStay DEF ActiveAdmins
  <2>2. CASE c # Idle
    <3>1. \A u \in Users : ActiveAdmins \ {u} # {}
      BY <1>5, <1>11, <2>2
    <3>2. ActiveAdmins' = ActiveAdmins
      BY <1>1 DEF ActiveAdmins
    <3> QED BY <1>1, <3>1, <3>2 DEF CountsHold, PlatformInv
  <2> QED BY <2>1, <2>2
<1>13. SavesHold'
  BY <1>1, <1>8, <1>10, SavesStay DEF Saving
<1>14. BoardHolds'
  BY <1>1, <1>8, <1>10, BoardStays
<1>15. PlatformTypes'
  BY <1>1 DEF PlatformTypes, PlatformInv, PlatformTypeOK
<1> QED BY <1>8, <1>9, <1>12, <1>13, <1>14, <1>15, PartsMakeInv

\* A suspension makes every other count stale.
LEMMA SuspendHolds ==
  ASSUME PlatformInv, NEW r \in Requests, Suspend(r)
  PROVE  PlatformInv'
<1>1. /\ call[r].phase = "counted"
      /\ call' = Written(r, {"suspend"}, {"counted"})
      /\ raced' = IF call[r].stale THEN raced \union {"administrators"} ELSE raced
      /\ admin' = [admin EXCEPT ![call[r].target] = IF @ = "none" THEN @ ELSE "suspended"]
      /\ UNCHANGED <<registered, tenant, link, lapsed, stored, policy, board, published, lock>>
  BY DEF Suspend
<1>2. call[r].target \in Users /\ admin \in [Users -> {"none", "active", "suspended"}]
  BY <1>1 DEF PlatformInv, PlatformTypeOK, CallShape
<1>3. /\ call' \in [Requests -> Call]
      /\ \A s \in Requests : CallShape(call[s])'
      /\ TenantTypes' /\ TenantsHold'
  BY <1>1, WritesKeep
<1>4. \A s \in Requests :
         /\ s = r => call'[s] = Idle
         /\ s # r => /\ call'[s].phase = call[s].phase /\ call'[s].op = call[s].op
                     /\ call'[s].policy = call[s].policy /\ call'[s].next = call[s].next
                     /\ call'[s].copy = call[s].copy
                     /\ call'[s].stale <=> call[s].stale \/ (call[s].op \in {"suspend"} /\ call[s].phase \in {"counted"})
  BY <1>1, WrittenCalls
<1>5. \A s \in Requests : call'[s].phase = "counted" => call'[s].stale
  BY <1>3, <1>4, IdleIsTyped DEF CallShape
<1>6. /\ admin' \in [Users -> {"none", "active", "suspended"}]
      /\ ActiveAdmins \ {call[r].target} \subseteq ActiveAdmins'
  BY <1>1, <1>2 DEF ActiveAdmins
<1>7. CountsHold'
  <2>1. CASE "administrators" \in raced \/ call[r].stale
    BY <1>1, <2>1 DEF CountsHold
  <2>2. CASE "administrators" \notin raced /\ ~call[r].stale
    <3>1. ActiveAdmins \ {call[r].target} # {}
      BY <1>1, <1>2, <2>2 DEF PlatformInv, CountsHold
    <3> QED BY <1>5, <1>6, <3>1 DEF CountsHold
  <2> QED BY <2>1, <2>2
<1>8. SavesHold'
  BY <1>1, <1>4, IdleIsTyped, SavesStay DEF Saving
<1>9. BoardHolds'
  BY <1>1, <1>4, IdleIsTyped, BoardStays
<1>10. PlatformTypes'
  BY <1>1, <1>6 DEF PlatformTypes, PlatformInv, PlatformTypeOK
<1> QED BY <1>3, <1>7, <1>8, <1>9, <1>10, PartsMakeInv

LEMMA KeysAre ==
  /\ \A n \in 1..3 : PolicyKeys[n] \in Keys
  /\ \A k \in Keys : \E n \in 1..3 : k = PolicyKeys[n]
  /\ \A m, n \in 1..3 : PolicyKeys[m] = PolicyKeys[n] => m = n
  /\ Len(PolicyKeys) = 3
<1>1. DOMAIN PolicyKeys = 1..3 /\ Len(PolicyKeys) = 3
  BY DEF PolicyKeys
<1>2. \A m, n \in 1..3 : PolicyKeys[m] = PolicyKeys[n] => m = n
  BY DEF PolicyKeys
<1> QED BY <1>1, <1>2 DEF Keys

\* A key is saved: when no other save is under way, the keys before it are too.
LEMMA SaveKeyHolds ==
  ASSUME PlatformInv, NEW r \in Requests, SaveKey(r)
  PROVE  PlatformInv'
<1>1. /\ call[r].op = "settings" /\ call[r].phase \in {"asked", "saving"}
      /\ stored' = [stored EXCEPT ![PolicyKeys[call[r].next]] = call[r].policy]
      /\ raced' = IF \E s \in Requests \ {r} : Saving(call[s]) THEN raced \union {"settings"} ELSE raced
      /\ UNCHANGED <<admin, registered, tenant, link, lapsed, policy, board, published, lock>>
  BY DEF SaveKey, Saving
<1>2. /\ call[r] \in Call /\ CallShape(call[r]) /\ stored \in [Keys -> Policies]
      /\ call \in [Requests -> Call]
  BY DEF PlatformInv, PlatformTypeOK
<1>3. /\ call[r].policy \in Policies
      /\ \/ call[r].phase = "asked" /\ call[r].next = 1
         \/ call[r].phase = "saving" /\ call[r].next \in {2, 3}
  BY <1>1, <1>2 DEF CallShape
<1>4. PICK n \in 1..3 : n = call[r].next
  BY <1>3
<1>5. PICK p \in {"saving", "saved"} : p = IF n < 3 THEN "saving" ELSE "saved"
  OBVIOUS
<1>6. PICK c \in Call : c = [call[r] EXCEPT !.next = n + 1, !.phase = p]
  <2>1. PICK k \in Nat : k = n + 1
    OBVIOUS
  <2>2. [call[r] EXCEPT !.next = k, !.phase = p] \in Call
    BY <1>2 DEF Call
  <2> QED BY <2>1, <2>2
<1>7. /\ c.phase = p /\ c.next = n + 1 /\ c.op = call[r].op /\ c.policy = call[r].policy
      /\ c.todo = call[r].todo
  BY <1>2, <1>6 DEF Call
<1>8. call' = [call EXCEPT ![r] = c]
  <2>1. call' = [call EXCEPT ![r].next = n + 1, ![r].phase = p]
    BY <1>4, <1>5, KeysAre DEF SaveKey
  <2> QED BY <1>2, <1>6, <2>1
<1>9. CallShape(c) /\ LinkHeld(r, c)'
  BY <1>1, <1>2, <1>3, <1>4, <1>5, <1>7 DEF CallShape, LinkHeld
<1>10. Moves(r, c)
  BY <1>8, <1>9 DEF Moves
<1>11. /\ call' \in [Requests -> Call]
       /\ \A s \in Requests : CallShape(call[s])'
       /\ call'[r] = c
       /\ \A s \in Requests \ {r} : call'[s] = call[s]
  BY <1>10, MovesOne
<1>12. TenantTypes' /\ TenantsHold'
  BY <1>1, <1>10, MovesKeepTenants
<1>13. CountsHold'
  BY <1>1, <1>5, <1>7, <1>11, CountsStay DEF ActiveAdmins
<1>14. BoardHolds'
  BY <1>1, <1>5, <1>7, <1>11, BoardStays
<1>15. stored' \in [Keys -> Policies]
  BY <1>1, <1>2, <1>3, <1>4, KeysAre
<1>16. PlatformTypes'
  BY <1>1, <1>15 DEF PlatformTypes, PlatformInv, PlatformTypeOK
<1>17. SavesHold'
  <2>1. CASE "settings" \in raced \/ \E s \in Requests \ {r} : Saving(call[s])
    BY <1>1, <2>1 DEF SavesHold
  <2>2. CASE "settings" \notin raced /\ \A s \in Requests \ {r} : ~Saving(call[s])
    <3>1. \A s \in Requests \ {r} : ~Saving(call'[s])
      BY <1>11, <2>2
    <3>2. \A m \in 1..3 : m < n => stored[PolicyKeys[m]] = call[r].policy
      BY <1>3, <1>4, <2>2 DEF PlatformInv, SavesHold, Saving
    <3>3. stored'[PolicyKeys[n]] = call[r].policy
      BY <1>1, <1>2, <1>4, KeysAre
    <3>4. \A m \in 1..3 : m # n => stored'[PolicyKeys[m]] = stored[PolicyKeys[m]]
      BY <1>1, <1>2, <1>4, KeysAre
    <3>5. \A m \in 1..3 : m < n + 1 => stored'[PolicyKeys[m]] = call[r].policy
      BY <3>2, <3>3, <3>4
    <3>6. Saving(call'[r])
      BY <1>5, <1>7, <1>11 DEF Saving
    <3> QED BY <1>7, <1>11, <3>1, <3>5, <3>6 DEF SavesHold, Saving
  <2> QED BY <2>1, <2>2
<1> QED BY <1>11, <1>12, <1>13, <1>14, <1>16, <1>17, PartsMakeInv

\* A save that fails before its first key has changed nothing.
LEMMA FailToSaveHolds ==
  ASSUME PlatformInv, NEW r \in Requests, FailToSave(r)
  PROVE  PlatformInv'
<1>1. /\ call' = [call EXCEPT ![r] = Idle] /\ call[r].phase \in {"asked", "saving"}
      /\ UNCHANGED <<admin, registered, tenant, link, lapsed, stored, policy, board, published, lock>>
      /\ raced' = IF call[r].phase = "saving" THEN raced \union {"settings"} ELSE raced
  BY DEF FailToSave
<1>2. Moves(r, Idle) /\ Idle \in Call
  BY <1>1, IdleMoves
<1>3. /\ call' \in [Requests -> Call]
      /\ \A s \in Requests : CallShape(call[s])'
      /\ call'[r] = Idle
      /\ \A s \in Requests \ {r} : call'[s] = call[s]
  BY <1>2, MovesOne
<1>4. TenantTypes' /\ TenantsHold'
  BY <1>1, <1>2, MovesKeepTenants
<1>5. CountsHold'
  BY <1>1, <1>3, IdleIsTyped, CountsStay DEF ActiveAdmins
<1>6. BoardHolds'
  BY <1>1, <1>3, IdleIsTyped, BoardStays
<1>7. SavesHold'
  <2>1. CASE call[r].phase = "saving"
    BY <1>1, <2>1 DEF SavesHold
  <2>2. CASE call[r].phase = "asked"
    BY <1>1, <1>3, <2>2, IdleIsTyped, SavesStay DEF Saving
  <2> QED BY <1>1, <2>1, <2>2
<1>8. PlatformTypes'
  BY <1>1 DEF PlatformTypes, PlatformInv, PlatformTypeOK
<1> QED BY <1>3, <1>4, <1>5, <1>6, <1>7, <1>8, PartsMakeInv

\* The last key is saved: the copy in memory becomes what is stored.
LEMMA ReplaceHolds ==
  ASSUME PlatformInv, NEW r \in Requests, Replace(r)
  PROVE  PlatformInv'
<1>1. /\ call' = [call EXCEPT ![r] = Idle] /\ call[r].phase = "saved"
      /\ policy' = [k \in Keys |-> call[r].policy]
      /\ UNCHANGED <<admin, registered, tenant, link, lapsed, stored, board, published, lock>>
      /\ raced' = raced
  BY DEF Replace, requestVars
<1>2. Moves(r, Idle) /\ Idle \in Call
  BY <1>1, IdleMoves
<1>3. /\ call' \in [Requests -> Call]
      /\ \A s \in Requests : CallShape(call[s])'
      /\ call'[r] = Idle
      /\ \A s \in Requests \ {r} : call'[s] = call[s]
  BY <1>2, MovesOne
<1>4. TenantTypes' /\ TenantsHold'
  BY <1>1, <1>2, MovesKeepTenants
<1>5. /\ call[r] \in Call /\ CallShape(call[r]) /\ call[r].policy \in Policies
      /\ call[r].next = 4 /\ stored \in [Keys -> Policies]
  BY <1>1 DEF PlatformInv, PlatformTypeOK, CallShape
<1>6. CountsHold'
  BY <1>1, <1>3, IdleIsTyped, CountsStay DEF ActiveAdmins
<1>7. BoardHolds'
  BY <1>1, <1>3, IdleIsTyped, BoardStays
<1>8. SavesHold'
  <2>1. CASE "settings" \in raced
    BY <1>1, <2>1 DEF SavesHold
  <2>2. CASE "settings" \notin raced
    <3>1. Saving(call[r])
      BY <1>1 DEF Saving
    <3>2. /\ \A s \in Requests \ {r} : ~Saving(call[s])
          /\ \A n \in 1..3 : n < call[r].next => stored[PolicyKeys[n]] = call[r].policy
      BY <2>2, <3>1 DEF PlatformInv, SavesHold
    <3>3. \A n \in 1..3 : stored[PolicyKeys[n]] = call[r].policy
      BY <1>5, <3>2
    <3>4. \A k \in Keys : stored[k] = call[r].policy
      BY <3>3, KeysAre
    <3>5. policy' = stored'
      BY <1>1, <1>5, <3>4
    <3>6. \A s \in Requests : ~Saving(call'[s])
      BY <1>3, <3>2, IdleIsTyped DEF Saving
    <3> QED BY <3>5, <3>6 DEF SavesHold
  <2> QED BY <2>1, <2>2
<1>9. PlatformTypes'
  BY <1>1, <1>5 DEF PlatformTypes, PlatformInv, PlatformTypeOK
<1> QED BY <1>3, <1>4, <1>6, <1>7, <1>8, <1>9, PartsMakeInv

LEMMA ReadBoardHolds ==
  ASSUME PlatformInv, NEW r \in Requests, ReadBoard(r)
  PROVE  PlatformInv'
<1>1. /\ call[r].phase = "asked" /\ call[r].op \in {"publish", "withdraw"}
      /\ UNCHANGED <<admin, registered, tenant, link, lapsed, stored, policy, board, published, lock>>
      /\ raced' = raced
  BY DEF ReadBoard, requestVars
<1>2. /\ call[r] \in Call /\ CallShape(call[r]) /\ call \in [Requests -> Call] /\ board \subseteq Notices
  BY DEF PlatformInv, PlatformTypeOK
<1>3. PICK c \in Call : c = [call[r] EXCEPT !.phase = "read", !.copy = board]
  BY <1>2 DEF Call
<1>4. /\ c.phase = "read" /\ c.op = call[r].op /\ c.copy = board /\ c.notice = call[r].notice
      /\ c.todo = call[r].todo
  BY <1>2, <1>3 DEF Call
<1>5. call' = [call EXCEPT ![r] = c]
  BY <1>2, <1>3 DEF ReadBoard
<1>6. CallShape(c) /\ LinkHeld(r, c)'
  BY <1>1, <1>2, <1>4 DEF CallShape, LinkHeld
<1>7. Moves(r, c)
  BY <1>5, <1>6 DEF Moves
<1>8. /\ call' \in [Requests -> Call]
      /\ \A s \in Requests : CallShape(call[s])'
      /\ call'[r] = c
      /\ \A s \in Requests \ {r} : call'[s] = call[s]
  BY <1>7, MovesOne
<1>9. TenantTypes' /\ TenantsHold'
  BY <1>1, <1>7, MovesKeepTenants
<1>10. CountsHold'
  BY <1>1, <1>4, <1>8, CountsStay DEF ActiveAdmins
<1>11. SavesHold'
  BY <1>1, <1>4, <1>8, SavesStay DEF Saving
<1>12. BoardHolds'
  BY <1>1, <1>4, <1>8, BoardStays
<1>13. PlatformTypes'
  BY <1>1 DEF PlatformTypes, PlatformInv, PlatformTypeOK
<1> QED BY <1>8, <1>9, <1>10, <1>11, <1>12, <1>13, PartsMakeInv

\* A list is written back: every other list that was read is stale.
LEMMA WriteBoardHolds ==
  ASSUME PlatformInv, NEW r \in Requests, WriteBoard(r)
  PROVE  PlatformInv'
<1>1. /\ call[r].phase = "read"
      /\ board' = NewList(call[r])
      /\ published' = IF call[r].op = "publish" THEN published \union {call[r].notice}
                      ELSE published \ {call[r].notice}
      /\ call' = Written(r, {"publish", "withdraw"}, {"read"})
      /\ raced' = IF call[r].stale THEN raced \union {"board"} ELSE raced
      /\ UNCHANGED <<admin, registered, tenant, link, lapsed, stored, policy, lock>>
  BY DEF WriteBoard
<1>2. /\ call[r] \in Call /\ CallShape(call[r]) /\ board \subseteq Notices /\ published \subseteq Notices
      /\ \A s \in Requests : CallShape(call[s])
  BY DEF PlatformInv, PlatformTypeOK
<1>3. call[r].notice \in Notices /\ call[r].copy \subseteq Notices
  BY <1>1, <1>2 DEF CallShape, Call
<1>4. /\ call' \in [Requests -> Call]
      /\ \A s \in Requests : CallShape(call[s])'
      /\ TenantTypes' /\ TenantsHold'
  BY <1>1, WritesKeep
<1>5. \A s \in Requests :
         /\ s = r => call'[s] = Idle
         /\ s # r => /\ call'[s].phase = call[s].phase /\ call'[s].op = call[s].op
                     /\ call'[s].policy = call[s].policy /\ call'[s].next = call[s].next
                     /\ call'[s].stale <=> call[s].stale \/ (call[s].op \in {"publish", "withdraw"} /\ call[s].phase \in {"read"})
  BY <1>1, WrittenCalls
<1>6. \A s \in Requests : call'[s].phase = "read" => call'[s].stale
  BY <1>2, <1>5, IdleIsTyped DEF CallShape
<1>7. CountsHold'
  BY <1>1, <1>5, IdleIsTyped, CountsStay DEF ActiveAdmins
<1>8. SavesHold'
  BY <1>1, <1>5, IdleIsTyped, SavesStay DEF Saving
<1>9. BoardHolds'
  <2>1. CASE "board" \in raced \/ call[r].stale
    BY <1>1, <2>1 DEF BoardHolds
  <2>2. CASE "board" \notin raced /\ ~call[r].stale
    <3>1. board = published /\ call[r].copy = board
      BY <1>1, <2>2 DEF PlatformInv, BoardHolds
    <3>2. board' = published'
      BY <1>1, <3>1 DEF NewList
    <3> QED BY <1>6, <3>2 DEF BoardHolds
  <2> QED BY <2>1, <2>2
<1>10. board' \subseteq Notices /\ published' \subseteq Notices
  BY <1>1, <1>2, <1>3 DEF NewList
<1>11. PlatformTypes'
  BY <1>1, <1>10 DEF PlatformTypes, PlatformInv, PlatformTypeOK
<1> QED BY <1>4, <1>7, <1>8, <1>9, <1>11, PartsMakeInv

\* After a restart no request is left, and the copy in memory is what is stored.
LEMMA RestartHolds ==
  ASSUME PlatformInv, Restart
  PROVE  PlatformInv'
<1>1. /\ policy' = stored /\ call' = [r \in Requests |-> Idle] /\ lock' = [row \in Rows |-> Nobody]
      /\ raced' = IF \E r \in Requests : call[r].phase = "saving" THEN raced \union {"settings"} ELSE raced
      /\ UNCHANGED <<admin, registered, tenant, link, lapsed, stored, board, published>>
  BY DEF Restart
<1>2. call' \in [Requests -> Call] /\ \A s \in Requests : call'[s] = Idle
  BY <1>1, IdleIsTyped
<1>3. \A s \in Requests : CallShape(call[s])' /\ LinkHeld(s, call[s])'
  BY <1>2, IdleIsTyped DEF CallShape, LinkHeld
<1>4. TenantsHold'
  BY <1>1, <1>3 DEF PlatformInv, TenantsHold, UsedLinkOwnsItsTenant, IsPending
<1>5. TenantTypes'
  BY <1>1 DEF TenantTypes, PlatformInv, PlatformTypeOK
<1>6. CountsHold'
  BY <1>1, <1>2, IdleIsTyped, CountsStay DEF ActiveAdmins
<1>7. BoardHolds'
  BY <1>1, <1>2, IdleIsTyped, BoardStays
<1>8. SavesHold'
  BY <1>1, <1>2, IdleIsTyped DEF SavesHold, Saving
<1>9. PlatformTypes'
  BY <1>1 DEF PlatformTypes, PlatformInv, PlatformTypeOK
<1> QED BY <1>2, <1>3, <1>4, <1>5, <1>6, <1>7, <1>8, <1>9, PartsMakeInv

\* Nothing of the platform changes, or only who is registered or what has lapsed.
LEMMA OthersKeepPlatform ==
  ASSUME PlatformInv,
         UNCHANGED <<admin, tenant, link, stored, policy, board, published, lock, call>>,
         registered' \subseteq Users, lapsed' \subseteq Links,
         \A h \in {"administrators", "settings", "board"} : h \in raced => h \in raced'
  PROVE  PlatformInv'
<1>1. CountsHold' /\ SavesHold' /\ BoardHolds'
  BY CountsStay, SavesStay, BoardStays DEF ActiveAdmins
<1>2. \A s \in Requests : CallShape(call[s])' /\ LinkHeld(s, call[s])'
  BY DEF PlatformInv, TenantsHold, CallShape, LinkHeld, IsPending
<1>3. TenantsHold'
  BY <1>2 DEF PlatformInv, TenantsHold, UsedLinkOwnsItsTenant, IsPending
<1> QED BY <1>1, <1>2, <1>3, PartsMakeInv DEF PlatformInv, PlatformTypeOK, TenantTypes, PlatformTypes

LEMMA PlatformStarts ==
  ASSUME Init
  PROVE  PlatformInv
<1>1. PlatformInit /\ RequestsInit
  BY DEF Init
<1>2. call \in [Requests -> Call] /\ \A s \in Requests : call[s] = Idle
  BY <1>1, IdleIsTyped DEF PlatformInit
<1>3. PlatformTypeOK
  <2>1. NoLink \in [slug : Slugs \union {Nobody}, email : Users \union {Nobody},
                    inviter : Users \union {Nobody}, usedBy : Users \union {Nobody},
                    revoked : BOOLEAN]
    BY DEF NoLink
  <2> QED BY <1>1, <1>2, <2>1, PlatformAssumption DEF PlatformInit, PlatformTypeOK
<1>4. \A s \in Requests : CallShape(call[s]) /\ LinkHeld(s, call[s])
  BY <1>2, IdleIsTyped DEF LinkHeld
<1>5. \A l \in Links : ~IsPending(l) /\ link[l].usedBy = Nobody
  BY <1>1 DEF PlatformInit, IsPending, NoLink
<1>6. TenantsHold
  BY <1>4, <1>5 DEF TenantsHold, UsedLinkOwnsItsTenant
<1>7. ActiveAdmins # {}
  BY <1>1, PlatformAssumption DEF PlatformInit, ActiveAdmins
<1>8. CountsHold /\ SavesHold /\ BoardHolds
  BY <1>1, <1>2, <1>7, IdleIsTyped DEF PlatformInit, RequestsInit, CountsHold, SavesHold, BoardHolds, Saving
<1> QED BY <1>3, <1>4, <1>6, <1>8 DEF PlatformInv

LEMMA CalmStepsHold ==
  ASSUME PlatformInv, NEW r \in Requests, CalmStep(r), TenantTypes', TenantsHold'
  PROVE  PlatformInv'
<1>1. PlatformTypes'
  BY DEF CalmStep, PlatformTypes, PlatformInv, PlatformTypeOK
<1> QED BY <1>1, CalmStepsKeep, PartsMakeInv

LEMMA AsksHold ==
  ASSUME PlatformInv, NEW r \in Requests, Asks(r) \/ AskForWorkspace(r)
  PROVE  PlatformInv'
<1>1. call[r].phase = "idle"
  BY DEF Asks, AskAboutAdministrator, AskForTenant, AskForSettings, AskForNotice, Ask, AskForWorkspace
<1>2. PICK c \in Call : Moves(r, c) /\ c.phase \in {"idle", "asked", "creating", "opening"}
  BY AsksMove, WorkspaceMoves
<1>3. /\ UNCHANGED <<admin, registered, tenant, link, lapsed, stored, policy, board, published, lock>>
      /\ raced' = raced
  BY AsksMove, WorkspaceMoves
<1>4. CalmStep(r) /\ TenantTypes' /\ TenantsHold'
  BY <1>1, <1>2, <1>3, GoesOn DEF Calm
<1> QED BY <1>4, CalmStepsHold

LEMMA PlatformSteps ==
  ASSUME PlatformInv, PlatformNext
  PROVE  PlatformInv'
<1>1. ASSUME NEW r \in Requests, Proceed(r)
      PROVE  PlatformInv'
  <2>1. CASE Asks(r) \/ AskForWorkspace(r)
    BY <2>1, AsksHold
  <2>2. CASE Take(r) \/ Prepare(r) \/ Send(r) \/ Open(r) \/ Create(r)
    <3>1. CalmStep(r) /\ TenantTypes' /\ TenantsHold'
      BY <2>2, TakeHolds, PrepareHolds, SendHolds, OpenHolds, CreateHolds
    <3> QED BY <3>1, CalmStepsHold
  <2>3. CASE Add(r) \/ Count(r) \/ Suspend(r)
    BY <2>3, AddHolds, CountHolds, SuspendHolds
  <2>4. CASE SaveKey(r) \/ FailToSave(r) \/ Replace(r)
    BY <2>4, SaveKeyHolds, FailToSaveHolds, ReplaceHolds
  <2>5. CASE ReadBoard(r) \/ WriteBoard(r)
    BY <2>5, ReadBoardHolds, WriteBoardHolds
  <2> QED BY <1>1, <2>1, <2>2, <2>3, <2>4, <2>5 DEF Proceed, Asks
<1>2. ASSUME NEW u \in Users, Register(u)
      PROVE  PlatformInv'
  <2>1. registered \subseteq Users /\ lapsed \subseteq Links
    BY DEF PlatformInv, PlatformTypeOK
  <2> QED BY <1>2, <2>1, OthersKeepPlatform DEF Register, requestVars
<1>3. ASSUME NEW l \in Links, Lapse(l)
      PROVE  PlatformInv'
  <2>1. registered \subseteq Users /\ lapsed \subseteq Links
    BY DEF PlatformInv, PlatformTypeOK
  <2> QED BY <1>3, <2>1, OthersKeepPlatform DEF Lapse, requestVars
<1> QED BY <1>1, <1>2, <1>3, RestartHolds DEF PlatformNext

---------------------------------------------------------------------------
(* Tenant links are one-time tokens.                                       *)

\* A step that leaves the links alone is none of the tokens.
LEMMA LinksStay ==
  ASSUME UNCHANGED link
  PROVE  UNCHANGED Activation!vars
BY DEF Activation!vars

\* A link is sent: it is issued, and what was taken back was not used.
LEMMA SendIssues ==
  ASSUME PlatformInv, NEW r \in Requests, Send(r)
  PROVE  [Activation!Next]_(Activation!vars)
<1>1. PICK p \in Users : p = call[r].target
  BY DEF PlatformInv, CallShape, Send
<1>2. CASE UNCHANGED link
  BY <1>2, LinksStay
<1>3. CASE ~UNCHANGED link
  <2>1. PICK l \in Links :
          /\ link[l] = NoLink
          /\ link' = [m \in Links |->
               IF m = l
               THEN [NoLink EXCEPT !.slug = call[r].slug, !.email = p,
                                   !.inviter = call[r].user]
               ELSE IF m \in Revocable(r) THEN [link[m] EXCEPT !.revoked = TRUE] ELSE link[m]]
    BY <1>1, <1>3 DEF Send
  <2>2. link \in [Links -> [slug : Slugs \union {Nobody}, email : Users \union {Nobody},
                         inviter : Users \union {Nobody}, usedBy : Users \union {Nobody},
                         revoked : BOOLEAN]]
    BY DEF PlatformInv, PlatformTypeOK
  <2>3. /\ link[l].email = Nobody /\ link[l].usedBy = Nobody /\ ~link[l].revoked
    BY <2>1 DEF NoLink
  <2>4. link'[l].email = p /\ link'[l].usedBy = Nobody /\ ~link'[l].revoked
    BY <2>1 DEF NoLink
  <2>5. \A m \in Links \ {l} :
           /\ link'[m].email = link[m].email /\ link'[m].usedBy = link[m].usedBy
           /\ link'[m].revoked <=> link[m].revoked \/ m \in Revocable(r)
    BY <2>1, <2>2
  <2>6. /\ Revocable(r) \in SUBSET (Links \ {l})
        /\ \A o \in Revocable(r) : [m \in Links |-> link[m].usedBy][o] = Nobody
    BY <2>1 DEF Revocable, IsPending, NoLink
  <2>7. [m \in Links |-> link'[m].email] = [[m \in Links |-> link[m].email] EXCEPT ![l] = p]
    BY <2>3, <2>5, <2>4
  <2>8. [m \in Links |-> link'[m].usedBy] = [m \in Links |-> link[m].usedBy]
    BY <2>3, <2>5, <2>4
  <2>9. {m \in Links : link'[m].revoked} = {m \in Links : link[m].revoked} \union Revocable(r)
    BY <2>3, <2>5, <2>6, <2>4
  <2>10. [m \in Links |-> link[m].email][l] = Nobody
    BY <2>3
  <2>11. PICK old \in SUBSET (Links \ {l}) : old = Revocable(r)
    BY <2>6
  <2>12. Activation!Issue(l, p, old)
    BY <2>6, <2>7, <2>8, <2>9, <2>10, <2>11 DEF Activation!Issue
  <2> QED BY <2>12 DEF Activation!Next
<1> QED BY <1>2, <1>3

\* A tenant is opened by the person its link was sent to, and the link is used.
LEMMA CreateUses ==
  ASSUME PlatformInv, NEW r \in Requests, Create(r)
  PROVE  [Activation!Next]_(Activation!vars)
<1>1. LinkHeld(r, call[r]) /\ call[r].phase = "creating"
  BY DEF PlatformInv, TenantsHold, Create
<1>2. PICK p \in Users : p = call[r].user
  BY DEF PlatformInv, CallShape, Create
<1>3. CASE UNCHANGED link
  BY <1>3, LinksStay
<1>4. CASE ~UNCHANGED link
  <2>1. call[r].op = "open" /\ link' = [link EXCEPT ![call[r].link].usedBy = p]
    BY <1>4, <1>2 DEF Create
  <2>2. PICK l \in Links : l = call[r].link
    BY <2>1 DEF PlatformInv, CallShape
  <2>3. IsPending(l) /\ link[l].email = p
    BY <1>1, <1>2, <2>1, <2>2 DEF LinkHeld
  <2>4. link \in [Links -> [slug : Slugs \union {Nobody}, email : Users \union {Nobody},
                         inviter : Users \union {Nobody}, usedBy : Users \union {Nobody},
                         revoked : BOOLEAN]]
    BY DEF PlatformInv, PlatformTypeOK
  <2>5. /\ link'[l].email = link[l].email /\ link'[l].usedBy = p
        /\ link'[l].revoked = link[l].revoked
        /\ \A m \in Links \ {l} : link'[m] = link[m]
    BY <2>1, <2>2, <2>4
  <2>6. [m \in Links |-> link'[m].email] = [m \in Links |-> link[m].email]
    BY <2>5
  <2>7. [m \in Links |-> link'[m].usedBy] = [[m \in Links |-> link[m].usedBy] EXCEPT ![l] = p]
    BY <2>5
  <2>8. {m \in Links : link'[m].revoked} = {m \in Links : link[m].revoked}
    BY <2>5
  <2>9. /\ [m \in Links |-> link[m].email][l] = p
        /\ [m \in Links |-> link[m].usedBy][l] = Nobody
        /\ l \notin {m \in Links : link[m].revoked}
    BY <2>3 DEF IsPending
  <2>10. Activation!Use(l, p)
    BY <2>6, <2>7, <2>8, <2>9 DEF Activation!Use
  <2> QED BY <2>10 DEF Activation!Next
<1> QED BY <1>3, <1>4

LEMMA PlatformStepsOfTokens ==
  ASSUME PlatformInv, PlatformNext
  PROVE  [Activation!Next]_(Activation!vars)
<1>1. ASSUME NEW r \in Requests, Proceed(r)
      PROVE  [Activation!Next]_(Activation!vars)
  <2>1. CASE Send(r)
    BY <2>1, SendIssues
  <2>2. CASE Create(r)
    BY <2>2, CreateUses
  <2>3. CASE Asks(r) \/ AskForWorkspace(r)
    <3>1. UNCHANGED link
      BY <2>3, AsksMove, WorkspaceMoves
    <3> QED BY <3>1, LinksStay
  <2>4. CASE Prepare(r)
    <3>1. UNCHANGED link
      BY <2>4 DEF Prepare
    <3> QED BY <3>1, LinksStay
  <2>5. CASE Open(r)
    <3>1. UNCHANGED link
      BY <2>5 DEF Open
    <3> QED BY <3>1, LinksStay
  <2>6. CASE \/ Add(r) \/ Count(r) \/ Suspend(r) \/ SaveKey(r) \/ FailToSave(r) \/ Replace(r)
             \/ ReadBoard(r) \/ WriteBoard(r) \/ Take(r)
    <3>1. UNCHANGED link
      BY <2>6 DEF Add, Count, Suspend, SaveKey, FailToSave, Replace, ReadBoard, WriteBoard, Take
    <3> QED BY <3>1, LinksStay
  <2> QED BY <1>1, <2>1, <2>2, <2>3, <2>4, <2>5, <2>6 DEF Proceed, Asks
<1>2. CASE Restart \/ (\E u \in Users : Register(u)) \/ (\E l \in Links : Lapse(l))
  <2>1. UNCHANGED link
    BY <1>2 DEF Restart, Register, Lapse
  <2> QED BY <2>1, LinksStay
<1> QED BY <1>1, <1>2 DEF PlatformNext

---------------------------------------------------------------------------
(* Requests of the workspace back office.                                  *)

LEMMA FreeIsTyped ==
  /\ Free \in Job /\ JobShape(Free)
  /\ Free.phase = "idle" /\ Free.op = "none" /\ Free.owner = Nobody /\ Free.items = {}
  /\ Free.rows = {} /\ Free.stale = FALSE
BY RequestsAssumption DEF Free, Job, JobShape, RoleWrites, GovernanceOps

\* One request goes on, the others stay.
JobMoves(r, c) ==
  /\ c \in Job /\ JobShape(c)
  /\ job' = [job EXCEPT ![r] = c]

\* What a request must be like to be at work beside the others.
JobFits(r, c) ==
  /\ c.op = "create_role" =>
       /\ granted[c.owner] = {}
       /\ \A s \in Requests \ {r} : ~(job[s].op = "create_role" /\ job[s].owner = c.owner)
  /\ c.op = "update_role" /\ c.phase # "begun" => granted[c.owner] # {}
  /\ c.op = "update_role" /\ c.phase \in {"locked", "seen", "deleted"} =>
       \A s \in Requests \ {r} : ~(RoleLockedBy(s) /\ job[s].owner = c.owner)
  /\ c.op = "update_role" /\ c.phase \in {"seen", "deleted"} => c.rows = holds[c.owner]
  /\ c.op = "assign" /\ c.phase \in {"seen", "deleted"} /\ ~c.stale => holds[c.owner] \subseteq c.rows
  /\ c.phase = "copied" /\ ~c.stale => c.copy = wall

LEMMA FreeFits ==
  ASSUME NEW r \in Requests
  PROVE  JobFits(r, Free)
BY FreeIsTyped DEF JobFits

LEMMA JobMovesOne ==
  ASSUME GovernanceInv, NEW r \in Requests, NEW c \in Job, JobMoves(r, c)
  PROVE  /\ job' \in [Requests -> Job]
         /\ \A s \in Requests : JobShape(job[s])'
         /\ job'[r] = c
         /\ \A s \in Requests \ {r} : job'[s] = job[s]
<1>1. job \in [Requests -> Job] /\ \A s \in Requests : JobShape(job[s])
  BY DEF GovernanceInv, GovernanceTypeOK
<1>2. /\ job' \in [Requests -> Job]
      /\ job'[r] = c
      /\ \A s \in Requests \ {r} : job'[s] = job[s]
  BY <1>1 DEF JobMoves
<1>3. ASSUME NEW s \in Requests
      PROVE  JobShape(job'[s])
  BY <1>1, <1>2 DEF JobMoves
<1>4. \A s \in Requests : JobShape(job[s])'
  BY <1>3 DEF JobShape
<1> QED BY <1>2, <1>4

\* Each request fits beside the others.
LEMMA AllFit ==
  ASSUME GovernanceInv, NEW s \in Requests
  PROVE  JobFits(s, job[s]) \/ (job[s].phase = "copied" /\ "wall" \in raced)
BY DEF GovernanceInv, RolesHold, AssignmentsHold, WallHolds, JobFits, RoleLockedBy

LEMMA OneJobHolds ==
  ASSUME GovernanceInv, NEW r \in Requests, NEW c \in Job, JobMoves(r, c), JobFits(r, c),
         RequestsTypeOK', raced' = raced, c.phase \notin {"renamed", "renaming"}, ~Renaming(r),
         UNCHANGED <<roleKey, holds, granted, given, listed, wall, posted, personVars>>
  PROVE  GovernanceInv'
<1>1. /\ job' \in [Requests -> Job]
      /\ \A s \in Requests : JobShape(job[s])'
      /\ job'[r] = c
      /\ \A s \in Requests \ {r} : job'[s] = job[s]
  BY JobMovesOne
<1>2. GovernanceTypeOK'
  BY <1>1 DEF GovernanceInv, GovernanceTypeOK
<1>3. RowsHold'
  BY DEF GovernanceInv, RowsHold, Exists, Items
<1>4. RolesHold'
  <2> USE DEF GovernanceInv, RolesHold
  <2>1. ASSUME NEW s \in Requests, job'[s].op = "create_role"
        PROVE  /\ granted'[job'[s].owner] = {}
               /\ \A t \in Requests \ {s} : job'[t].op = "create_role" => job'[t].owner # job'[s].owner
    <3>1. CASE s = r
      BY <1>1, <2>1, <3>1 DEF JobFits
    <3>2. CASE s # r
      BY <1>1, <2>1, <3>2 DEF JobFits
    <3> QED BY <3>1, <3>2
  <2>2. ASSUME NEW s \in Requests, job'[s].op = "update_role", job'[s].phase # "begun"
        PROVE  granted'[job'[s].owner] # {}
    BY <1>1, <2>2 DEF JobFits
  <2>3. ASSUME NEW s \in Requests, NEW t \in Requests, RoleLockedBy(s)', RoleLockedBy(t)',
               job'[s].owner = job'[t].owner
        PROVE  s = t
    <3> USE DEF RoleLockedBy
    <3>1. CASE s # r /\ t # r
      BY <1>1, <2>3, <3>1
    <3>2. CASE s = r \/ t = r
      BY <1>1, <2>3, <3>2 DEF JobFits
    <3> QED BY <3>1, <3>2
  <2>4. ASSUME NEW s \in Requests, job'[s].op = "update_role", job'[s].phase \in {"seen", "deleted"}
        PROVE  job'[s].rows = holds'[job'[s].owner]
    BY <1>1, <2>4 DEF JobFits
  <2>5. /\ \A x \in RoleIds : Items(holds'[x]) \in granted'[x] \union {{}}
        /\ DOMAIN listed' \subseteq RoleIds
        /\ RolesAreListedAsGranted'
    BY DEF RolesAreListedAsGranted
  <2> QED BY <2>1, <2>2, <2>3, <2>4, <2>5 DEF Items
<1>5. AssignmentsHold'
  <2>1. ASSUME NEW s \in Requests, job'[s].op = "assign", job'[s].phase \in {"seen", "deleted"},
               ~job'[s].stale
        PROVE  holds'[job'[s].owner] \subseteq job'[s].rows
    BY <1>1, <2>1 DEF JobFits, GovernanceInv, AssignmentsHold
  <2>2. RolesComeFromOneRequest'
    BY DEF GovernanceInv, AssignmentsHold, RolesComeFromOneRequest, Exists, Items
  <2> QED BY <2>1, <2>2 DEF AssignmentsHold
<1>6. WallHolds'
  BY <1>1 DEF JobFits, GovernanceInv, WallHolds
<1>7. NamesHold'
  BY <1>1 DEF GovernanceInv, NamesHold, Renaming
<1> QED BY <1>1, <1>2, <1>3, <1>4, <1>5, <1>6, <1>7 DEF GovernanceInv

LEMMA FinishMoves ==
  ASSUME NEW r \in Requests, Finish(r)
  PROVE  Free \in Job /\ JobMoves(r, Free) /\ JobFits(r, Free)
BY FreeIsTyped, FreeFits DEF Finish, JobMoves

LEMMA RequestsStay ==
  ASSUME GovernanceInv, ops' = ops, requests' = requests
  PROVE  RequestsTypeOK'
BY DEF GovernanceInv, RequestsTypeOK

LEMMA FinishHolds ==
  ASSUME GovernanceInv, NEW r \in Requests, Finish(r), ~Renaming(r),
         UNCHANGED requestVars,
         UNCHANGED <<roleKey, holds, granted, given, listed, wall, posted, personVars>>
  PROVE  GovernanceInv'
BY FinishMoves, RequestsStay, FreeIsTyped, OneJobHolds DEF requestVars

---------------------------------------------------------------------------
(* Requests that change no row.                                            *)

\* A route lets its caller in, and the work begins.
LEMMA BeginMoves ==
  ASSUME GovernanceInv, NEW r \in Requests, NEW q \in Job, Begin(r, q), JobShape(q),
         q.phase = "idle", q.op # "none"
  PROVE  /\ \E c \in Job : /\ JobMoves(r, c) /\ c.phase = "begun"
                           /\ c.op = q.op /\ c.owner = q.owner
         /\ RequestsTypeOK' /\ raced' = raced /\ job[r].phase = "idle"
         /\ UNCHANGED <<roleKey, holds, granted, given, listed, wall, posted, personVars>>
<1>1. /\ requests < MaxRequests /\ requests' = requests + 1 /\ ops' = ops /\ raced' = raced
      /\ job[r].phase = "idle"
      /\ UNCHANGED <<roleKey, holds, granted, given, listed, wall, posted, personVars>>
  BY DEF Begin, Made
<1>2. requests \in 0..MaxRequests /\ MaxRequests \in Nat /\ ops \in OpGroups
  BY RequestsAssumption DEF GovernanceInv, RequestsTypeOK
<1>3. PICK n \in 0..MaxRequests : n = requests + 1
  BY <1>1, <1>2
<1>4. PICK c \in Job : c = [q EXCEPT !.phase = "begun", !.number = n]
  <2>1. [q EXCEPT !.phase = "begun", !.number = n] \in Job
    BY DEF Job
  <2> QED BY <2>1
<1>5. /\ c.phase = "begun" /\ c.op = q.op /\ c.owner = q.owner /\ c.items = q.items
      /\ c.key = q.key /\ c.name = q.name
  BY <1>4 DEF Job
<1>6. JobShape(c)
  BY <1>5 DEF JobShape
<1>7. job' = [job EXCEPT ![r] = c]
  BY <1>3, <1>4 DEF Begin
<1> QED BY <1>1, <1>2, <1>3, <1>5, <1>6, <1>7 DEF JobMoves, RequestsTypeOK

LEMMA BeginHolds ==
  ASSUME GovernanceInv, NEW r \in Requests, NEW q \in Job, Begin(r, q), JobShape(q),
         q.phase = "idle", q.op # "none",
         q.op = "create_role" =>
           granted[q.owner] = {} /\ \A s \in Requests : job[s].owner # q.owner
  PROVE  GovernanceInv'
<1>1. PICK c \in Job : JobMoves(r, c) /\ c.phase = "begun" /\ c.op = q.op /\ c.owner = q.owner
  BY BeginMoves
<1>2. JobFits(r, c)
  BY <1>1 DEF JobFits
<1> QED BY <1>1, <1>2, BeginMoves, OneJobHolds DEF Renaming

Begins(r) == BeginRole(r) \/ BeginAssign(r) \/ BeginAnnouncement(r) \/ BeginProfile(r)

LEMMA BeginsHold ==
  ASSUME GovernanceInv, NEW r \in Requests, Begins(r)
  PROVE  GovernanceInv'
<1>1. ASSUME NEW x \in RoleIds, NEW k \in RoleKeys, NEW caps \in SUBSET Capabilities,
             granted[x] = {}, \A s \in Requests : job[s].owner # x,
             Begin(r, [Free EXCEPT !.op = "create_role", !.owner = x, !.key = k, !.items = caps])
      PROVE  GovernanceInv'
  <2>1. PICK q : q = [Free EXCEPT !.op = "create_role", !.owner = x, !.key = k, !.items = caps]
    OBVIOUS
  <2>2. /\ q \in Job /\ q.phase = "idle" /\ q.op = "create_role" /\ q.owner = x /\ q.key = k
        /\ q.items = caps
    BY <2>1, FreeIsTyped DEF Job, GovernanceOps
  <2>3. JobShape(q)
    BY <2>2 DEF JobShape, RoleWrites
  <2> QED BY <1>1, <2>1, <2>2, <2>3, BeginHolds
<1>2. ASSUME NEW x \in RoleIds, NEW caps \in SUBSET Capabilities,
             Begin(r, [Free EXCEPT !.op = "update_role", !.owner = x, !.items = caps])
      PROVE  GovernanceInv'
  <2>1. PICK q : q = [Free EXCEPT !.op = "update_role", !.owner = x, !.items = caps]
    OBVIOUS
  <2>2. q \in Job /\ q.phase = "idle" /\ q.op = "update_role" /\ q.owner = x /\ q.items = caps
    BY <2>1, FreeIsTyped DEF Job, GovernanceOps
  <2>3. JobShape(q)
    BY <2>2 DEF JobShape, RoleWrites
  <2> QED BY <1>2, <2>1, <2>2, <2>3, BeginHolds
<1>3. ASSUME NEW x \in RoleIds, Begin(r, [Free EXCEPT !.op = "delete_role", !.owner = x])
      PROVE  GovernanceInv'
  <2>1. PICK q : q = [Free EXCEPT !.op = "delete_role", !.owner = x]
    OBVIOUS
  <2>2. q \in Job /\ q.phase = "idle" /\ q.op = "delete_role" /\ q.owner = x
    BY <2>1, FreeIsTyped DEF Job, GovernanceOps
  <2>3. JobShape(q)
    BY <2>2 DEF JobShape, RoleWrites
  <2> QED BY <1>3, <2>1, <2>2, <2>3, BeginHolds
<1>4. ASSUME Begin(r, [Free EXCEPT !.op = "list_roles"])
      PROVE  GovernanceInv'
  <2>1. PICK q : q = [Free EXCEPT !.op = "list_roles"]
    OBVIOUS
  <2>2. q \in Job /\ q.phase = "idle" /\ q.op = "list_roles"
    BY <2>1, FreeIsTyped DEF Job, GovernanceOps
  <2>3. JobShape(q)
    BY <2>2 DEF JobShape, RoleWrites
  <2> QED BY <1>4, <2>1, <2>2, <2>3, BeginHolds
<1>5. ASSUME NEW m \in Staff, NEW roles \in SUBSET RoleIds,
             Begin(r, [Free EXCEPT !.op = "assign", !.owner = m, !.items = roles])
      PROVE  GovernanceInv'
  <2>1. PICK q : q = [Free EXCEPT !.op = "assign", !.owner = m, !.items = roles]
    OBVIOUS
  <2>2. q \in Job /\ q.phase = "idle" /\ q.op = "assign" /\ q.owner = m /\ q.items = roles
    BY <2>1, FreeIsTyped DEF Job, GovernanceOps
  <2>3. JobShape(q)
    BY <2>2 DEF JobShape, RoleWrites
  <2> QED BY <1>5, <2>1, <2>2, <2>3, BeginHolds
<1>6. ASSUME NEW a \in Messages, NEW o \in {"announce", "retract"},
             Begin(r, [Free EXCEPT !.op = o, !.items = {a}])
      PROVE  GovernanceInv'
  <2>1. PICK q : q = [Free EXCEPT !.op = o, !.items = {a}]
    OBVIOUS
  <2>2. q \in Job /\ q.phase = "idle" /\ q.op = o /\ q.owner = Nobody /\ q.items = {a}
    BY <2>1, FreeIsTyped DEF Job, GovernanceOps
  <2>3. JobShape(q)
    BY <2>2 DEF JobShape, RoleWrites
  <2> QED BY <1>6, <2>1, <2>2, <2>3, BeginHolds
<1>7. ASSUME NEW n \in Names, Begin(r, [Free EXCEPT !.op = "profile", !.name = n])
      PROVE  GovernanceInv'
  <2>1. PICK q : q = [Free EXCEPT !.op = "profile", !.name = n]
    OBVIOUS
  <2>2. q \in Job /\ q.phase = "idle" /\ q.op = "profile" /\ q.name = n
    BY <2>1, FreeIsTyped DEF Job, GovernanceOps
  <2>3. JobShape(q)
    BY <2>2 DEF JobShape, RoleWrites
  <2> QED BY <1>7, <2>1, <2>2, <2>3, BeginHolds
<1>8. CASE BeginRole(r)
  BY <1>1, <1>2, <1>3, <1>4, <1>8 DEF BeginRole
<1>9. CASE BeginAssign(r)
  BY <1>5, <1>9 DEF BeginAssign
<1>10. CASE BeginAnnouncement(r)
  BY <1>6, <1>10 DEF BeginAnnouncement
<1>11. CASE BeginProfile(r)
  BY <1>7, <1>11 DEF BeginProfile
<1> QED BY <1>8, <1>9, <1>10, <1>11 DEF Begins

\* What a step in which r goes on with c and no row changes has to be shown.
LEMMA GoingOnHolds ==
  ASSUME GovernanceInv, NEW r \in Requests, NEW c \in Job, JobShape(c), JobFits(r, c),
         job' = [job EXCEPT ![r] = c],
         UNCHANGED requestVars, c.phase \notin {"renamed", "renaming"}, ~Renaming(r),
         UNCHANGED <<roleKey, holds, granted, given, listed, wall, posted, personVars>>
  PROVE  GovernanceInv'
BY RequestsStay, OneJobHolds DEF JobMoves, requestVars

\* A role that is found exists, so that something was granted to it.
LEMMA FindHolds ==
  ASSUME GovernanceInv, NEW r \in Requests, Find(r)
  PROVE  GovernanceInv'
<1>1. /\ job[r] \in Job /\ JobShape(job[r]) /\ job[r].phase = "begun" /\ job[r].op \in RoleWrites
      /\ JobFits(r, job[r]) /\ job \in [Requests -> Job]
  BY AllFit DEF GovernanceInv, GovernanceTypeOK, Find, RoleWrites
<1>2. /\ UNCHANGED requestVars
      /\ UNCHANGED <<roleKey, holds, granted, given, listed, wall, posted, personVars>>
  BY DEF Find
<1>3. CASE Finish(r)
  BY <1>1, <1>2, <1>3, FinishHolds DEF Renaming
<1>4. CASE ~Finish(r)
  <2>1. PICK c \in Job : c = [job[r] EXCEPT !.phase = "found"]
    BY <1>1 DEF Job
  <2>2. job' = [job EXCEPT ![r] = c]
    BY <1>4, <2>1 DEF Find, Finish
  <2>3. job[r].op = "update_role" => Exists(job[r].owner)
    BY <1>4 DEF Find, Finish
  <2>4. /\ c.phase = "found" /\ c.op = job[r].op /\ c.owner = job[r].owner
        /\ c.items = job[r].items /\ c.key = job[r].key /\ c.name = job[r].name
    BY <1>1, <2>1 DEF Job
  <2>5. JobShape(c)
    BY <1>1, <2>4 DEF JobShape, RoleWrites
  <2>6. c.op = "update_role" => granted[c.owner] # {}
    BY <1>1, <2>3, <2>4 DEF GovernanceInv, RowsHold, JobShape, RoleWrites
  <2>7. JobFits(r, c)
    BY <1>1, <2>4, <2>6 DEF JobFits, RoleWrites
  <2> QED BY <1>1, <1>2, <2>2, <2>4, <2>5, <2>7, GoingOnHolds DEF Renaming
<1> QED BY <1>3, <1>4

LEMMA LockRoleHolds ==
  ASSUME GovernanceInv, NEW r \in Requests, LockRole(r)
  PROVE  GovernanceInv'
<1>1. /\ job[r] \in Job /\ JobShape(job[r]) /\ job[r].phase = "found" /\ job[r].op = "update_role"
      /\ JobFits(r, job[r]) /\ job \in [Requests -> Job]
  BY AllFit DEF GovernanceInv, GovernanceTypeOK, LockRole
<1>2. /\ UNCHANGED requestVars
      /\ UNCHANGED <<roleKey, holds, granted, given, listed, wall, posted, personVars>>
      /\ \A s \in Requests \ {r} : ~(RoleLockedBy(s) /\ job[s].owner = job[r].owner)
  BY DEF LockRole
<1>3. PICK c \in Job : c = [job[r] EXCEPT !.phase = "locked"]
  BY <1>1 DEF Job
<1>4. job' = [job EXCEPT ![r] = c]
  BY <1>1, <1>3 DEF LockRole
<1>5. /\ c.phase = "locked" /\ c.op = job[r].op /\ c.owner = job[r].owner
      /\ c.items = job[r].items /\ c.key = job[r].key /\ c.name = job[r].name
  BY <1>1, <1>3 DEF Job
<1>6. JobShape(c) /\ JobFits(r, c)
  BY <1>1, <1>2, <1>5 DEF JobShape, RoleWrites, JobFits
<1> QED BY <1>1, <1>2, <1>4, <1>5, <1>6, GoingOnHolds DEF Renaming

LEMMA ReadRolesHolds ==
  ASSUME GovernanceInv, NEW r \in Requests, ReadRoles(r)
  PROVE  GovernanceInv'
<1>1. /\ job[r] \in Job /\ JobShape(job[r]) /\ job[r].phase = "begun" /\ job[r].op = "list_roles"
      /\ job \in [Requests -> Job]
  BY DEF GovernanceInv, GovernanceTypeOK, ReadRoles
<1>2. /\ UNCHANGED requestVars
      /\ UNCHANGED <<roleKey, holds, granted, given, listed, wall, posted, personVars>>
  BY DEF ReadRoles
<1>3. PICK roles \in SUBSET RoleIds : roles = {x \in RoleIds : Exists(x)}
  OBVIOUS
<1>4. PICK c \in Job : c = [job[r] EXCEPT !.phase = "listing", !.items = roles]
  <2>1. [job[r] EXCEPT !.phase = "listing", !.items = roles] \in Job
    BY <1>1 DEF Job
  <2> QED BY <2>1
<1>5. job' = [job EXCEPT ![r] = c]
  BY <1>1, <1>3, <1>4 DEF ReadRoles
<1>6. /\ c.phase = "listing" /\ c.op = "list_roles" /\ c.items = roles
      /\ c.owner = job[r].owner /\ c.key = job[r].key /\ c.name = job[r].name
  BY <1>1, <1>4 DEF Job
<1>7. JobShape(c) /\ JobFits(r, c)
  BY <1>1, <1>6 DEF JobShape, RoleWrites, JobFits
<1> QED BY <1>1, <1>2, <1>5, <1>6, <1>7, GoingOnHolds DEF Renaming

\* The rows that a DELETE starts with are all there are.
LEMMA SeeHolds ==
  ASSUME GovernanceInv, NEW r \in Requests, See(r)
  PROVE  GovernanceInv'
<1>1. /\ job[r] \in Job /\ JobShape(job[r]) /\ JobFits(r, job[r]) /\ job \in [Requests -> Job]
      /\ \/ job[r].phase = "locked" /\ job[r].op = "update_role"
         \/ job[r].phase = "begun" /\ job[r].op = "assign"
  BY AllFit DEF GovernanceInv, GovernanceTypeOK, See, JobShape
<1>2. /\ UNCHANGED requestVars
      /\ UNCHANGED <<roleKey, holds, granted, given, listed, wall, posted, personVars>>
  BY DEF See
<1>3. PICK rows \in SUBSET [item : RoleIds \union Capabilities, by : 0..MaxRequests] :
        rows = holds[job[r].owner]
  <2>1. job[r].owner \in RoleIds \union Staff
    BY <1>1 DEF JobShape, RoleWrites
  <2> QED BY <2>1 DEF GovernanceInv, GovernanceTypeOK
<1>4. PICK c \in Job : c = [job[r] EXCEPT !.phase = "seen", !.rows = rows]
  <2>1. [job[r] EXCEPT !.phase = "seen", !.rows = rows] \in Job
    BY <1>1 DEF Job
  <2> QED BY <2>1
<1>5. job' = [job EXCEPT ![r] = c]
  BY <1>1, <1>3, <1>4 DEF See
<1>6. /\ c.phase = "seen" /\ c.rows = rows /\ c.op = job[r].op /\ c.owner = job[r].owner
      /\ c.items = job[r].items /\ c.key = job[r].key /\ c.name = job[r].name
  BY <1>1, <1>4 DEF Job
<1>7. JobShape(c)
  BY <1>1, <1>6 DEF JobShape, RoleWrites
<1>8. JobFits(r, c)
  BY <1>1, <1>3, <1>6 DEF JobFits
<1> QED BY <1>1, <1>2, <1>5, <1>6, <1>7, <1>8, GoingOnHolds DEF Renaming

\* Rows that are gone are skipped, and what is left is still all there is.
LEMMA DeleteHolds ==
  ASSUME GovernanceInv, NEW r \in Requests, Delete(r)
  PROVE  GovernanceInv'
<1>1. /\ job[r] \in Job /\ JobShape(job[r]) /\ JobFits(r, job[r]) /\ job \in [Requests -> Job]
      /\ job[r].phase = "seen" /\ job[r].op \in {"update_role", "assign"}
  BY AllFit DEF GovernanceInv, GovernanceTypeOK, Delete, JobShape
<1>2. /\ UNCHANGED requestVars
      /\ UNCHANGED <<roleKey, holds, granted, given, listed, wall, posted, personVars>>
  BY DEF Delete
<1>3. PICK rows \in SUBSET [item : RoleIds \union Capabilities, by : 0..MaxRequests] :
        rows = job[r].rows \cap holds[job[r].owner]
  BY <1>1 DEF Job
<1>4. PICK c \in Job : c = [job[r] EXCEPT !.phase = "deleted", !.rows = rows]
  <2>1. [job[r] EXCEPT !.phase = "deleted", !.rows = rows] \in Job
    BY <1>1 DEF Job
  <2> QED BY <2>1
<1>5. job' = [job EXCEPT ![r] = c]
  BY <1>1, <1>3, <1>4 DEF Delete
<1>6. /\ c.phase = "deleted" /\ c.rows = rows /\ c.op = job[r].op /\ c.owner = job[r].owner
      /\ c.items = job[r].items /\ c.key = job[r].key /\ c.name = job[r].name
      /\ c.stale = job[r].stale
  BY <1>1, <1>4 DEF Job
<1>7. JobShape(c)
  BY <1>1, <1>6 DEF JobShape, RoleWrites
<1>8. JobFits(r, c)
  BY <1>1, <1>3, <1>6 DEF JobFits
<1> QED BY <1>1, <1>2, <1>5, <1>6, <1>7, <1>8, GoingOnHolds DEF Renaming

LEMMA ReadWallHolds ==
  ASSUME GovernanceInv, NEW r \in Requests, ReadWall(r)
  PROVE  GovernanceInv'
<1>1. /\ job[r] \in Job /\ JobShape(job[r]) /\ job \in [Requests -> Job] /\ wall \subseteq Messages
      /\ job[r].phase = "begun" /\ job[r].op \in {"announce", "retract"}
  BY DEF GovernanceInv, GovernanceTypeOK, ReadWall
<1>2. /\ UNCHANGED requestVars
      /\ UNCHANGED <<roleKey, holds, granted, given, listed, wall, posted, personVars>>
  BY DEF ReadWall
<1>3. PICK c \in Job : c = [job[r] EXCEPT !.phase = "copied", !.copy = wall]
  <2>1. [job[r] EXCEPT !.phase = "copied", !.copy = wall] \in Job
    BY <1>1 DEF Job
  <2> QED BY <2>1
<1>4. job' = [job EXCEPT ![r] = c]
  BY <1>1, <1>3 DEF ReadWall
<1>5. /\ c.phase = "copied" /\ c.copy = wall /\ c.op = job[r].op /\ c.owner = job[r].owner
      /\ c.items = job[r].items /\ c.key = job[r].key /\ c.name = job[r].name
  BY <1>1, <1>3 DEF Job
<1>6. JobShape(c) /\ JobFits(r, c)
  BY <1>1, <1>5 DEF JobShape, RoleWrites, JobFits
<1> QED BY <1>1, <1>2, <1>4, <1>5, <1>6, GoingOnHolds DEF Renaming

LEMMA BreakDeadlockHolds ==
  ASSUME GovernanceInv, NEW r \in Requests, BreakDeadlock(r)
  PROVE  GovernanceInv'
<1>1. PICK loser \in Requests : Finish(loser) /\ job[loser].phase \in {"found", "deleted"}
  BY DEF BreakDeadlock, Unassigning
<1>2. /\ UNCHANGED requestVars
      /\ UNCHANGED <<roleKey, holds, granted, given, listed, wall, posted, personVars>>
  BY DEF BreakDeadlock
<1> QED BY <1>1, <1>2, FinishHolds DEF Renaming

---------------------------------------------------------------------------
(* What a step leaves alone.                                               *)

LEMMA RowsStay ==
  ASSUME GovernanceInv, UNCHANGED <<roleKey, holds, granted, given>>
  PROVE  RowsHold'
BY DEF GovernanceInv, RowsHold, Exists, Items

LEMMA RolesStay ==
  ASSUME GovernanceInv, UNCHANGED <<granted, listed>>, \A x \in RoleIds : holds'[x] = holds[x],
         \A s \in Requests : job'[s].op \in {"create_role", "update_role"} =>
           /\ job'[s].op = job[s].op /\ job'[s].phase = job[s].phase
           /\ job'[s].owner = job[s].owner /\ job'[s].rows = job[s].rows
  PROVE  RolesHold'
<1> USE DEF GovernanceInv, RolesHold
<1>1. ASSUME NEW s \in Requests, job'[s].op = "create_role"
      PROVE  /\ granted'[job'[s].owner] = {}
             /\ \A t \in Requests \ {s} : job'[t].op = "create_role" => job'[t].owner # job'[s].owner
  BY <1>1
<1>2. ASSUME NEW s \in Requests, job'[s].op = "update_role", job'[s].phase # "begun"
      PROVE  granted'[job'[s].owner] # {}
  BY <1>2
<1>3. ASSUME NEW s \in Requests, NEW t \in Requests, RoleLockedBy(s)', RoleLockedBy(t)',
             job'[s].owner = job'[t].owner
      PROVE  s = t
  BY <1>3 DEF RoleLockedBy
<1>4. ASSUME NEW s \in Requests, job'[s].op = "update_role", job'[s].phase \in {"seen", "deleted"}
      PROVE  job'[s].rows = holds'[job'[s].owner]
  BY <1>4 DEF JobShape, RoleWrites
<1>5. /\ \A x \in RoleIds : Items(holds'[x]) \in granted'[x] \union {{}}
      /\ DOMAIN listed' \subseteq RoleIds
      /\ RolesAreListedAsGranted'
  BY DEF RolesAreListedAsGranted
<1> QED BY <1>1, <1>2, <1>3, <1>4, <1>5 DEF Items

LEMMA AssignmentsStay ==
  ASSUME GovernanceInv, UNCHANGED <<roleKey, given>>, \A m \in Staff : holds'[m] = holds[m],
         \A m \in Staff : m \in raced => m \in raced',
         \A s \in Requests : job'[s].op = "assign" =>
           /\ job[s].op = "assign" /\ job'[s].phase = job[s].phase
           /\ job'[s].owner = job[s].owner /\ job'[s].rows = job[s].rows
           /\ ~job'[s].stale => ~job[s].stale
  PROVE  AssignmentsHold'
<1>1. ASSUME NEW s \in Requests, job'[s].op = "assign", job'[s].phase \in {"seen", "deleted"},
             ~job'[s].stale
      PROVE  holds'[job'[s].owner] \subseteq job'[s].rows
  <2>1. job[s].owner \in Staff
    BY <1>1 DEF GovernanceInv, JobShape
  <2> QED BY <1>1, <2>1 DEF GovernanceInv, AssignmentsHold
<1>2. RolesComeFromOneRequest'
  BY DEF GovernanceInv, AssignmentsHold, RolesComeFromOneRequest, Exists, Items
<1> QED BY <1>1, <1>2 DEF AssignmentsHold

LEMMA WallStays ==
  ASSUME GovernanceInv, UNCHANGED <<wall, posted>>, "wall" \in raced => "wall" \in raced',
         \A s \in Requests : job'[s].phase = "copied" =>
           /\ job[s].phase = "copied" /\ job'[s].copy = job[s].copy
           /\ ~job'[s].stale => ~job[s].stale
  PROVE  WallHolds'
BY DEF GovernanceInv, WallHolds

LEMMA NamesStay ==
  ASSUME GovernanceInv, UNCHANGED <<personVars>>, "profile" \in raced => "profile" \in raced',
         \A s \in Requests : job[s].phase \in {"renamed", "renaming"} =>
           /\ job'[s].phase = job[s].phase /\ job'[s].name = job[s].name
           /\ job'[s].places = job[s].places,
         \A s \in Requests :
           job'[s].phase \in {"renamed", "renaming"} => job'[s].phase = job[s].phase
  PROVE  NamesHold'
BY DEF GovernanceInv, NamesHold, Renaming

\* Whose read is overtaken goes on knowing that it is stale.
LEMMA OvertakenJobs ==
  ASSUME GovernanceInv, NEW r \in Requests, NEW phases, job' = Overtaken(r, phases)
  PROVE  /\ job' \in [Requests -> Job] /\ \A s \in Requests : JobShape(job[s])'
         /\ job'[r] = Free
         /\ \A s \in Requests \ {r} :
              /\ job'[s].phase = job[s].phase /\ job'[s].op = job[s].op
              /\ job'[s].owner = job[s].owner /\ job'[s].rows = job[s].rows
              /\ job'[s].copy = job[s].copy /\ job'[s].name = job[s].name
              /\ job'[s].places = job[s].places
              /\ job'[s].stale <=> job[s].stale \/ (job[s].phase \in phases /\ job[s].owner = job[r].owner)
<1>1. job'[r] = Free
  BY DEF Overtaken
<1>2. ASSUME NEW s \in Requests \ {r}
      PROVE  /\ job'[s] \in Job
             /\ job'[s].phase = job[s].phase /\ job'[s].op = job[s].op
             /\ job'[s].owner = job[s].owner /\ job'[s].rows = job[s].rows
             /\ job'[s].copy = job[s].copy /\ job'[s].name = job[s].name
             /\ job'[s].places = job[s].places
             /\ job'[s].items = job[s].items /\ job'[s].key = job[s].key
             /\ job'[s].stale <=> job[s].stale \/ (job[s].phase \in phases /\ job[s].owner = job[r].owner)
  <2> DEFINE t == job[s].stale \/ (job[s].phase \in phases /\ job[s].owner = job[r].owner)
             c == [job[s] EXCEPT !.stale = t]
  <2>1. job[s] \in Job
    BY DEF GovernanceInv, GovernanceTypeOK
  <2>2. job'[s] = c
    BY DEF Overtaken
  <2>3. t \in BOOLEAN
    BY <2>1 DEF Job
  <2>4. t <=> job[s].stale \/ (job[s].phase \in phases /\ job[s].owner = job[r].owner)
    OBVIOUS
  <2> HIDE DEF t
  <2>5. /\ c \in Job /\ c.phase = job[s].phase /\ c.op = job[s].op /\ c.owner = job[s].owner
        /\ c.rows = job[s].rows /\ c.copy = job[s].copy /\ c.name = job[s].name
        /\ c.places = job[s].places /\ c.items = job[s].items /\ c.key = job[s].key /\ c.stale = t
    BY <2>1, <2>3 DEF Job
  <2> HIDE DEF c
  <2> QED BY <2>2, <2>4, <2>5
<1>3. job' \in [Requests -> Job]
  <2>1. \A s \in Requests : job'[s] \in Job
    BY <1>1, <1>2, FreeIsTyped
  <2> QED BY <2>1 DEF Overtaken
<1>4. ASSUME NEW s \in Requests
      PROVE  JobShape(job[s])'
  <2>1. CASE s = r
    <3>1. JobShape(Free)
      BY FreeIsTyped
    <3> QED BY <1>1, <2>1, <3>1 DEF JobShape
  <2>2. CASE s # r
    <3>1. JobShape(job[s])
      BY DEF GovernanceInv
    <3> QED BY <1>2, <2>2, <3>1 DEF JobShape
  <2> QED BY <2>1, <2>2
<1> QED BY <1>1, <1>2, <1>3, <1>4

\* What the variables but job have to be shown to keep.
GovernanceTypes ==
  /\ roleKey \in [RoleIds -> RoleKeys \union BuiltIns \union {Nobody}]
  /\ holds \in [RoleIds \union Staff -> SUBSET [item : RoleIds \union Capabilities,
                                                by : 0..MaxRequests]]
  /\ granted \in [RoleIds -> SUBSET SUBSET Capabilities]
  /\ given \in [Staff -> SUBSET RoleIds]
  /\ wall \subseteq Messages /\ posted \subseteq Messages
  /\ accountName \in Names /\ displayName \in [Places -> Names]
  /\ open \subseteq Places /\ reached \subseteq Places

LEMMA PartsMakeGovernanceInv ==
  ASSUME RequestsTypeOK', GovernanceTypes', job' \in [Requests -> Job],
         \A s \in Requests : JobShape(job[s])',
         RowsHold', RolesHold', AssignmentsHold', WallHolds', NamesHold'
  PROVE  GovernanceInv'
BY DEF GovernanceInv, GovernanceTypeOK, GovernanceTypes

LEMMA FinishJobs ==
  ASSUME GovernanceInv, NEW r \in Requests, Finish(r)
  PROVE  /\ job' \in [Requests -> Job] /\ \A s \in Requests : JobShape(job[s])'
         /\ job'[r] = Free
         /\ \A s \in Requests \ {r} : job'[s] = job[s]
BY FinishMoves, JobMovesOne

---------------------------------------------------------------------------
(* Requests that change rows.                                              *)

LEMMA ReadGrantsHolds ==
  ASSUME GovernanceInv, NEW r \in Requests, ReadGrants(r)
  PROVE  GovernanceInv'
<1>1. /\ job[r].phase = "listing" /\ Finish(r) /\ UNCHANGED requestVars
      /\ listed' = [x \in job[r].items |-> Items(holds[x])]
      /\ UNCHANGED <<roleKey, holds, granted, given, wall, posted, personVars>>
  BY DEF ReadGrants
<1>2. /\ job' \in [Requests -> Job] /\ \A s \in Requests : JobShape(job[s])'
      /\ job'[r] = Free
      /\ \A s \in Requests \ {r} : job'[s] = job[s]
  BY <1>1, FinishJobs
<1>3. job[r].items \subseteq RoleIds
  BY <1>1 DEF GovernanceInv, JobShape
<1>4. DOMAIN listed' \subseteq RoleIds /\ RolesAreListedAsGranted'
  BY <1>1, <1>3 DEF GovernanceInv, RolesHold, RolesAreListedAsGranted
<1>5. RolesHold'
  <2> USE DEF GovernanceInv, RolesHold
  <2>1. ASSUME NEW s \in Requests, job'[s].op = "create_role"
        PROVE  /\ granted'[job'[s].owner] = {}
               /\ \A t \in Requests \ {s} : job'[t].op = "create_role" => job'[t].owner # job'[s].owner
    BY <1>1, <1>2, <2>1, FreeIsTyped
  <2>2. ASSUME NEW s \in Requests, job'[s].op = "update_role", job'[s].phase # "begun"
        PROVE  granted'[job'[s].owner] # {}
    BY <1>1, <1>2, <2>2, FreeIsTyped
  <2>3. ASSUME NEW s \in Requests, NEW t \in Requests, RoleLockedBy(s)', RoleLockedBy(t)',
               job'[s].owner = job'[t].owner
        PROVE  s = t
    BY <1>2, <2>3, FreeIsTyped DEF RoleLockedBy
  <2>4. ASSUME NEW s \in Requests, job'[s].op = "update_role", job'[s].phase \in {"seen", "deleted"}
        PROVE  job'[s].rows = holds'[job'[s].owner]
    BY <1>1, <1>2, <2>4, FreeIsTyped
  <2>5. \A x \in RoleIds : Items(holds'[x]) \in granted'[x] \union {{}}
    BY <1>1
  <2> QED BY <1>4, <2>1, <2>2, <2>3, <2>4, <2>5 DEF Items
<1>6. RowsHold'
  BY <1>1, RowsStay
<1>7. AssignmentsHold'
  BY <1>1, <1>2, FreeIsTyped, AssignmentsStay DEF requestVars
<1>8. WallHolds'
  BY <1>1, <1>2, FreeIsTyped, WallStays DEF requestVars
<1>9. NamesHold'
  BY <1>1, <1>2, FreeIsTyped, NamesStay DEF requestVars
<1>10. GovernanceTypes' /\ RequestsTypeOK'
  BY <1>1, RequestsStay DEF GovernanceTypes, GovernanceInv, GovernanceTypeOK, requestVars
<1> QED BY <1>2, <1>5, <1>6, <1>7, <1>8, <1>9, <1>10, PartsMakeGovernanceInv

\* A list is written back: every other list that was read is stale.
LEMMA WriteWallHolds ==
  ASSUME GovernanceInv, NEW r \in Requests, WriteWall(r)
  PROVE  GovernanceInv'
<1>1. /\ job[r].phase = "copied" /\ wall' = NewWall(job[r])
      /\ posted' = IF job[r].op = "announce" THEN posted \union job[r].items ELSE posted \ job[r].items
      /\ job' = Overtaken(r, {"copied"})
      /\ raced' = IF job[r].stale THEN raced \union {"wall"} ELSE raced
      /\ UNCHANGED <<roleKey, holds, granted, given, listed, personVars, ops, requests>>
  BY DEF WriteWall
<1>2. /\ job[r] \in Job /\ JobShape(job[r]) /\ wall \subseteq Messages /\ posted \subseteq Messages
      /\ \A s \in Requests : JobShape(job[s])
  BY DEF GovernanceInv, GovernanceTypeOK
<1>3. job[r].owner = Nobody /\ job[r].items \subseteq Messages /\ job[r].copy \subseteq Messages
  BY <1>1, <1>2 DEF JobShape, Job
<1>4. /\ job' \in [Requests -> Job] /\ \A s \in Requests : JobShape(job[s])'
      /\ job'[r] = Free
      /\ \A s \in Requests \ {r} :
           /\ job'[s].phase = job[s].phase /\ job'[s].op = job[s].op
           /\ job'[s].owner = job[s].owner /\ job'[s].rows = job[s].rows
           /\ job'[s].copy = job[s].copy /\ job'[s].name = job[s].name
           /\ job'[s].places = job[s].places
           /\ job'[s].stale <=> job[s].stale \/ (job[s].phase \in {"copied"} /\ job[s].owner = job[r].owner)
  BY <1>1, OvertakenJobs
<1>5. \A s \in Requests : job'[s].phase = "copied" => job'[s].stale
  BY <1>2, <1>3, <1>4, FreeIsTyped DEF JobShape
<1>6. RowsHold'
  BY <1>1, RowsStay
<1>7. RolesHold'
  BY <1>1, <1>4, FreeIsTyped, RolesStay
<1>8. AssignmentsHold'
  BY <1>1, <1>4, FreeIsTyped, AssignmentsStay
<1>9. NamesHold'
  BY <1>1, <1>4, FreeIsTyped, NamesStay
<1>10. WallHolds'
  <2>1. CASE "wall" \in raced \/ job[r].stale
    BY <1>1, <2>1 DEF WallHolds
  <2>2. CASE "wall" \notin raced /\ ~job[r].stale
    <3>1. wall = posted /\ job[r].copy = wall
      BY <1>1, <2>2 DEF GovernanceInv, WallHolds
    <3>2. wall' = posted'
      BY <1>1, <3>1 DEF NewWall
    <3> QED BY <1>5, <3>2 DEF WallHolds
  <2> QED BY <2>1, <2>2
<1>11. wall' \subseteq Messages /\ posted' \subseteq Messages
  BY <1>1, <1>2, <1>3 DEF NewWall
<1>12. GovernanceTypes' /\ RequestsTypeOK'
  BY <1>1, <1>11, RequestsStay DEF GovernanceTypes, GovernanceInv, GovernanceTypeOK
<1> QED BY <1>4, <1>6, <1>7, <1>8, <1>9, <1>10, <1>12, PartsMakeGovernanceInv

\* A name is saved: it is the account's.
LEMMA RenameAccountHolds ==
  ASSUME GovernanceInv, NEW r \in Requests, RenameAccount(r)
  PROVE  GovernanceInv'
<1>1. /\ job[r].phase = "begun" /\ job[r].op = "profile" /\ accountName' = job[r].name
      /\ raced' = IF \E s \in Requests \ {r} : Renaming(s) THEN raced \union {"profile"} ELSE raced
      /\ UNCHANGED <<roleKey, holds, granted, given, listed, wall, posted, displayName, open, reached,
                     ops, requests>>
  BY DEF RenameAccount
<1>2. job[r] \in Job /\ JobShape(job[r]) /\ job[r].name \in Names /\ job \in [Requests -> Job]
  BY <1>1 DEF GovernanceInv, GovernanceTypeOK, JobShape
<1>3. PICK c \in Job : c = [job[r] EXCEPT !.phase = "renamed"]
  <2>1. [job[r] EXCEPT !.phase = "renamed"] \in Job
    BY <1>2 DEF Job
  <2> QED BY <2>1
<1>4. job' = [job EXCEPT ![r] = c]
  BY <1>2, <1>3 DEF RenameAccount
<1>5. /\ c.phase = "renamed" /\ c.op = "profile" /\ c.name = job[r].name
  BY <1>1, <1>2, <1>3 DEF Job
<1>6. JobMoves(r, c)
  BY <1>2, <1>4, <1>5 DEF JobMoves, JobShape, RoleWrites
<1>7. /\ job' \in [Requests -> Job]
      /\ \A s \in Requests : JobShape(job[s])'
      /\ job'[r] = c
      /\ \A s \in Requests \ {r} : job'[s] = job[s]
  BY <1>6, JobMovesOne
<1>8. RowsHold'
  BY <1>1, RowsStay
<1>9. RolesHold'
  BY <1>1, <1>5, <1>7, RolesStay
<1>10. AssignmentsHold'
  BY <1>1, <1>5, <1>7, AssignmentsStay
<1>11. WallHolds'
  BY <1>1, <1>5, <1>7, WallStays
<1>12. NamesHold'
  <2>1. CASE "profile" \in raced \/ \E s \in Requests \ {r} : Renaming(s)
    BY <1>1, <2>1 DEF NamesHold
  <2>2. CASE \A s \in Requests \ {r} : ~Renaming(s)
    <3>1. \A s \in Requests \ {r} : job'[s].phase \notin {"renamed", "renaming"}
      BY <1>7, <2>2 DEF Renaming
    <3> QED BY <1>1, <1>5, <1>7, <3>1 DEF NamesHold, Renaming
  <2> QED BY <2>1, <2>2
<1>13. GovernanceTypes' /\ RequestsTypeOK'
  BY <1>1, <1>2, RequestsStay DEF GovernanceTypes, GovernanceInv, GovernanceTypeOK
<1> QED BY <1>7, <1>8, <1>9, <1>10, <1>11, <1>12, <1>13, PartsMakeGovernanceInv

\* The workspaces it is for are listed; when there are none, the request is over.
LEMMA ListPlacesHolds ==
  ASSUME GovernanceInv, NEW r \in Requests, ListPlaces(r)
  PROVE  GovernanceInv'
<1>1. /\ job[r].phase = "renamed" /\ reached' = open /\ raced' = raced
      /\ job' = [job EXCEPT ![r] = IF open = {} THEN Free
                                   ELSE [job[r] EXCEPT !.phase = "renaming", !.places = open]]
      /\ UNCHANGED <<roleKey, holds, granted, given, listed, wall, posted, accountName, displayName, open>>
      /\ ops' = ops /\ requests' = requests
  BY DEF ListPlaces, requestVars
<1>2. /\ job[r] \in Job /\ JobShape(job[r]) /\ job[r].name \in Names /\ job[r].op = "profile"
      /\ open \subseteq Places
  BY <1>1 DEF GovernanceInv, GovernanceTypeOK, JobShape
<1>3. PICK c \in Job : c = IF open = {} THEN Free
                           ELSE [job[r] EXCEPT !.phase = "renaming", !.places = open]
  <2>1. [job[r] EXCEPT !.phase = "renaming", !.places = open] \in Job
    BY <1>2 DEF Job
  <2> QED BY <2>1, FreeIsTyped
<1>4. job' = [job EXCEPT ![r] = c]
  BY <1>1, <1>3
<1>5. \/ c = Free /\ open = {}
      \/ c.phase = "renaming" /\ c.op = "profile" /\ c.name = job[r].name /\ c.places = open
  BY <1>2, <1>3 DEF Job
<1>6. JobShape(c)
  BY <1>2, <1>5, FreeIsTyped DEF JobShape, RoleWrites
<1>7. /\ job' \in [Requests -> Job]
      /\ \A s \in Requests : JobShape(job[s])'
      /\ job'[r] = c
      /\ \A s \in Requests \ {r} : job'[s] = job[s]
  BY <1>4, <1>6, JobMovesOne DEF JobMoves
<1>8. c.op \in {"none", "profile"} /\ c.phase \in {"idle", "renaming"}
  BY <1>5, FreeIsTyped
<1>9. RowsHold'
  BY <1>1, RowsStay
<1>10. RolesHold'
  BY <1>1, <1>7, <1>8, RolesStay
<1>11. AssignmentsHold'
  BY <1>1, <1>7, <1>8, AssignmentsStay
<1>12. WallHolds'
  BY <1>1, <1>7, <1>8, WallStays
<1>13. NamesHold'
  <2>1. CASE "profile" \in raced
    BY <1>1, <2>1 DEF NamesHold
  <2>2. CASE "profile" \notin raced
    <3>1. \A s \in Requests \ {r} : job'[s].phase \notin {"renamed", "renaming"}
      BY <1>1, <1>7, <2>2 DEF GovernanceInv, NamesHold, Renaming
    <3>2. accountName = job[r].name
      BY <1>1, <2>2 DEF GovernanceInv, NamesHold, Renaming
    <3>3. CASE c = Free /\ open = {}
      BY <1>1, <1>7, <3>1, <3>3, FreeIsTyped DEF NamesHold, Renaming
    <3>4. CASE c.phase = "renaming" /\ c.name = job[r].name /\ c.places = open
      BY <1>1, <1>7, <3>1, <3>2, <3>4 DEF NamesHold, Renaming
    <3> QED BY <1>5, <3>3, <3>4
  <2> QED BY <2>1, <2>2
<1>14. GovernanceTypes' /\ RequestsTypeOK'
  BY <1>1, <1>2, RequestsStay DEF GovernanceTypes, GovernanceInv, GovernanceTypeOK
<1> QED BY <1>7, <1>9, <1>10, <1>11, <1>12, <1>13, <1>14, PartsMakeGovernanceInv

\* One more workspace follows; with the last one the request is over.
LEMMA RenameActorHolds ==
  ASSUME GovernanceInv, NEW r \in Requests, RenameActor(r)
  PROVE  GovernanceInv'
<1>1. PICK p \in job[r].places :
        /\ displayName' = [displayName EXCEPT ![p] = job[r].name]
        /\ job' = [job EXCEPT ![r] = IF job[r].places = {p} THEN Free
                                     ELSE [job[r] EXCEPT !.places = job[r].places \ {p}]]
  BY DEF RenameActor
<1>2. /\ job[r].phase = "renaming" /\ raced' = raced /\ ops' = ops /\ requests' = requests
      /\ UNCHANGED <<roleKey, holds, granted, given, listed, wall, posted, accountName, open, reached>>
  BY DEF RenameActor, requestVars
<1>3. /\ job[r] \in Job /\ JobShape(job[r]) /\ job[r].name \in Names /\ job[r].places \subseteq Places
      /\ displayName \in [Places -> Names] /\ job[r].op = "profile"
  BY <1>2 DEF GovernanceInv, GovernanceTypeOK, JobShape, Job
<1>4. PICK left \in SUBSET Places : left = job[r].places \ {p}
  BY <1>3
<1>5. PICK c \in Job : c = IF job[r].places = {p} THEN Free ELSE [job[r] EXCEPT !.places = left]
  <2>1. [job[r] EXCEPT !.places = left] \in Job
    BY <1>3 DEF Job
  <2> QED BY <2>1, FreeIsTyped
<1>6. job' = [job EXCEPT ![r] = c]
  <2>1. job[r].places = {p} => c = Free
    BY <1>5
  <2>2. job[r].places # {p} => c = [job[r] EXCEPT !.places = left]
    BY <1>5
  <2>3. CASE job[r].places = {p}
    BY <1>1, <2>1, <2>3
  <2>4. CASE job[r].places # {p}
    BY <1>1, <1>4, <2>2, <2>4
  <2> QED BY <2>3, <2>4
<1>7. \/ c = Free /\ left = {}
      \/ c.phase = "renaming" /\ c.op = "profile" /\ c.name = job[r].name /\ c.places = left
  BY <1>2, <1>3, <1>4, <1>5 DEF Job
<1>8. JobShape(c)
  BY <1>3, <1>7, FreeIsTyped DEF JobShape, RoleWrites
<1>9. /\ job' \in [Requests -> Job]
      /\ \A s \in Requests : JobShape(job[s])'
      /\ job'[r] = c
      /\ \A s \in Requests \ {r} : job'[s] = job[s]
  BY <1>6, <1>8, JobMovesOne DEF JobMoves
<1>10. c.op \in {"none", "profile"} /\ c.phase \in {"idle", "renaming"}
  BY <1>7, FreeIsTyped
<1>11. RowsHold'
  BY <1>2, RowsStay
<1>12. RolesHold'
  BY <1>2, <1>9, <1>10, RolesStay
<1>13. AssignmentsHold'
  BY <1>2, <1>9, <1>10, AssignmentsStay
<1>14. WallHolds'
  BY <1>2, <1>9, <1>10, WallStays
<1>15. /\ displayName' \in [Places -> Names] /\ displayName'[p] = job[r].name
       /\ \A o \in Places \ {p} : displayName'[o] = displayName[o]
  BY <1>1, <1>3
<1>16. NamesHold'
  <2>1. CASE "profile" \in raced
    BY <1>2, <2>1 DEF NamesHold
  <2>2. CASE "profile" \notin raced
    <3>1. \A s \in Requests \ {r} : job[s].phase \notin {"renamed", "renaming"}
      BY <1>2, <2>2 DEF GovernanceInv, NamesHold, Renaming
    <3>2. accountName = job[r].name /\ \A o \in reached \ job[r].places : displayName[o] = accountName
      BY <1>2, <2>2 DEF GovernanceInv, NamesHold, Renaming
    <3>3. \A o \in reached \ left : displayName'[o] = accountName'
      BY <1>2, <1>3, <1>4, <1>15, <3>2 DEF GovernanceInv, GovernanceTypeOK
    <3>4. CASE c = Free /\ left = {}
      <4>1. \A s \in Requests : job'[s].phase \notin {"renamed", "renaming"}
        BY <1>9, <3>1, <3>4, FreeIsTyped
      <4> QED BY <1>2, <3>3, <3>4, <4>1 DEF NamesHold, Renaming
    <3>5. CASE c.phase = "renaming" /\ c.name = job[r].name /\ c.places = left
      <4>1. \A s \in Requests \ {r} : job'[s].phase \notin {"renamed", "renaming"}
        BY <1>9, <3>1
      <4> QED BY <1>2, <1>9, <3>2, <3>3, <3>5, <4>1 DEF NamesHold, Renaming
    <3> QED BY <1>7, <3>4, <3>5
  <2> QED BY <2>1, <2>2
<1>17. GovernanceTypes' /\ RequestsTypeOK'
  BY <1>2, <1>15, RequestsStay DEF GovernanceTypes, GovernanceInv, GovernanceTypeOK
<1> QED BY <1>9, <1>11, <1>12, <1>13, <1>14, <1>16, <1>17, PartsMakeGovernanceInv

LEMMA FailToRenameHolds ==
  ASSUME GovernanceInv, NEW r \in Requests, FailToRename(r)
  PROVE  GovernanceInv'
<1>1. /\ Finish(r) /\ raced' = raced \union {"profile"} /\ ops' = ops /\ requests' = requests
      /\ UNCHANGED <<roleKey, holds, granted, given, listed, wall, posted, personVars>>
  BY DEF FailToRename
<1>2. /\ job' \in [Requests -> Job] /\ \A s \in Requests : JobShape(job[s])'
      /\ job'[r] = Free
      /\ \A s \in Requests \ {r} : job'[s] = job[s]
  BY <1>1, FinishJobs
<1>3. RowsHold'
  BY <1>1, RowsStay
<1>4. RolesHold'
  BY <1>1, <1>2, FreeIsTyped, RolesStay
<1>5. AssignmentsHold'
  BY <1>1, <1>2, FreeIsTyped, AssignmentsStay
<1>6. WallHolds'
  BY <1>1, <1>2, FreeIsTyped, WallStays
<1>7. NamesHold'
  BY <1>1 DEF NamesHold
<1>8. GovernanceTypes' /\ RequestsTypeOK'
  BY <1>1, RequestsStay DEF GovernanceTypes, GovernanceInv, GovernanceTypeOK
<1> QED BY <1>2, <1>3, <1>4, <1>5, <1>6, <1>7, <1>8, PartsMakeGovernanceInv

LEMMA ToggleHolds ==
  ASSUME GovernanceInv, NEW p \in Places, Toggle(p)
  PROVE  GovernanceInv'
<1>1. /\ UNCHANGED <<roleKey, holds, granted, given, listed, wall, posted, accountName, displayName,
                     reached, job, raced, ops, requests>>
      /\ open' \subseteq Places
  BY DEF Toggle, requestVars, GovernanceInv, GovernanceTypeOK
<1>2. RowsHold' /\ RolesHold' /\ AssignmentsHold' /\ WallHolds'
  BY <1>1, RowsStay, RolesStay, AssignmentsStay, WallStays
<1>3. NamesHold'
  BY <1>1 DEF GovernanceInv, NamesHold, Renaming
<1>4. GovernanceTypes' /\ RequestsTypeOK' /\ job' \in [Requests -> Job]
  BY <1>1, RequestsStay DEF GovernanceTypes, GovernanceInv, GovernanceTypeOK
<1>5. \A s \in Requests : JobShape(job[s])'
  BY <1>1 DEF GovernanceInv, JobShape
<1> QED BY <1>2, <1>3, <1>4, <1>5, PartsMakeGovernanceInv

\* New rows stand for the items they are made from.
RowsFor(items, n) == {[item |-> i, by |-> n] : i \in items}

LEMMA NewRows ==
  ASSUME NEW items, items \subseteq RoleIds \union Capabilities, NEW n \in 0..MaxRequests, NEW rows,
         rows = RowsFor(items, n)
  PROVE  /\ Items(rows) = items
         /\ rows \in SUBSET [item : RoleIds \union Capabilities, by : 0..MaxRequests]
<1>1. ASSUME NEW i \in items
      PROVE  i \in Items(rows)
  <2>1. PICK row \in rows : row = [item |-> i, by |-> n]
    BY DEF RowsFor
  <2>2. row.item = i
    BY <2>1
  <2> QED BY <2>2 DEF Items
<1>2. ASSUME NEW row \in rows
      PROVE  row \in [item : RoleIds \union Capabilities, by : 0..MaxRequests] /\ row.item \in items
  BY <1>2 DEF RowsFor
<1> QED BY <1>1, <1>2 DEF Items

\* The role and its grants come together; nobody has worked on it before.
LEMMA CreateRoleHolds ==
  ASSUME GovernanceInv, NEW r \in Requests, CreateRole(r)
  PROVE  GovernanceInv'
<1>1. /\ job[r].phase = "found" /\ job[r].op = "create_role" /\ Finish(r) /\ UNCHANGED requestVars
      /\ UNCHANGED <<given, listed, wall, posted, personVars>>
  BY DEF CreateRole
<1>2. CASE UNCHANGED <<roleKey, holds, granted>>
  BY <1>1, <1>2, FinishHolds DEF Renaming
<1>3. CASE ~UNCHANGED <<roleKey, holds, granted>>
  <2>1. /\ job[r] \in Job /\ JobShape(job[r])
        /\ granted \in [RoleIds -> SUBSET SUBSET Capabilities]
        /\ holds \in [RoleIds \union Staff -> SUBSET [item : RoleIds \union Capabilities,
                                                      by : 0..MaxRequests]]
        /\ roleKey \in [RoleIds -> RoleKeys \union BuiltIns \union {Nobody}]
    BY DEF GovernanceInv, GovernanceTypeOK
  <2>2. PICK x \in RoleIds, k \in RoleKeys, caps \in SUBSET Capabilities, n \in 0..MaxRequests :
          x = job[r].owner /\ k = job[r].key /\ caps = job[r].items /\ n = job[r].number
    BY <1>1, <2>1 DEF JobShape, RoleWrites, Job
  <2>3. /\ roleKey' = [roleKey EXCEPT ![x] = k]
        /\ holds' = [holds EXCEPT ![x] = RowsFor(caps, n)]
        /\ granted' = [granted EXCEPT ![x] = granted[x] \union {caps}]
    BY <1>3, <2>2 DEF CreateRole, RowsFor
  <2>4. /\ granted[x] = {}
        /\ \A s \in Requests \ {r} : job[s].op = "create_role" => job[s].owner # x
    BY <1>1, <2>2 DEF GovernanceInv, RolesHold
  <2>5. PICK rows : rows = RowsFor(caps, n)
    OBVIOUS
  <2>6. Items(rows) = caps /\ rows \in SUBSET [item : RoleIds \union Capabilities, by : 0..MaxRequests]
    <3>1. caps \subseteq RoleIds \union Capabilities
      OBVIOUS
    <3> QED BY <2>5, <3>1, NewRows
  <2>7. /\ holds'[x] = rows
        /\ \A o \in (RoleIds \union Staff) \ {x} : holds'[o] = holds[o]
        /\ holds' \in [RoleIds \union Staff -> SUBSET [item : RoleIds \union Capabilities,
                                                       by : 0..MaxRequests]]
    BY <2>1, <2>3, <2>5, <2>6
  <2>8. /\ granted'[x] = {caps} /\ caps \in granted'[x]
        /\ \A y \in RoleIds \ {x} : granted'[y] = granted[y]
        /\ \A y \in RoleIds : granted[y] \subseteq granted'[y]
        /\ granted' \in [RoleIds -> SUBSET SUBSET Capabilities]
    BY <2>1, <2>3, <2>4
  <2>9. /\ roleKey' \in [RoleIds -> RoleKeys \union BuiltIns \union {Nobody}]
        /\ \A y \in RoleIds \ {x} : roleKey'[y] = roleKey[y]
    BY <2>1, <2>3
  <2>10. x \notin Staff
    BY GovernanceAssumption
  <2>11. /\ job' \in [Requests -> Job] /\ \A s \in Requests : JobShape(job[s])'
         /\ job'[r] = Free
         /\ \A s \in Requests \ {r} : job'[s] = job[s]
    BY <1>1, FinishJobs
  <2>12. RowsHold'
    <3> USE DEF GovernanceInv, RowsHold
    <3>1. \A y \in RoleIds : Exists(y)' => granted'[y] # {}
      BY <2>8, <2>9 DEF Exists
    <3>2. ASSUME NEW y \in RoleIds
          PROVE  Items(holds'[y]) \subseteq Capabilities
      BY <2>6, <2>7
    <3>3. \A m \in Staff : holds'[m] = holds[m]
      BY <2>7, <2>10
    <3>4. \A m \in Staff : \A y \in given'[m] : granted'[y] # {}
      BY <1>1, <2>8 DEF GovernanceTypeOK
    <3> QED BY <3>1, <3>2, <3>3, <3>4 DEF Items
  <2>13. RolesHold'
    <3> USE DEF GovernanceInv, RolesHold
    <3>1. ASSUME NEW s \in Requests, job'[s].op = "create_role"
          PROVE  /\ granted'[job'[s].owner] = {}
                 /\ \A t \in Requests \ {s} : job'[t].op = "create_role" => job'[t].owner # job'[s].owner
      <4>1. s # r
        BY <2>11, <3>1, FreeIsTyped
      <4>2. job[s].owner \in RoleIds \ {x}
        BY <2>4, <2>11, <3>1, <4>1 DEF JobShape, RoleWrites
      <4> QED BY <2>8, <2>11, <3>1, <4>1, <4>2, FreeIsTyped
    <3>2. ASSUME NEW s \in Requests, job'[s].op = "update_role", job'[s].phase # "begun"
          PROVE  granted'[job'[s].owner] # {} /\ job'[s].owner \in RoleIds \ {x} /\ job'[s] = job[s]
      <4>1. s # r
        BY <2>11, <3>2, FreeIsTyped
      <4>2. job[s].owner \in RoleIds \ {x} /\ granted[job[s].owner] # {}
        BY <2>4, <2>11, <3>2, <4>1 DEF JobShape, RoleWrites
      <4> QED BY <2>8, <2>11, <4>1, <4>2
    <3>3. ASSUME NEW s \in Requests, NEW t \in Requests, RoleLockedBy(s)', RoleLockedBy(t)',
                 job'[s].owner = job'[t].owner
          PROVE  s = t
      BY <2>11, <3>3, FreeIsTyped DEF RoleLockedBy
    <3>4. ASSUME NEW s \in Requests, job'[s].op = "update_role", job'[s].phase \in {"seen", "deleted"}
          PROVE  job'[s].rows = holds'[job'[s].owner]
      BY <2>7, <3>2, <3>4
    <3>5. ASSUME NEW y \in RoleIds
          PROVE  Items(holds'[y]) \in granted'[y] \union {{}}
      BY <2>6, <2>7, <2>8
    <3>6. DOMAIN listed' \subseteq RoleIds /\ RolesAreListedAsGranted'
      BY <1>1, <2>8 DEF RolesAreListedAsGranted
    <3> QED BY <3>1, <3>2, <3>3, <3>4, <3>5, <3>6 DEF Items
  <2>14. AssignmentsHold'
    <3>1. ASSUME NEW s \in Requests, job'[s].op = "assign", job'[s].phase \in {"seen", "deleted"},
                 ~job'[s].stale
          PROVE  holds'[job'[s].owner] \subseteq job'[s].rows
      <4>1. s # r
        BY <2>11, <3>1, FreeIsTyped
      <4>2. job[s].owner \in Staff
        BY <2>11, <3>1, <4>1 DEF GovernanceInv, JobShape
      <4>3. holds'[job[s].owner] = holds[job[s].owner]
        BY <2>7, <2>10, <4>2
      <4> QED BY <2>11, <3>1, <4>1, <4>3 DEF GovernanceInv, AssignmentsHold
    <3>2. ASSUME NEW m \in Staff
          PROVE  {y \in given'[m] : Exists(y)'} = {y \in given[m] : Exists(y)}
      <4>1. given'[m] = given[m] /\ given[m] \subseteq RoleIds
        BY <1>1 DEF GovernanceInv, GovernanceTypeOK
      <4>2. x \notin given[m]
        BY <2>4 DEF GovernanceInv, RowsHold
      <4> QED BY <2>9, <4>1, <4>2 DEF Exists
    <3>3. \A m \in Staff : holds'[m] = holds[m]
      BY <2>7, <2>10
    <3>4. RolesComeFromOneRequest'
      BY <1>1, <3>2, <3>3 DEF GovernanceInv, AssignmentsHold, RolesComeFromOneRequest, Items, requestVars
    <3> QED BY <3>1, <3>4 DEF AssignmentsHold
  <2>15. WallHolds'
    BY <1>1, <2>11, FreeIsTyped, WallStays DEF requestVars
  <2>16. NamesHold'
    BY <1>1, <2>11, FreeIsTyped, NamesStay DEF requestVars
  <2>17. GovernanceTypes' /\ RequestsTypeOK'
    BY <1>1, <2>7, <2>8, <2>9, RequestsStay DEF GovernanceTypes, GovernanceInv, GovernanceTypeOK, requestVars
  <2> QED BY <2>11, <2>12, <2>13, <2>14, <2>15, <2>16, <2>17, PartsMakeGovernanceInv
<1> QED BY <1>2, <1>3

\* The role, its grants and its assignments go together.
LEMMA DeleteRoleHolds ==
  ASSUME GovernanceInv, NEW r \in Requests, DeleteRole(r)
  PROVE  GovernanceInv'
<1>1. /\ job[r].phase = "found" /\ job[r].op = "delete_role" /\ Finish(r) /\ UNCHANGED requestVars
      /\ UNCHANGED <<granted, given, listed, wall, posted, personVars>>
  BY DEF DeleteRole
<1>2. /\ job[r] \in Job /\ JobShape(job[r])
      /\ holds \in [RoleIds \union Staff -> SUBSET [item : RoleIds \union Capabilities,
                                                    by : 0..MaxRequests]]
      /\ roleKey \in [RoleIds -> RoleKeys \union BuiltIns \union {Nobody}]
      /\ given \in [Staff -> SUBSET RoleIds]
  BY DEF GovernanceInv, GovernanceTypeOK
<1>3. PICK x \in RoleIds : x = job[r].owner
  BY <1>1, <1>2 DEF JobShape, RoleWrites
<1>4. /\ roleKey' = [roleKey EXCEPT ![x] = Nobody]
      /\ holds' = [o \in DOMAIN holds |-> IF o = x THEN {} ELSE {row \in holds[o] : row.item # x}]
      /\ \A s \in Requests \ {r} : ~(RoleLockedBy(s) /\ job[s].owner = x)
  BY <1>3 DEF DeleteRole
<1>5. x \notin Staff /\ x \notin Capabilities
  BY GovernanceAssumption
<1>6. /\ holds'[x] = {}
      /\ \A o \in (RoleIds \union Staff) \ {x} : holds'[o] = {row \in holds[o] : row.item # x}
      /\ holds' \in [RoleIds \union Staff -> SUBSET [item : RoleIds \union Capabilities,
                                                     by : 0..MaxRequests]]
  BY <1>2, <1>4
<1>7. ASSUME NEW y \in RoleIds \ {x}
      PROVE  holds'[y] = holds[y]
  <2>1. Items(holds[y]) \subseteq Capabilities
    BY DEF GovernanceInv, RowsHold
  <2>2. \A row \in holds[y] : row.item # x
    BY <1>5, <2>1 DEF Items
  <2> QED BY <1>6, <2>2
<1>8. ASSUME NEW m \in Staff
      PROVE  holds'[m] \subseteq holds[m] /\ Items(holds'[m]) = Items(holds[m]) \ {x}
  BY <1>5, <1>6 DEF Items
<1>9. /\ roleKey'[x] = Nobody
      /\ \A y \in RoleIds \ {x} : roleKey'[y] = roleKey[y]
      /\ roleKey' \in [RoleIds -> RoleKeys \union BuiltIns \union {Nobody}]
  BY <1>2, <1>4
<1>10. /\ job' \in [Requests -> Job] /\ \A s \in Requests : JobShape(job[s])'
       /\ job'[r] = Free
       /\ \A s \in Requests \ {r} : job'[s] = job[s]
  BY <1>1, FinishJobs
<1>11. Items(holds'[x]) = {}
  BY <1>6 DEF Items
<1>12. RowsHold'
  <2> USE DEF GovernanceInv, RowsHold
  <2>1. \A y \in RoleIds : Exists(y)' => granted'[y] # {}
    BY <1>1, <1>9 DEF Exists
  <2>2. ASSUME NEW y \in RoleIds
        PROVE  Items(holds'[y]) \subseteq Capabilities
    BY <1>7, <1>11
  <2>3. ASSUME NEW m \in Staff
        PROVE  Items(holds'[m]) \subseteq RoleIds
    BY <1>8
  <2>4. \A m \in Staff : \A y \in given'[m] : granted'[y] # {}
    BY <1>1
  <2> QED BY <2>1, <2>2, <2>3, <2>4 DEF Items
<1>13. RolesHold'
  <2> USE DEF GovernanceInv, RolesHold
  <2>1. ASSUME NEW s \in Requests, job'[s].op = "create_role"
        PROVE  /\ granted'[job'[s].owner] = {}
               /\ \A t \in Requests \ {s} : job'[t].op = "create_role" => job'[t].owner # job'[s].owner
    BY <1>1, <1>10, <2>1, FreeIsTyped
  <2>2. ASSUME NEW s \in Requests, job'[s].op = "update_role", job'[s].phase # "begun"
        PROVE  granted'[job'[s].owner] # {}
    BY <1>1, <1>10, <2>2, FreeIsTyped
  <2>3. ASSUME NEW s \in Requests, NEW t \in Requests, RoleLockedBy(s)', RoleLockedBy(t)',
               job'[s].owner = job'[t].owner
        PROVE  s = t
    BY <1>10, <2>3, FreeIsTyped DEF RoleLockedBy
  <2>4. ASSUME NEW s \in Requests, job'[s].op = "update_role", job'[s].phase \in {"seen", "deleted"}
        PROVE  job'[s].rows = holds'[job'[s].owner]
    <3>1. s # r /\ job'[s] = job[s]
      BY <1>10, <2>4, FreeIsTyped
    <3>2. job[s].owner \in RoleIds \ {x}
      BY <1>4, <2>4, <3>1 DEF RoleLockedBy, JobShape, RoleWrites
    <3> QED BY <1>7, <2>4, <3>1, <3>2
  <2>5. ASSUME NEW y \in RoleIds
        PROVE  Items(holds'[y]) \in granted'[y] \union {{}}
    BY <1>1, <1>7, <1>11
  <2>6. DOMAIN listed' \subseteq RoleIds /\ RolesAreListedAsGranted'
    BY <1>1 DEF RolesAreListedAsGranted
  <2> QED BY <2>1, <2>2, <2>3, <2>4, <2>5, <2>6 DEF Items
<1>14. AssignmentsHold'
  <2>1. ASSUME NEW s \in Requests, job'[s].op = "assign", job'[s].phase \in {"seen", "deleted"},
               ~job'[s].stale
        PROVE  holds'[job'[s].owner] \subseteq job'[s].rows
    <3>1. s # r /\ job'[s] = job[s]
      BY <1>10, <2>1, FreeIsTyped
    <3>2. job[s].owner \in Staff
      BY <2>1, <3>1 DEF GovernanceInv, JobShape
    <3>3. holds'[job[s].owner] \subseteq holds[job[s].owner]
      BY <1>8, <3>2
    <3> QED BY <2>1, <3>1, <3>3 DEF GovernanceInv, AssignmentsHold
  <2>2. ASSUME NEW m \in Staff
        PROVE  {y \in given'[m] : Exists(y)'} = {y \in given[m] : Exists(y)} \ {x}
    BY <1>1, <1>2, <1>9 DEF Exists
  <2>3. RolesComeFromOneRequest'
    BY <1>1, <1>8, <2>2 DEF GovernanceInv, AssignmentsHold, RolesComeFromOneRequest, Items, requestVars
  <2> QED BY <2>1, <2>3 DEF AssignmentsHold
<1>15. WallHolds'
  BY <1>1, <1>10, FreeIsTyped, WallStays DEF requestVars
<1>16. NamesHold'
  BY <1>1, <1>10, FreeIsTyped, NamesStay DEF requestVars
<1>17. GovernanceTypes' /\ RequestsTypeOK'
  BY <1>1, <1>6, <1>9, RequestsStay DEF GovernanceTypes, GovernanceInv, GovernanceTypeOK, requestVars
<1> QED BY <1>10, <1>12, <1>13, <1>14, <1>15, <1>16, <1>17, PartsMakeGovernanceInv

\* The rows clash with others, and it is all taken back.
TakesBack(r) == Finish(r) /\ UNCHANGED <<holds, granted, given, raced>>

\* New grants replace all there were, because the row of the role is locked.
LEMMA InsertGrantsHolds ==
  ASSUME GovernanceInv, NEW r \in Requests, Insert(r), job[r].op = "update_role", ~TakesBack(r)
  PROVE  GovernanceInv'
<1>1. /\ job[r] \in Job /\ JobShape(job[r]) /\ job[r].phase = "deleted" /\ job \in [Requests -> Job]
      /\ granted \in [RoleIds -> SUBSET SUBSET Capabilities]
      /\ holds \in [RoleIds \union Staff -> SUBSET [item : RoleIds \union Capabilities,
                                                    by : 0..MaxRequests]]
  BY DEF GovernanceInv, GovernanceTypeOK, Insert
<1>2. PICK x \in RoleIds, caps \in SUBSET Capabilities, n \in 0..MaxRequests :
        x = job[r].owner /\ caps = job[r].items /\ n = job[r].number
  BY <1>1 DEF JobShape, RoleWrites, Job
<1>3. PICK rows : rows = RowsFor(caps, n)
  OBVIOUS
<1>4. Items(rows) = caps /\ rows \in SUBSET [item : RoleIds \union Capabilities, by : 0..MaxRequests]
  <2>1. caps \subseteq RoleIds \union Capabilities
    OBVIOUS
  <2> QED BY <1>3, <2>1, NewRows
<1>5. /\ holds' = [holds EXCEPT ![x] = (holds[x] \ job[r].rows) \union rows]
      /\ granted' = [granted EXCEPT ![x] = granted[x] \union {caps}]
      /\ given' = given
      /\ raced' = IF job[r].stale THEN raced \union {x} ELSE raced \ {x}
      /\ job' = Overtaken(r, {"seen", "deleted"})
      /\ UNCHANGED <<roleKey, listed, wall, posted, personVars, ops, requests>>
  BY <1>2, <1>3 DEF Insert, TakesBack, RowsFor
<1>6. job[r].rows = holds[x] /\ granted[x] # {}
  BY <1>1, <1>2 DEF GovernanceInv, RolesHold
<1>7. /\ holds'[x] = rows
      /\ \A o \in (RoleIds \union Staff) \ {x} : holds'[o] = holds[o]
      /\ holds' \in [RoleIds \union Staff -> SUBSET [item : RoleIds \union Capabilities,
                                                     by : 0..MaxRequests]]
  <2>1. holds' = [holds EXCEPT ![x] = rows]
    BY <1>5, <1>6
  <2> QED BY <1>1, <1>4, <2>1
<1>8. /\ caps \in granted'[x]
      /\ \A y \in RoleIds \ {x} : granted'[y] = granted[y]
      /\ \A y \in RoleIds : granted[y] \subseteq granted'[y]
      /\ granted' \in [RoleIds -> SUBSET SUBSET Capabilities]
  BY <1>1, <1>5
<1>9. x \notin Staff /\ x \notin {"wall", "profile"}
  BY GovernanceAssumption, AdministrationAssumption
<1>10. /\ \A m \in Staff : m \in raced <=> m \in raced'
       /\ "wall" \in raced => "wall" \in raced'
       /\ "profile" \in raced => "profile" \in raced'
  BY <1>5, <1>9
<1>11. /\ job' \in [Requests -> Job] /\ \A s \in Requests : JobShape(job[s])'
       /\ job'[r] = Free
       /\ \A s \in Requests \ {r} :
            /\ job'[s].phase = job[s].phase /\ job'[s].op = job[s].op
            /\ job'[s].owner = job[s].owner /\ job'[s].rows = job[s].rows
            /\ job'[s].copy = job[s].copy /\ job'[s].name = job[s].name
            /\ job'[s].places = job[s].places
            /\ job'[s].stale <=> job[s].stale \/ (job[s].phase \in {"seen", "deleted"} /\ job[s].owner = job[r].owner)
  BY <1>5, OvertakenJobs
<1>12. \A m \in Staff : holds'[m] = holds[m]
  BY <1>7, <1>9
<1>13. RowsHold'
  <2> USE DEF GovernanceInv, RowsHold
  <2>1. \A y \in RoleIds : Exists(y)' => granted'[y] # {}
    BY <1>5, <1>8 DEF Exists
  <2>2. ASSUME NEW y \in RoleIds
        PROVE  Items(holds'[y]) \subseteq Capabilities
    BY <1>4, <1>7
  <2>3. \A m \in Staff : \A y \in given'[m] : granted'[y] # {}
    BY <1>5, <1>8 DEF GovernanceTypeOK
  <2> QED BY <1>12, <2>1, <2>2, <2>3 DEF Items
<1>14. RolesHold'
  <2> USE DEF GovernanceInv, RolesHold
  <2>1. ASSUME NEW s \in Requests, job'[s].op = "create_role"
        PROVE  /\ granted'[job'[s].owner] = {}
               /\ \A t \in Requests \ {s} : job'[t].op = "create_role" => job'[t].owner # job'[s].owner
    <3>1. s # r /\ job[s].op = "create_role" /\ job'[s].owner = job[s].owner
      BY <1>11, <2>1, FreeIsTyped
    <3>2. granted[job[s].owner] = {} /\ job[s].owner \in RoleIds \ {x}
      BY <1>6, <3>1 DEF JobShape, RoleWrites
    <3>3. \A t \in Requests \ {s} : job'[t].op = "create_role" =>
            job[t].op = "create_role" /\ job'[t].owner = job[t].owner
      BY <1>11, FreeIsTyped
    <3> QED BY <1>8, <3>1, <3>2, <3>3
  <2>2. ASSUME NEW s \in Requests, job'[s].op = "update_role", job'[s].phase # "begun"
        PROVE  granted'[job'[s].owner] # {}
    <3>1. s # r /\ job[s].op = "update_role" /\ job[s].phase # "begun" /\ job'[s].owner = job[s].owner
      BY <1>11, <2>2, FreeIsTyped
    <3>2. granted[job[s].owner] # {} /\ job[s].owner \in RoleIds
      BY <3>1 DEF JobShape, RoleWrites
    <3> QED BY <1>8, <3>1, <3>2
  <2>3. ASSUME NEW s \in Requests, RoleLockedBy(s)'
        PROVE  RoleLockedBy(s) /\ s # r /\ job'[s].owner = job[s].owner
    BY <1>11, <2>3, FreeIsTyped DEF RoleLockedBy
  <2>4. ASSUME NEW s \in Requests, NEW t \in Requests, RoleLockedBy(s)', RoleLockedBy(t)',
               job'[s].owner = job'[t].owner
        PROVE  s = t
    BY <2>3, <2>4
  <2>5. ASSUME NEW s \in Requests, job'[s].op = "update_role", job'[s].phase \in {"seen", "deleted"}
        PROVE  job'[s].rows = holds'[job'[s].owner]
    <3>1. /\ s # r /\ job[s].op = "update_role" /\ job[s].phase \in {"seen", "deleted"}
          /\ job'[s].owner = job[s].owner /\ job'[s].rows = job[s].rows
      BY <1>11, <2>5, FreeIsTyped
    <3>2. job[s].owner \in RoleIds \ {x}
      BY <1>1, <1>2, <3>1 DEF RoleLockedBy, JobShape, RoleWrites
    <3> QED BY <1>7, <3>1, <3>2
  <2>6. ASSUME NEW y \in RoleIds
        PROVE  Items(holds'[y]) \in granted'[y] \union {{}}
    BY <1>4, <1>7, <1>8
  <2>7. DOMAIN listed' \subseteq RoleIds /\ RolesAreListedAsGranted'
    BY <1>5, <1>8 DEF RolesAreListedAsGranted
  <2> QED BY <2>1, <2>2, <2>4, <2>5, <2>6, <2>7 DEF Items
<1>15. AssignmentsHold'
  <2>1. ASSUME NEW s \in Requests, job'[s].op = "assign", job'[s].phase \in {"seen", "deleted"},
               ~job'[s].stale
        PROVE  holds'[job'[s].owner] \subseteq job'[s].rows
    <3>1. /\ s # r /\ job[s].op = "assign" /\ job[s].phase \in {"seen", "deleted"} /\ ~job[s].stale
          /\ job'[s].owner = job[s].owner /\ job'[s].rows = job[s].rows
      BY <1>11, <2>1, FreeIsTyped
    <3>2. job[s].owner \in Staff
      BY <3>1 DEF GovernanceInv, JobShape
    <3> QED BY <1>12, <3>1, <3>2 DEF GovernanceInv, AssignmentsHold
  <2>2. RolesComeFromOneRequest'
    BY <1>5, <1>10, <1>12 DEF GovernanceInv, AssignmentsHold, RolesComeFromOneRequest, Exists, Items
  <2> QED BY <2>1, <2>2 DEF AssignmentsHold
<1>16. WallHolds'
  BY <1>5, <1>10, <1>11, FreeIsTyped, WallStays
<1>17. NamesHold'
  BY <1>1, <1>5, <1>10, <1>11, FreeIsTyped, NamesStay
<1>18. GovernanceTypes' /\ RequestsTypeOK'
  BY <1>5, <1>7, <1>8, RequestsStay DEF GovernanceTypes, GovernanceInv, GovernanceTypeOK
<1> QED BY <1>11, <1>13, <1>14, <1>15, <1>16, <1>17, <1>18, PartsMakeGovernanceInv

\* The roles of a member become those of the request, or the request had not seen all.
LEMMA InsertRolesHolds ==
  ASSUME GovernanceInv, NEW r \in Requests, Insert(r), job[r].op = "assign", ~TakesBack(r)
  PROVE  GovernanceInv'
<1>1. /\ job[r] \in Job /\ JobShape(job[r]) /\ job[r].phase = "deleted" /\ job \in [Requests -> Job]
      /\ given \in [Staff -> SUBSET RoleIds]
      /\ holds \in [RoleIds \union Staff -> SUBSET [item : RoleIds \union Capabilities,
                                                    by : 0..MaxRequests]]
  BY DEF GovernanceInv, GovernanceTypeOK, Insert
<1>2. PICK m \in Staff, roles \in SUBSET RoleIds, n \in 0..MaxRequests :
        m = job[r].owner /\ roles = job[r].items /\ n = job[r].number
  BY <1>1 DEF JobShape, Job
<1>3. PICK rows : rows = RowsFor(roles, n)
  OBVIOUS
<1>4. Items(rows) = roles /\ rows \in SUBSET [item : RoleIds \union Capabilities, by : 0..MaxRequests]
  <2>1. roles \subseteq RoleIds \union Capabilities
    OBVIOUS
  <2> QED BY <1>3, <2>1, NewRows
<1>5. PICK kept \in SUBSET holds[m] : kept = holds[m] \ job[r].rows
  OBVIOUS
<1>6. /\ holds' = [holds EXCEPT ![m] = kept \union rows]
      /\ granted' = granted
      /\ given' = [given EXCEPT ![m] = roles]
      /\ raced' = IF job[r].stale THEN raced \union {m} ELSE raced \ {m}
      /\ job' = Overtaken(r, {"seen", "deleted"})
      /\ \A i \in roles : Exists(i)
      /\ UNCHANGED <<roleKey, listed, wall, posted, personVars, ops, requests>>
  BY <1>2, <1>3, <1>5 DEF Insert, TakesBack, RowsFor
<1>7. /\ holds'[m] = kept \union rows
      /\ \A o \in (RoleIds \union Staff) \ {m} : holds'[o] = holds[o]
      /\ holds' \in [RoleIds \union Staff -> SUBSET [item : RoleIds \union Capabilities,
                                                     by : 0..MaxRequests]]
  BY <1>1, <1>4, <1>5, <1>6
<1>8. /\ given'[m] = roles
      /\ \A o \in Staff \ {m} : given'[o] = given[o]
      /\ given' \in [Staff -> SUBSET RoleIds]
  BY <1>1, <1>6
<1>9. m \notin RoleIds /\ m \notin {"wall", "profile"}
  BY GovernanceAssumption, AdministrationAssumption
<1>10. /\ \A o \in Staff \ {m} : o \in raced <=> o \in raced'
       /\ "wall" \in raced => "wall" \in raced'
       /\ "profile" \in raced => "profile" \in raced'
       /\ job[r].stale => m \in raced'
  BY <1>6, <1>9
<1>11. /\ job' \in [Requests -> Job] /\ \A s \in Requests : JobShape(job[s])'
       /\ job'[r] = Free
       /\ \A s \in Requests \ {r} :
            /\ job'[s].phase = job[s].phase /\ job'[s].op = job[s].op
            /\ job'[s].owner = job[s].owner /\ job'[s].rows = job[s].rows
            /\ job'[s].copy = job[s].copy /\ job'[s].name = job[s].name
            /\ job'[s].places = job[s].places
            /\ job'[s].stale <=> job[s].stale \/ (job[s].phase \in {"seen", "deleted"} /\ job[s].owner = job[r].owner)
  BY <1>6, OvertakenJobs
<1>12. \A x \in RoleIds : holds'[x] = holds[x]
  BY <1>7, <1>9
<1>13. RowsHold'
  <2> USE DEF GovernanceInv, RowsHold
  <2>1. ASSUME NEW o \in Staff
        PROVE  Items(holds'[o]) \subseteq RoleIds
    <3>1. CASE o # m
      BY <1>7, <3>1
    <3>2. CASE o = m
      <4>1. Items(kept) \subseteq Items(holds[m]) /\ Items(kept \union rows) = Items(kept) \union Items(rows)
        BY DEF Items
      <4> QED BY <1>4, <1>7, <3>2, <4>1
    <3> QED BY <3>1, <3>2
  <2>2. ASSUME NEW o \in Staff, NEW y \in given'[o]
        PROVE  granted'[y] # {}
    BY <1>6, <1>8, <2>2
  <2>3. \A x \in RoleIds : Exists(x)' => granted'[x] # {}
    BY <1>6 DEF Exists
  <2> QED BY <1>12, <2>1, <2>2, <2>3 DEF Items
<1>14. RolesHold'
  BY <1>6, <1>11, <1>12, FreeIsTyped, RolesStay
<1>15. AssignmentsHold'
  <2>1. ASSUME NEW s \in Requests, job'[s].op = "assign", job'[s].phase \in {"seen", "deleted"},
               ~job'[s].stale
        PROVE  holds'[job'[s].owner] \subseteq job'[s].rows
    <3>1. /\ s # r /\ job[s].op = "assign" /\ job[s].phase \in {"seen", "deleted"} /\ ~job[s].stale
          /\ job'[s].owner = job[s].owner /\ job'[s].rows = job[s].rows /\ job[s].owner # m
      BY <1>2, <1>11, <2>1, FreeIsTyped
    <3>2. job[s].owner \in Staff
      BY <3>1 DEF GovernanceInv, JobShape
    <3>3. holds'[job[s].owner] = holds[job[s].owner]
      BY <1>7, <3>1, <3>2
    <3> QED BY <3>1, <3>3 DEF GovernanceInv, AssignmentsHold
  <2>2. ASSUME NEW o \in Staff
        PROVE  o \in raced' \/ Items(holds'[o]) = {x \in given'[o] : Exists(x)'}
    <3>1. CASE o # m
      BY <1>6, <1>7, <1>8, <1>10, <3>1
      DEF GovernanceInv, AssignmentsHold, RolesComeFromOneRequest, Exists
    <3>2. CASE o = m /\ job[r].stale
      BY <1>10, <3>2
    <3>3. CASE o = m /\ ~job[r].stale
      <4>1. kept = {}
        BY <1>1, <1>2, <1>5, <3>3 DEF GovernanceInv, AssignmentsHold
      <4>2. holds'[m] = rows
        BY <1>7, <4>1
      <4>3. {x \in given'[m] : Exists(x)'} = roles
        BY <1>6, <1>8 DEF Exists
      <4> QED BY <1>4, <3>3, <4>2, <4>3
    <3> QED BY <3>1, <3>2, <3>3
  <2>3. RolesComeFromOneRequest'
    BY <2>2 DEF RolesComeFromOneRequest, Items
  <2> QED BY <2>1, <2>3 DEF AssignmentsHold
<1>16. WallHolds'
  BY <1>6, <1>10, <1>11, FreeIsTyped, WallStays
<1>17. NamesHold'
  BY <1>1, <1>6, <1>10, <1>11, FreeIsTyped, NamesStay
<1>18. GovernanceTypes' /\ RequestsTypeOK'
  BY <1>6, <1>7, <1>8, RequestsStay DEF GovernanceTypes, GovernanceInv, GovernanceTypeOK
<1> QED BY <1>11, <1>13, <1>14, <1>15, <1>16, <1>17, <1>18, PartsMakeGovernanceInv

LEMMA InsertHolds ==
  ASSUME GovernanceInv, NEW r \in Requests, Insert(r)
  PROVE  GovernanceInv'
<1>1. job[r].op \in {"update_role", "assign"} /\ job[r].phase = "deleted"
  BY DEF GovernanceInv, JobShape, Insert
<1>2. CASE TakesBack(r)
  BY <1>1, <1>2, FinishHolds DEF Insert, TakesBack, requestVars, Renaming
<1>3. CASE ~TakesBack(r)
  BY <1>1, <1>3, InsertGrantsHolds, InsertRolesHolds
<1> QED BY <1>2, <1>3

---------------------------------------------------------------------------
(* The two back offices together.                                          *)

LEMMA GovernanceStarts ==
  ASSUME Init
  PROVE  GovernanceInv
<1>1. GovernanceInit /\ RequestsInit
  BY DEF Init
<1>2. job \in [Requests -> Job] /\ \A s \in Requests : job[s] = Free
  BY <1>1, FreeIsTyped DEF GovernanceInit
<1>3. \A s \in Requests : JobShape(job[s])
  BY <1>2, FreeIsTyped
<1>4. RequestsTypeOK
  BY <1>1, RequestsAssumption DEF RequestsInit, RequestsTypeOK
<1>5. GovernanceTypeOK
  BY <1>1, <1>2, GovernanceAssumption DEF GovernanceInit, GovernanceTypeOK
<1>6. \A o \in RoleIds \union Staff : holds[o] = {} /\ Items(holds[o]) = {}
  BY <1>1 DEF GovernanceInit, Items
<1>7. \A x \in RoleIds : Exists(x) => granted[x] # {}
  BY <1>1 DEF GovernanceInit, Exists
<1>8. RowsHold
  BY <1>1, <1>6, <1>7 DEF GovernanceInit, RowsHold
<1>9. RolesHold
  <2>1. DOMAIN listed = {}
    BY <1>1 DEF GovernanceInit
  <2>2. \A r \in Requests : job[r].op = "none" /\ ~RoleLockedBy(r)
    BY <1>2, FreeIsTyped DEF RoleLockedBy
  <2> QED BY <1>6, <2>1, <2>2 DEF RolesHold, RolesAreListedAsGranted
<1>10. AssignmentsHold
  BY <1>1, <1>2, <1>6, FreeIsTyped DEF GovernanceInit, AssignmentsHold, RolesComeFromOneRequest
<1>11. WallHolds
  BY <1>1, <1>2, FreeIsTyped DEF GovernanceInit, WallHolds
<1>12. NamesHold
  BY <1>1, <1>2, FreeIsTyped DEF GovernanceInit, NamesHold, Renaming
<1> QED BY <1>3, <1>4, <1>5, <1>8, <1>9, <1>10, <1>11, <1>12 DEF GovernanceInv

LEMMA GovernanceSteps ==
  ASSUME GovernanceInv, GovernanceNext
  PROVE  GovernanceInv'
<1> SUFFICES ASSUME NEW r \in Requests, Govern(r) PROVE GovernanceInv'
  BY ToggleHolds DEF GovernanceNext
<1>2. CASE Begins(r)
  BY <1>2, BeginsHold
<1>3. CASE Find(r) \/ CreateRole(r) \/ LockRole(r) \/ DeleteRole(r) \/ BreakDeadlock(r)
  BY <1>3, FindHolds, CreateRoleHolds, LockRoleHolds, DeleteRoleHolds, BreakDeadlockHolds
<1>4. CASE ReadRoles(r) \/ ReadGrants(r) \/ See(r) \/ Delete(r) \/ Insert(r)
  BY <1>4, ReadRolesHolds, ReadGrantsHolds, SeeHolds, DeleteHolds, InsertHolds
<1>5. CASE ReadWall(r) \/ WriteWall(r)
  BY <1>5, ReadWallHolds, WriteWallHolds
<1>6. CASE RenameAccount(r) \/ ListPlaces(r) \/ RenameActor(r) \/ FailToRename(r)
  BY <1>6, RenameAccountHolds, ListPlacesHolds, RenameActorHolds, FailToRenameHolds
<1> QED BY <1>2, <1>3, <1>4, <1>5, <1>6 DEF Govern, Begins

\* Requests of the platform are counted too; they only ever add to the histories.
LEMMA PlatformCounts ==
  ASSUME PlatformNext, RequestsTypeOK
  PROVE  RequestsTypeOK' /\ raced \subseteq raced'
<1>1. ASSUME UNCHANGED <<ops, requests>>, raced \subseteq raced'
      PROVE  RequestsTypeOK' /\ raced \subseteq raced'
  BY <1>1 DEF RequestsTypeOK
<1>2. ASSUME NEW op, Made(op)
      PROVE  RequestsTypeOK' /\ raced \subseteq raced'
  BY <1>2, RequestsAssumption DEF Made, RequestsTypeOK
<1>3. ASSUME NEW r \in Requests, Asks(r) \/ AskForWorkspace(r)
      PROVE  \E op : Made(op)
  BY <1>3 DEF Asks, AskAboutAdministrator, AskForTenant, AskForSettings, AskForNotice, Ask, AskForWorkspace
<1>4. ASSUME NEW r \in Requests, Add(r) \/ Count(r) \/ Suspend(r) \/ SaveKey(r) \/ FailToSave(r) \/ Replace(r)
      PROVE  UNCHANGED <<ops, requests>> /\ raced \subseteq raced'
  BY <1>4 DEF Add, Count, Suspend, SaveKey, FailToSave, Replace, requestVars
<1>5. ASSUME NEW r \in Requests, ReadBoard(r) \/ WriteBoard(r) \/ Take(r)
      PROVE  UNCHANGED <<ops, requests>> /\ raced \subseteq raced'
  BY <1>5 DEF ReadBoard, WriteBoard, Take, requestVars
<1>6. ASSUME NEW r \in Requests, Prepare(r) \/ Send(r) \/ Open(r) \/ Create(r)
      PROVE  UNCHANGED <<ops, requests>> /\ raced \subseteq raced'
  BY <1>6 DEF Prepare, Send, Open, Create, End, requestVars
<1>7. ASSUME Restart \/ (\E u \in Users : Register(u)) \/ (\E l \in Links : Lapse(l))
      PROVE  UNCHANGED <<ops, requests>> /\ raced \subseteq raced'
  BY <1>7 DEF Restart, Register, Lapse, requestVars
<1>8. ASSUME NEW r \in Requests, Proceed(r)
      PROVE  RequestsTypeOK' /\ raced \subseteq raced'
  BY <1>1, <1>2, <1>3, <1>4, <1>5, <1>6, <1>8 DEF Proceed, Asks
<1> QED BY <1>1, <1>7, <1>8 DEF PlatformNext

LEMMA OthersKeepGovernance ==
  ASSUME GovernanceInv, UNCHANGED governanceVars, RequestsTypeOK', raced \subseteq raced'
  PROVE  GovernanceInv'
<1>1. RowsHold' /\ RolesHold'
  BY RowsStay, RolesStay DEF governanceVars
<1>2. AssignmentsHold' /\ WallHolds' /\ NamesHold'
  BY AssignmentsStay, WallStays, NamesStay DEF governanceVars
<1>3. GovernanceTypes' /\ job' \in [Requests -> Job]
  BY DEF GovernanceTypes, GovernanceInv, GovernanceTypeOK, governanceVars
<1>4. \A s \in Requests : JobShape(job[s])'
  BY DEF GovernanceInv, JobShape, governanceVars
<1> QED BY <1>1, <1>2, <1>3, <1>4, PartsMakeGovernanceInv

\* Requests of the workspace take back no history of the platform.
LEMMA GovernanceRaces ==
  ASSUME GovernanceInv, GovernanceNext
  PROVE  \A h \in {"administrators", "settings", "board"} : h \in raced => h \in raced'
<1> SUFFICES ASSUME NEW r \in Requests, Govern(r)
             PROVE  \A h \in {"administrators", "settings", "board"} : h \in raced => h \in raced'
  BY DEF GovernanceNext, Toggle, requestVars
<1>2. CASE Insert(r)
  <2>1. job[r].owner \in RoleIds \union Staff
    BY <1>2 DEF Insert, GovernanceInv, JobShape, RoleWrites
  <2>2. job[r].owner \notin {"administrators", "settings", "board"}
    BY <2>1, AdministrationAssumption
  <2>3. raced \ {job[r].owner} \subseteq raced'
    BY <1>2 DEF Insert
  <2> QED BY <2>2, <2>3
<1>3. CASE Begins(r)
  BY <1>3 DEF Begins, BeginRole, BeginAssign, BeginAnnouncement, BeginProfile, Begin, Made
<1>4. CASE Find(r) \/ CreateRole(r) \/ LockRole(r) \/ DeleteRole(r) \/ BreakDeadlock(r)
  BY <1>4 DEF Find, CreateRole, LockRole, DeleteRole, BreakDeadlock, requestVars
<1>5. CASE ReadRoles(r) \/ ReadGrants(r) \/ See(r) \/ Delete(r)
  BY <1>5 DEF ReadRoles, ReadGrants, See, Delete, requestVars
<1>6. CASE ReadWall(r) \/ WriteWall(r)
  BY <1>6 DEF ReadWall, WriteWall, requestVars
<1>7. CASE RenameAccount(r) \/ ListPlaces(r) \/ RenameActor(r) \/ FailToRename(r)
  BY <1>7 DEF RenameAccount, ListPlaces, RenameActor, FailToRename, requestVars
<1> QED BY <1>2, <1>3, <1>4, <1>5, <1>6, <1>7 DEF Govern, Begins

Inv == PlatformInv /\ GovernanceInv

LEMMA InvStarts == Init => Inv
BY PlatformStarts, GovernanceStarts DEF Inv

LEMMA InvSteps == Inv /\ [Next]_vars => Inv'
<1> SUFFICES ASSUME Inv, [Next]_vars PROVE Inv'
  OBVIOUS
<1> USE DEF Inv
<1>1. registered \subseteq Users /\ lapsed \subseteq Links /\ RequestsTypeOK
  BY DEF PlatformInv, PlatformTypeOK, GovernanceInv
<1>2. CASE PlatformNext /\ UNCHANGED governanceVars
  BY <1>1, <1>2, PlatformSteps, PlatformCounts, OthersKeepGovernance
<1>3. CASE GovernanceNext /\ UNCHANGED platformVars
  <2>1. PlatformInv'
    BY <1>1, <1>3, GovernanceRaces, OthersKeepPlatform DEF platformVars
  <2> QED BY <1>3, <2>1, GovernanceSteps
<1>4. CASE UNCHANGED vars
  <2>1. PlatformInv'
    BY <1>1, <1>4, OthersKeepPlatform DEF vars, platformVars, requestVars
  <2>2. RequestsTypeOK'
    BY <1>1, <1>4 DEF vars, requestVars, RequestsTypeOK
  <2> QED BY <1>4, <2>1, <2>2, OthersKeepGovernance DEF vars, requestVars
<1> QED BY <1>2, <1>3, <1>4 DEF Next

THEOREM Invariance == Spec => []Inv
BY InvStarts, InvSteps, PTL DEF Spec

\* Every variable of the two back offices has its type, for any number of requests,
\* accounts, links, roles and members.
THEOREM TypeCorrect == Spec => []TypeOK
<1>1. Inv => TypeOK
  BY DEF Inv, PlatformInv, GovernanceInv, TypeOK
<1> QED BY <1>1, Invariance, PTL

\* Unless a suspension was decided on a count that another one had made out of date, an
\* active administrator is left, however many there are and suspend each other.
THEOREM AnAdministratorRemains == Spec => []AdministratorRemains
<1>1. Inv => AdministratorRemains
  BY DEF Inv, PlatformInv, CountsHold, AdministratorRemains
<1> QED BY <1>1, Invariance, PTL

\* Between saves, the session policy in memory is the one the settings table holds, unless
\* two saves overlapped or one ended between two of its keys (updateSettings).
THEOREM PolicyStaysTheStoredOne == Spec => []PolicyIsTheStoredOne
<1>1. Inv => PolicyIsTheStoredOne
  BY DEF Inv, PlatformInv, SavesHold, Saving, PolicyIsTheStoredOne
<1> QED BY <1>1, Invariance, PTL

\* The board of the platform and the wall of the workspace show what was announced and not
\* taken back, unless a list was written back that had been read before another change.
THEOREM AnnouncementsStayShown == Spec => []AnnouncementsAreShown
<1>1. Inv => AnnouncementsAreShown
  BY DEF Inv, PlatformInv, GovernanceInv, BoardHolds, WallHolds, AnnouncementsAreShown,
         PublishedIsShown, AnnouncedIsShown
<1> QED BY <1>1, Invariance, PTL

\* A used link has opened the workspace of its slug, for its addressee, and a slug never has
\* two pending links, however prepare_tenant, accept_tenant and create_tenant interleave.
THEOREM UsedLinksOwnTheirTenants == Spec => []UsedLinkOwnsItsTenant
<1>1. Inv => UsedLinkOwnsItsTenant
  BY DEF Inv, PlatformInv, TenantsHold
<1> QED BY <1>1, Invariance, PTL

\* A tenant invitation is used at most once, by its addressee, and never after it was taken back.
THEOREM TenantLinksAreOneTimeTokens == Spec => ActivationLinksAreTokens
<1>1. Init => Activation!Init
  BY DEF Init, PlatformInit, NoLink, Activation!Init
<1>2. Inv /\ [Next]_vars => [Activation!Next]_(Activation!vars)
  <2> SUFFICES ASSUME Inv, [Next]_vars PROVE [Activation!Next]_(Activation!vars)
    OBVIOUS
  <2>1. CASE PlatformNext
    BY <2>1, PlatformStepsOfTokens DEF Inv
  <2>2. CASE UNCHANGED link
    BY <2>2, LinksStay
  <2> QED BY <2>1, <2>2 DEF Next, vars, platformVars
<1> QED BY <1>1, <1>2, Invariance, PTL DEF Spec, ActivationLinksAreTokens, Activation!Spec

\* A role is never listed with a mixture of two grants: updateRole holds its row from the
\* UPDATE to the commit, so that its DELETE sees all there is.
THEOREM RolesAreListedAsTheyWereGranted == Spec => []RolesAreListedAsGranted
<1>1. Inv => RolesAreListedAsGranted
  BY DEF Inv, GovernanceInv, RolesHold
<1> QED BY <1>1, Invariance, PTL

\* The roles of a member are those of the last assignment that was answered with success,
\* unless that one had not seen the rows of another (assignMemberRoles locks nothing).
THEOREM RolesComeFromOneAssignment == Spec => []RolesComeFromOneRequest
<1>1. Inv => RolesComeFromOneRequest
  BY DEF Inv, GovernanceInv, AssignmentsHold
<1> QED BY <1>1, Invariance, PTL

\* Between saves of a profile, a person bears the name of its account in every workspace that
\* the last save listed, whatever was suspended, archived or restored meanwhile, unless two
\* saves overlapped or one failed half-way (updateUserProfile).
THEOREM OneNameStaysEverywhere == Spec => []OneNameEverywhere
<1>1. Inv => OneNameEverywhere
  BY DEF Inv, GovernanceInv, NamesHold, Renaming, OneNameEverywhere
<1> QED BY <1>1, Invariance, PTL
=============================================================================
