----------------------------- MODULE Onboarding -----------------------------
(***************************************************************************)
(* How people enter one workspace and are placed in its departments:       *)
(* invitations, their acceptance, the department tree, the assignment of    *)
(* members to it and the requests that change their roles, as the workspace *)
(* routes run them on PostgreSQL (read committed).                          *)
(*                                                                         *)
(* A request resolves its principal, or its invitation link, before the     *)
(* transaction; the transaction reads, waits for the rows it changes, and   *)
(* from its last row lock to its commit nobody else can change what it       *)
(* writes, so the writes, the checks on locked rows and the commit are one   *)
(* step.  The unique index on (workspace, user) of human_actors is the lock  *)
(* of a member that does not exist yet.  A department stands for its code.    *)
(* The locks of the workspace row and of the audit log, which role changes    *)
(* and hand-overs also take, only make requests wait; what they are for is    *)
(* the subject of WorkspaceMembership, and what overlapping assignments of    *)
(* roles leave behind that of WorkspaceGovernance.                            *)
(***************************************************************************)
EXTENDS Naturals, FiniteSets

CONSTANTS
  People,         \* user accounts; one account is one email address
  Founder,        \* who created the workspace
  Invitations,    \* rows of workspace_invitations, each with its link
  Departments,    \* rows of workspace_departments
  FirstDepartments, \* bound: those that there may be when a behaviour begins
  Requests,       \* API requests in flight
  Nobody,         \* no account, no department
  OpGroups,       \* bound: one behaviour asks for the operations of one of these sets
  MaxRequests     \* bound: requests in one behaviour

AllOps == {"invite", "accept", "save", "organization", "batch", "role", "transfer", "assign"}

ASSUME OnboardingAssumption ==
  /\ Founder \in People
  /\ Nobody \notin People \union Departments \union Invitations \union Requests
  /\ People \cap Departments = {} /\ People \cap Invitations = {}
  /\ Departments \cap Invitations = {}
  /\ OpGroups \subseteq SUBSET AllOps
  /\ MaxRequests \in Nat

Place == Departments \union {Nobody}
AssignableRoles == {"admin", "member"}     \* "member" stands for guest and custom roles too
Roles == AssignableRoles \union {"owner"}
Rows == People \union Departments \union Invitations
DepartmentStatus == {"none", "active", "disabled"}
Phases == {"idle", "inserting", "checking", "presented", "locking"}

VARIABLES
  member,         \* committed memberships: status, owner flag, bound role, department
  invitation,     \* committed invitations
  expired,        \* invitations whose 72 hours are over
  department,     \* committed departments: status and parent
  lock,           \* lock[row]: the request that holds it
  req,            \* per request: phase, arguments, rows still to lock
  ops,            \* the group of operations of this behaviour
  requests,       \* requests made so far
  overlapped,     \* history: a parent was written that another save had just changed
  regraded        \* history: whose role another request than their acceptance has set

vars == <<member, invitation, expired, department, lock, req, ops, requests, overlapped, regraded>>

NoMember == [status |-> "none", isOwner |-> FALSE, role |-> "none", place |-> Nobody]
NoInvitation == [email |-> Nobody, role |-> "none", place |-> Nobody, acceptedBy |-> Nobody]
NoDepartment == [status |-> "none", parent |-> Nobody]

IdleRequest ==
  [phase |-> "idle", op |-> "none", user |-> Nobody, target |-> {}, role |-> "none",
   place |-> Nobody, parent |-> Nobody, status |-> "none", link |-> Nobody,
   isNew |-> FALSE, stale |-> FALSE, todo |-> {}]

Exists(p) == member[p].status # "none"
Known(d) == department[d].status # "none"

\* The role a request of this member acts with.
RoleKey(m) == IF member[m].isOwner THEN "owner" ELSE member[m].role

---------------------------------------------------------------------------
(* Requests: what each route resolves and checks before its transaction.    *)

\* The answer, an error or none, goes to the client; the slot is free again.
Answer(error) == IdleRequest

\* The role checks at the head of the repository methods.
Refused(role, q) ==
  IF q.op = "role" /\ role # "owner" THEN "delegation_denied"
  ELSE IF role \notin {"owner", "admin"} \/ (q.op = "transfer" /\ role # "owner")
  THEN "access_denied"
  ELSE IF q.op = "invite" /\ q.role = "admin" /\ role # "owner" THEN "delegation_denied"
  ELSE "none"

Start(r, q, phase) ==
  /\ requests < MaxRequests
  /\ requests' = requests + 1
  /\ req[r].phase = "idle"
  /\ req' = [req EXCEPT ![r] =
               IF member[q.user].status # "active" THEN Answer("access_denied")
               ELSE IF Refused(RoleKey(q.user), q) # "none"
               THEN Answer(Refused(RoleKey(q.user), q))
               ELSE [q EXCEPT !.phase = phase]]
  /\ UNCHANGED <<member, invitation, expired, department, lock, ops, overlapped, regraded>>

AskToInvite(r) ==
  \E p, email \in People, role \in AssignableRoles, place \in Place :
    Start(r, [IdleRequest EXCEPT !.op = "invite", !.user = p, !.target = {email},
                                 !.role = role, !.place = place], "inserting")

\* Create with a code of its own, or update by id; the manager, if one is named,
\* is the target.
AskToSave(r) ==
  \E p \in People, d \in Departments, parent \in Place, status \in {"active", "disabled"},
     isNew \in BOOLEAN, manager \in {{}} \union {{m} : m \in People \ {Founder}} :
    Start(r, [IdleRequest EXCEPT !.op = "save", !.user = p, !.place = d, !.parent = parent,
                                 !.status = status, !.isNew = isNew, !.target = manager],
          "checking")

AskToPlace(r) ==
  \E p \in People, place \in Place :
    \/ \E m \in People :
         Start(r, [IdleRequest EXCEPT !.op = "organization", !.user = p, !.target = {m},
                                      !.place = place], "checking")
    \/ \E S \in (SUBSET People) \ {{}} :
         Start(r, [IdleRequest EXCEPT !.op = "batch", !.user = p, !.target = S,
                                      !.place = place], "checking")

\* A change of role, a hand-over to somebody else (to oneself it answers at once and
\* changes nothing), or the roles a member is to be bound to.
AskToRegrade(r) ==
  \E p, m \in People :
    \/ \E op \in {"role", "assign"}, role \in Roles :
         Start(r, [IdleRequest EXCEPT !.op = op, !.user = p, !.target = {m}, !.role = role],
               "checking")
    \/ /\ m # p
       /\ Start(r, [IdleRequest EXCEPT !.op = "transfer", !.user = p, !.target = {m},
                                       !.role = "owner"], "checking")

\* Faulty: whoever holds the link may use it.
UsableByAnybody(i, p) == i \notin expired /\ invitation[i].email # Nobody

\* The link is known, its time is not over, and it was sent to this account.
Usable(i, p) == i \notin expired /\ invitation[i].email = p

\* The link is looked up outside the transaction; the time is read here, once.
Present(r) ==
  /\ requests < MaxRequests
  /\ requests' = requests + 1
  /\ req[r].phase = "idle"
  /\ \E p \in People, i \in Invitations :
       LET q == [IdleRequest EXCEPT !.op = "accept", !.user = p, !.link = i]
       IN req' = [req EXCEPT ![r] =
                    IF Usable(i, p) THEN [q EXCEPT !.phase = "presented", !.todo = {i}]
                    ELSE Answer("invitation_invalid")]
  /\ UNCHANGED <<member, invitation, expired, department, lock, ops, overlapped, regraded>>

Ask(r) ==
  \/ "invite" \in ops /\ AskToInvite(r)
  \/ "accept" \in ops /\ Present(r)
  \/ "save" \in ops /\ AskToSave(r)
  \/ {"organization", "batch"} \subseteq ops /\ AskToPlace(r)
  \/ {"role", "transfer", "assign"} \subseteq ops /\ AskToRegrade(r)

---------------------------------------------------------------------------
(* Row locks.                                                              *)

Unlocked(r) == [row \in Rows |-> IF lock[row] = r THEN Nobody ELSE lock[row]]

Rollback(r, error) ==
  /\ req' = [req EXCEPT ![r] = Answer(error)]
  /\ lock' = Unlocked(r)
  /\ UNCHANGED <<member, invitation, expired, department, ops, requests, overlapped, regraded>>

\* A row that is free is locked; members who do not exist have no row to update.
Take(r) ==
  /\ req[r].phase \in {"presented", "locking"}
  /\ \E row \in req[r].todo :
       /\ lock[row] = Nobody
       /\ lock' = [lock EXCEPT ![row] = r]
       /\ req' = [req EXCEPT ![r].todo = @ \ {row}]
  /\ UNCHANGED <<member, invitation, expired, department, ops, requests, overlapped, regraded>>

Holders(q) == {lock[row] : row \in q.todo} \ {Nobody}

\* PostgreSQL aborts a transaction that waits in a circle.
DetectDeadlock(r) ==
  /\ \E s \in Requests \ {r} : s \in Holders(req[r]) /\ r \in Holders(req[s])
  /\ \A row \in req[r].todo : lock[row] # Nobody
  /\ Rollback(r, "deadlock_detected")

---------------------------------------------------------------------------
(* Invitations.                                                            *)

\* The row of a new link; a department must exist, whatever its status.
Invite(r) ==
  LET q == req[r]
  IN /\ q.phase = "inserting"
     /\ IF q.place # Nobody /\ ~Known(q.place)
        THEN req' = [req EXCEPT ![r] = Answer("foreign_key")] /\ UNCHANGED invitation
        ELSE \E i \in Invitations, email \in q.target :
               /\ invitation[i].email = Nobody
               /\ invitation' = [invitation EXCEPT ![i] =
                    [NoInvitation EXCEPT !.email = email, !.role = q.role, !.place = q.place]]
               /\ req' = [req EXCEPT ![r] = Answer("none")]
     /\ UNCHANGED <<member, expired, department, lock, ops, requests, overlapped, regraded>>

\* 72 hours are over.  A request that has read its time goes on.
Expire(i) ==
  /\ invitation[i].email # Nobody /\ i \notin expired
  /\ expired' = expired \union {i}
  /\ UNCHANGED <<member, invitation, department, lock, req, ops, requests, overlapped, regraded>>

\* The insert of the human actor, or the update of the membership, takes its row.
Entering(r) ==
  [req EXCEPT ![r] = [@ EXCEPT !.phase = "locking", !.isNew = ~Exists(req[r].user), !.todo = {req[r].user}]]

\* With the invitation locked, the transaction looks for a membership of the user.
Lookup(r) ==
  LET q == req[r]
  IN /\ q.phase = "presented" /\ q.todo = {}
     /\ IF invitation[q.link].acceptedBy \notin {Nobody, q.user}
        THEN Rollback(r, "invitation_invalid")
        ELSE IF Exists(q.user) /\ invitation[q.link].acceptedBy # Nobody
        THEN Rollback(r, "none")
        ELSE /\ req' = Entering(r)
             /\ UNCHANGED <<member, invitation, expired, department, lock, ops, requests, overlapped, regraded>>

Commit(r) ==
  /\ req' = [req EXCEPT ![r] = Answer("none")]
  /\ lock' = Unlocked(r)
  /\ UNCHANGED <<expired, ops, requests>>

\* Faulty: a member who accepts is given the role the invitation names.
PlacedWithRole(q) == [member[q.user] EXCEPT !.role = invitation[q.link].role,
                                            !.place = invitation[q.link].place]

\* A member who accepts only changes department; role and status stay.
Placed(q) == [member[q.user] EXCEPT !.place = invitation[q.link].place]

\* Faulty: the role of the invitation is not the one that is granted.
JoinedAsMember(q) == [status |-> "active", isOwner |-> FALSE, role |-> "member",
                      place |-> invitation[q.link].place]

Joined(q) == [status |-> "active", isOwner |-> FALSE, role |-> invitation[q.link].role,
              place |-> invitation[q.link].place]

Accept(r) ==
  LET q == req[r]
  IN /\ q.phase = "locking" /\ q.op = "accept" /\ q.todo = {}
     /\ IF q.isNew /\ Exists(q.user)
        THEN Rollback(r, "unique_violation")
        ELSE /\ member' = [member EXCEPT ![q.user] = IF q.isNew THEN Joined(q) ELSE Placed(q)]
             /\ invitation' = [invitation EXCEPT ![q.link].acceptedBy = q.user]
             /\ Commit(r)
             /\ UNCHANGED <<department, overlapped, regraded>>

---------------------------------------------------------------------------
(* Departments and who belongs to them.                                     *)

\* Faulty: a department may be placed under one that is itself placed.
ParentRefusalAnyDepth(q) ==
  IF q.parent = Nobody THEN "none"
  ELSE IF q.parent = q.place THEN "invalid_context"
  ELSE IF ~Known(q.parent) THEN "not_found"
  ELSE "none"

\* The parent is another department that exists and has no parent itself.
ParentRefusal(q) ==
  IF q.parent = Nobody THEN "none"
  ELSE IF q.parent = q.place /\ ~q.isNew THEN "invalid_context"
  ELSE IF ~Known(q.parent) THEN "not_found"
  ELSE IF department[q.parent].parent # Nobody THEN "invalid_context"
  ELSE "none"

ManagerRefusal(q) ==
  IF \E m \in q.target : member[m].status # "active" THEN "not_found" ELSE "none"

PlaceRefusal(q) ==
  IF q.place # Nobody /\ department[q.place].status # "active" THEN "not_found" ELSE "none"

CheckRefusal(q) ==
  IF q.op # "save" THEN PlaceRefusal(q)
  ELSE IF ParentRefusal(q) # "none" THEN ParentRefusal(q) ELSE ManagerRefusal(q)

\* Roles are bound without a look at the membership.
RowsToWrite(q) ==
  IF q.op = "save" THEN {q.place}
  ELSE IF q.op = "assign" THEN {}
  ELSE {m \in q.target \union (IF q.op = "transfer" THEN {q.user} ELSE {}) : Exists(m)}

\* What a save, a placement or a batch reads before it writes, without locking it;
\* the requests about roles read nothing before their locks.
Check(r) ==
  LET q == req[r]
  IN /\ q.phase = "checking"
     /\ IF CheckRefusal(q) # "none"
        THEN Rollback(r, CheckRefusal(q))
        ELSE /\ req' = [req EXCEPT ![r] = [q EXCEPT !.phase = "locking", !.todo = RowsToWrite(q)]]
             /\ UNCHANGED <<member, invitation, expired, department, lock, ops, requests, overlapped, regraded>>

SaveRefusal(q) ==
  IF q.isNew /\ Known(q.place) THEN "conflict"
  ELSE IF ~q.isNew /\ ~Known(q.place) THEN "not_found"
  ELSE "none"

\* The saves that have read a parent and have not written theirs.
Pending(s) == req[s].op = "save" /\ req[s].phase = "locking"

Save(r) ==
  LET q == req[r]
  IN /\ q.phase = "locking" /\ q.op = "save" /\ q.todo = {}
     /\ IF SaveRefusal(q) # "none"
        THEN Rollback(r, SaveRefusal(q))
        ELSE /\ department' = [department EXCEPT ![q.place] =
                                 [status |-> q.status, parent |-> q.parent]]
             /\ overlapped' = (overlapped \/ (q.stale /\ q.parent # Nobody))
             /\ req' = [s \in Requests |->
                          IF s = r THEN Answer("none")
                          ELSE [req[s] EXCEPT !.stale = @ \/ Pending(s)]]
             /\ lock' = Unlocked(r)
             /\ UNCHANGED <<member, invitation, expired, ops, requests, regraded>>

\* A placement finds its member active or fails; a batch takes whom it finds.
Move(r) ==
  LET q == req[r]
  IN /\ q.phase = "locking" /\ q.op \in {"organization", "batch"} /\ q.todo = {}
     /\ IF q.op = "organization" /\ \E m \in q.target : member[m].status # "active"
        THEN Rollback(r, "not_found")
        ELSE /\ member' = [m \in People |->
                             IF m \in q.target /\ lock[m] = r
                             THEN [member[m] EXCEPT !.place = q.place] ELSE member[m]]
             /\ Commit(r)
             /\ UNCHANGED <<invitation, department, overlapped, regraded>>

---------------------------------------------------------------------------
(* Roles.                                                                  *)

\* The member whose role is to change is locked and active.
Found(r) == \A m \in req[r].target : lock[m] = r /\ member[m].status = "active"

ActiveOwners == {m \in People : member[m].status = "active" /\ member[m].isOwner}

LeavesNoOwner(q) ==
  q.role # "owner" /\ ActiveOwners # {} /\ ActiveOwners \subseteq q.target

Regraded(m, role) == [member[m] EXCEPT !.isOwner = (role = "owner"), !.role = role]

\* The role of one member, its bindings and the owner flag.
ChangeRole(r) ==
  LET q == req[r]
  IN /\ q.phase = "locking" /\ q.op = "role" /\ q.todo = {}
     /\ IF ~Found(r) THEN Rollback(r, "not_found")
        ELSE IF LeavesNoOwner(q) THEN Rollback(r, "last_owner_required")
        ELSE /\ member' = [m \in People |->
                             IF m \in q.target THEN Regraded(m, q.role) ELSE member[m]]
             /\ regraded' = regraded \union q.target
             /\ Commit(r)
             /\ UNCHANGED <<invitation, department, overlapped>>

\* The member becomes owner and whoever asks admin; a binding of either that stands
\* revoked is inserted a second time and refused (WorkspaceMembership says when).
HandOver(r) ==
  LET q == req[r]
  IN /\ q.phase = "locking" /\ q.op = "transfer" /\ q.todo = {}
     /\ IF ~Found(r) THEN Rollback(r, "not_found")
        ELSE \/ Rollback(r, "unique_violation")
             \/ /\ member' = [m \in People |->
                                IF m \in q.target THEN Regraded(m, "owner")
                                ELSE IF m = q.user THEN Regraded(m, "admin")
                                ELSE member[m]]
                /\ regraded' = regraded \union q.target \union {q.user}
                /\ Commit(r)
                /\ UNCHANGED <<invitation, department, overlapped>>

\* The bindings of a member are replaced; the owner flag is another column.
AssignRoles(r) ==
  LET q == req[r]
  IN /\ q.phase = "locking" /\ q.op = "assign" /\ q.todo = {}
     /\ IF \E m \in q.target : ~Exists(m)
        THEN Rollback(r, "foreign_key")
        ELSE /\ member' = [m \in People |->
                             IF m \in q.target THEN [member[m] EXCEPT !.role = q.role]
                             ELSE member[m]]
             /\ regraded' = regraded \union q.target
             /\ Commit(r)
             /\ UNCHANGED <<invitation, department, overlapped>>

\* Another request of the member page suspends or restores a member; an owner is active.
ChangeStatus(m) ==
  /\ member[m].status # "none" /\ ~member[m].isOwner /\ lock[m] = Nobody
  /\ member' = [member EXCEPT ![m].status = IF @ = "active" THEN "suspended" ELSE "active"]
  /\ UNCHANGED <<invitation, expired, department, lock, req, ops, requests, overlapped, regraded>>

---------------------------------------------------------------------------
Init ==
  /\ member = [p \in People |->
                 IF p = Founder
                 THEN [status |-> "active", isOwner |-> TRUE, role |-> "owner", place |-> Nobody]
                 ELSE NoMember]
  /\ invitation = [i \in Invitations |-> NoInvitation]
  /\ expired = {}
  /\ department \in [Departments -> {[NoDepartment EXCEPT !.status = k] : k \in DepartmentStatus}]
  /\ \A d \in Departments \ FirstDepartments : department[d] = NoDepartment
  /\ lock = [row \in Rows |-> Nobody]
  /\ req = [r \in Requests |-> IdleRequest]
  /\ ops \in OpGroups
  /\ requests = 0
  /\ overlapped = FALSE
  /\ regraded = {}

Proceed(r) ==
  \/ Take(r) \/ DetectDeadlock(r)
  \/ Invite(r) \/ Lookup(r) \/ Accept(r)
  \/ Check(r) \/ Save(r) \/ Move(r)
  \/ ChangeRole(r) \/ HandOver(r) \/ AssignRoles(r)

Next ==
  \/ \E r \in Requests : Ask(r) \/ Proceed(r)
  \/ \E i \in Invitations : Expire(i)
  \/ \E m \in People : ChangeStatus(m)

Spec == Init /\ [][Next]_vars

---------------------------------------------------------------------------
(* Properties.                                                             *)

Request ==
  [phase : Phases, op : AllOps \union {"none"}, user : People \union {Nobody},
   target : SUBSET People, role : Roles \union {"none"}, place : Place,
   parent : Place, status : DepartmentStatus,
   link : Invitations \union {Nobody}, isNew : BOOLEAN, stale : BOOLEAN,
   todo : SUBSET Rows]

\* Every variable has its type.
TypeOK ==
  /\ member \in [People -> [status : {"none", "active", "suspended"}, isOwner : BOOLEAN,
                            role : Roles \union {"none"}, place : Place]]
  /\ invitation \in [Invitations -> [email : People \union {Nobody},
                                     role : AssignableRoles \union {"none"}, place : Place,
                                     acceptedBy : People \union {Nobody}]]
  /\ expired \subseteq Invitations
  /\ department \in [Departments -> [status : DepartmentStatus, parent : Place]]
  /\ lock \in [Rows -> Requests \union {Nobody}]
  /\ req \in [Requests -> Request]
  /\ ops \in OpGroups
  /\ requests \in 0..MaxRequests
  /\ overlapped \in BOOLEAN
  /\ regraded \subseteq People

\* A request of one of these operations commits in this step.
Done(operations) ==
  \E r \in Requests : /\ req[r].op \in operations
                      /\ req[r].phase = "locking" /\ req'[r].phase = "idle"

\* However often and however concurrently a link is presented, it changes an
\* existing member once, and then only the department: an acceptance repeated after
\* the member was moved, promoted or suspended does not move the member back, and no
\* acceptance restores a suspended member or gives somebody who is a member the role
\* or the ownership back that a request about roles took away.
AcceptanceChangesMemberOnce ==
  [][\A p \in People :
       LET old == member[p]
           new == member'[p]
       IN Exists(p) /\ new # old
            => \/ new.status # old.status /\ invitation' = invitation
               \/ /\ Done({"role", "transfer", "assign"}) /\ invitation' = invitation
                  /\ new = [old EXCEPT !.role = new.role, !.isOwner = new.isOwner]
               \/ /\ new = [old EXCEPT !.place = new.place]
                  /\ \/ \E i \in Invitations : invitation'[i].acceptedBy # invitation[i].acceptedBy
                     \/ Done({"organization", "batch"})]_vars

\* Whoever is a member but the founder accepted an invitation that was sent to that
\* account, and holds the role of one they accepted, without being an owner, for as
\* long as no change of role, hand-over or assignment of roles has been about them.
MembersWereInvited ==
  \A p \in People \ {Founder} :
    Exists(p) => \E i \in Invitations :
                   /\ invitation[i].email = p /\ invitation[i].acceptedBy = p
                   /\ \/ p \in regraded
                      \/ ~member[p].isOwner /\ member[p].role = invitation[i].role

\* An invitation is a one-time token of its addressee.
Token == INSTANCE OneTimeToken
           WITH Tokens <- Invitations,
                addressee <- [i \in Invitations |-> invitation[i].email],
                usedBy <- [i \in Invitations |-> invitation[i].acceptedBy],
                withdrawn <- {}
ImplementsOneTimeToken == Token!Spec

\* Following parents from a department of a circle never ends.
HasCircle ==
  \E S \in (SUBSET Departments) \ {{}} : \A d \in S : department[d].parent \in S

\* As long as no save writes a parent that it read before another save changed the
\* tree, the departments form a forest: no department ends up above itself.
CirclesNeedAnOverlap == HasCircle => overlapped

\* workspace-onboarding-repository.ts:641 answers "departments have at most two
\* levels for now": a parent has no parent.
TwoLevels ==
  \A d \in Departments :
    department[d].parent = Nobody \/ department[department[d].parent].parent = Nobody
=============================================================================
