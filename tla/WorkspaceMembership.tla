------------------------- MODULE WorkspaceMembership -------------------------
(***************************************************************************)
(* Roles, owners and lifecycle of one workspace, as the API changes them   *)
(* through WorkspaceOnboardingRepository, and role bindings as it changes   *)
(* them through WorkspaceGovernanceRepository, on PostgreSQL.               *)
(*                                                                         *)
(* A request first resolves its principal in a query of its own, outside   *)
(* the transaction.  The transaction (read committed) then takes row locks *)
(* one at a time, runs its checks and writes, appends an audit row whose    *)
(* foreign keys lock two more rows, fires the deferred owner trigger, and   *)
(* commits.  Other requests run between any two of these steps and see only *)
(* committed rows.  Every row a transaction writes is one it has locked     *)
(* against writers, so what it wrote is a function of the committed rows    *)
(* until it commits.  Two abstractions: the role assignments of one member  *)
(* are locked as one row, and "member" stands for every role that neither   *)
(* owns nor administers (guest and custom roles included).                  *)
(***************************************************************************)
EXTENDS Naturals, Sequences, FiniteSets

CONSTANTS
  Members,        \* membership rows (each with its human actor)
  Requests,       \* API requests in flight
  Workspace,      \* the workspaces row
  Ops,            \* the operations requests may ask for
  Bindable,       \* bound: the roles that assignMemberRoles is asked to bind
  Nobody          \* no member

AllOps == {"role", "status", "transfer", "archive", "unarchive", "assign"}

ASSUME MembersAssumption ==
  /\ IsFiniteSet(Members) /\ Members # {}
  /\ Workspace \notin Members
  /\ Nobody \notin Members

Roles == {"owner", "admin", "member"}

ASSUME OpsAssumption == Ops \subseteq AllOps /\ Bindable \subseteq Roles

MemberStatus == {"active", "suspended"}
WorkspaceStatus == {"active", "archived"}
Bindings(m) == <<"actor_role_assignments", m>>
RowsToLock == Members \union {Workspace} \union {Bindings(m) : m \in Members}

\* PostgreSQL row locks: SELECT FOR UPDATE, a plain UPDATE, a foreign-key check.
LockModes == {"none", "key_share", "no_key_update", "update"}

Errors == {"none", "access_denied", "not_found", "last_owner_required",
           "invalid_context", "owner_active_check", "unique_violation",
           "owner_trigger", "deadlock_detected"}

Phases == {"idle", "locking", "binding", "auditing", "precommit", "committing", "ended"}

VARIABLES
  membership,     \* committed workspace_memberships: isOwner and status
  assignment,     \* committed actor_role_assignments of workspace scope
  workspaceStatus,
  lock,           \* lock[row][request]: the strongest lock held
  req             \* per request: phase, arguments, locks still to take, error

vars == <<membership, assignment, workspaceStatus, lock, req>>

---------------------------------------------------------------------------
(* Reading the committed state.                                            *)

ActiveOwners(ms) == {m \in Members : ms[m].isOwner /\ ms[m].status = "active"}

ActiveRoles(m) == {k \in Roles : assignment[m][k] = "active"}

\* haloai_resolve_membership: the owner flag wins over the newest active assignment;
\* several made by one transaction are equally new.
RoleKeys(m) ==
  IF membership[m].isOwner THEN {"owner"}
  ELSE IF ActiveRoles(m) = {} THEN {"member"} ELSE ActiveRoles(m)

CanResolve(m) == membership[m].status = "active" /\ workspaceStatus = "active"

\* The role check each repository method makes before its transaction.
RoleAllows(op, key) ==
  IF op \in {"status", "assign"} THEN key \in {"owner", "admin"} ELSE key = "owner"

---------------------------------------------------------------------------
(* Requests.                                                               *)

\* Faulty: the route takes any membership status from the body.
ArgsOfAnyStatus(op) == CASE op = "role" -> Roles
                         [] op = "status" -> MemberStatus \union {"left"}
                         [] OTHER -> {"none"}

\* What the request schemas let through.
Args(op) == CASE op = "role" -> Roles
              [] op = "status" -> MemberStatus
              [] OTHER -> {"none"}

RoleSets(op) == IF op = "assign" THEN SUBSET Bindable ELSE {{}}

Targets(op) == IF op \in {"archive", "unarchive"} THEN {Nobody} ELSE Members

IdleRequest == [phase |-> "idle", op |-> "none", principal |-> Nobody,
                target |-> Nobody, arg |-> "none", roles |-> {}, todo |-> <<>>, error |-> "none"]

Call(op, principal, target, arg, roles) ==
  [IdleRequest EXCEPT !.op = op, !.principal = principal, !.target = target,
                      !.arg = arg, !.roles = roles]

\* What is left of a request when it ends: who asked for what, and the error.
Answered(q, error) ==
  [IdleRequest EXCEPT !.phase = "ended", !.op = q.op, !.principal = q.principal,
                      !.error = error]

\* Faulty: a role change that trusts the row lock of its target.
LocksFirstWithoutWorkspace(op, principal, target) ==
  CASE op = "transfer" -> <<<<target, "update">>, <<principal, "update">>>>
    [] op \in {"role", "status"} -> <<<<target, "update">>>>
    [] op = "assign" -> <<<<Bindings(target), "update">>>>
    [] OTHER -> <<<<Workspace, "no_key_update">>>>

\* Locks a method takes before it checks and writes.
LocksFirst(op, principal, target) ==
  CASE op = "role"     -> <<<<Workspace, "update">>, <<target, "update">>>>
    [] op = "transfer" -> <<<<Workspace, "update">>, <<target, "update">>,
                            <<principal, "update">>>>
    [] op = "status"   -> <<<<target, "update">>>>
    [] op = "assign"   -> <<<<Bindings(target), "update">>>>
    [] OTHER           -> <<<<Workspace, "no_key_update">>>>

\* Locks it takes to write role assignments; an insert of one refers to the workspace.
LocksToBind(q) ==
  CASE q.op = "role"     -> <<<<Bindings(q.target), "update">>>>
    [] q.op = "transfer" -> <<<<Bindings(q.target), "update">>,
                              <<Bindings(q.principal), "update">>>>
    [] q.op = "assign" /\ q.roles # {} -> <<<<Workspace, "key_share">>>>
    [] OTHER             -> <<>>

\* Foreign-key locks the insert of the audit row takes afterwards.
LocksForAudit(principal) ==
  <<<<Workspace, "key_share">>, <<principal, "key_share">>>>

---------------------------------------------------------------------------
(* What a transaction writes, given the committed rows.                     *)

MembershipAfter(q) ==
  CASE q.op = "role"     -> [membership EXCEPT ![q.target].isOwner = (q.arg = "owner")]
    [] q.op = "status"   -> [membership EXCEPT ![q.target].status = q.arg]
    [] q.op = "transfer" -> [membership EXCEPT ![q.target].isOwner = TRUE,
                                               ![q.principal].isOwner = FALSE]
    [] OTHER             -> membership

\* Faulty: the old assignments stay active.
RevokeNone(held) == held

\* Faulty: active assignments are deleted where they should be revoked.
RevokeByDelete(held) == [k \in {l \in Roles : held[l] # "active"} |-> held[k]]

RevokeAll(held) ==
  [k \in Roles |-> IF held[k] = "active" THEN "revoked" ELSE held[k]]

Grant(held, k) == [RevokeAll(held) EXCEPT ![k] = "active"]

AssignmentAfter(q) ==
  CASE q.op = "role"     -> [assignment EXCEPT ![q.target] = Grant(@, q.arg)]
    [] q.op = "transfer" -> [assignment EXCEPT ![q.target] = Grant(@, "owner"),
                                               ![q.principal] = Grant(@, "admin")]
    [] q.op = "assign"   ->
         [assignment EXCEPT ![q.target] =
            [k \in Roles |-> IF k \in q.roles THEN "active" ELSE "none"]]
    [] OTHER             -> assignment

WorkspaceStatusAfter(q) ==
  CASE q.op = "archive"   -> "archived"
    [] q.op = "unarchive" -> "active"
    [] OTHER              -> workspaceStatus

\* Faulty: the owner count is compared with zero.
RoleRefusalOffByOne(q) ==
  IF membership[q.target].status # "active" THEN "not_found"
  ELSE IF membership[q.target].isOwner /\ q.arg # "owner"
          /\ Cardinality(ActiveOwners(membership)) <= 0
       THEN "last_owner_required"
       ELSE "none"

\* The count each owner check compares with one.
OwnerCount == Cardinality(ActiveOwners(membership))

\* What makes the method throw, in the order the code asks; "none" lets it write.
RoleRefusal(q) ==
  IF membership[q.target].status # "active" THEN "not_found"
  ELSE IF membership[q.target].isOwner /\ q.arg # "owner" /\ OwnerCount <= 1
       THEN "last_owner_required"
       ELSE "none"

\* The last test is the check constraint on the UPDATE: an owner row is active.
StatusRefusal(q) ==
  IF q.target = q.principal /\ q.arg = "suspended" THEN "invalid_context"
  ELSE IF membership[q.target].isOwner /\ q.arg = "suspended"
       THEN IF OwnerCount <= 1 THEN "last_owner_required" ELSE "owner_active_check"
       ELSE "none"

TransferRefusal(q) == IF membership[q.target].status # "active" THEN "not_found" ELSE "none"

Refusal(q) == CASE q.op = "role"     -> RoleRefusal(q)
                [] q.op = "status"   -> StatusRefusal(q)
                [] q.op = "transfer" -> TransferRefusal(q)
                [] OTHER             -> "none"

\* The hand-over inserts both assignments; a row of the same role, even a
\* revoked one, breaks the unique index.
BindingRefusal(q) ==
  IF q.op = "transfer" /\ (assignment[q.target]["owner"] # "none"
                            \/ assignment[q.principal]["admin"] # "none")
  THEN "unique_violation" ELSE "none"

TouchesMemberships(op) == op \in {"role", "status", "transfer"}

---------------------------------------------------------------------------
(* Row locks (PostgreSQL).                                                 *)

Conflict(mode, held) ==
  CASE held = "none"      -> FALSE
    [] held = "key_share" -> mode = "update"
    [] held = "update"    -> TRUE
    [] OTHER              -> mode # "key_share"

Blockers(r) ==
  IF req[r].todo = <<>> THEN {}
  ELSE LET row == Head(req[r].todo)[1]
           mode == Head(req[r].todo)[2]
       IN {s \in Requests \ {r} : Conflict(mode, lock[row][s])}

Stronger(held, mode) ==
  CASE held = "update" -> held
    [] held = "no_key_update" /\ mode = "key_share" -> held
    [] OTHER -> mode

\* Faulty: the connection returns to the pool with its transaction open.
StillLocked(r) == lock

Unlocked(r) == [row \in RowsToLock |-> [lock[row] EXCEPT ![r] = "none"]]

\* A set of requests none of which can proceed before another of the set.
InDeadlock(r) ==
  \E S \in SUBSET Requests : r \in S /\ \A s \in S : Blockers(s) \cap S # {}

---------------------------------------------------------------------------
(* Steps.                                                                  *)

Init ==
  \E founder \in Members, owners \in SUBSET Members :
    /\ founder \in owners
    /\ membership = [m \in Members |-> [isOwner |-> m \in owners, status |-> "active"]]
    /\ assignment =
         [m \in Members |->
            [k \in Roles |->
               CASE k = "owner"  -> IF m \in owners THEN "active" ELSE "none"
                 [] k = "member" -> IF m = founder THEN "none"
                                    ELSE IF m \in owners THEN "revoked" ELSE "active"
                 [] OTHER        -> "none"]]
    /\ workspaceStatus = "active"
    /\ lock = [row \in RowsToLock |-> [r \in Requests |-> "none"]]
    /\ req = [r \in Requests |-> IdleRequest]

\* What the method does before its transaction, the principal's role being key.
Resolved(q, key) ==
  IF ~CanResolve(q.principal) \/ ~RoleAllows(q.op, key) THEN Answered(q, "access_denied")
  ELSE IF q.op = "transfer" /\ q.target = q.principal THEN Answered(q, "none")
  ELSE [q EXCEPT !.phase = "locking", !.todo = LocksFirst(q.op, q.principal, q.target)]

\* A session user's request reaches the route, which resolves the principal;
\* the repository checks the resolved role before it opens a transaction.
Resolve(r) ==
  /\ req[r].phase = "idle"
  /\ \E op \in Ops, p \in Members : \E key \in RoleKeys(p) :
       \E target \in Targets(op), arg \in Args(op), roles \in RoleSets(op) :
         req' = [req EXCEPT ![r] = Resolved(Call(op, p, target, arg, roles), key)]
  /\ UNCHANGED <<membership, assignment, workspaceStatus, lock>>

\* The next row lock is granted once no other transaction holds a conflicting one.
Acquire(r) ==
  /\ req[r].todo # <<>>
  /\ Blockers(r) = {}
  /\ LET row == Head(req[r].todo)[1]
         mode == Head(req[r].todo)[2]
     IN lock' = [lock EXCEPT ![row][r] = Stronger(@, mode)]
  /\ req' = [req EXCEPT ![r].todo = Tail(@)]
  /\ UNCHANGED <<membership, assignment, workspaceStatus>>

\* The transaction ends without a trace and its locks go.
Rollback(r, error) ==
  /\ req' = [req EXCEPT ![r] = Answered(@, error)]
  /\ lock' = Unlocked(r)
  /\ UNCHANGED <<membership, assignment, workspaceStatus>>

\* Holding its rows, the method checks and writes, or throws.
Work(r) ==
  /\ req[r].phase = "locking" /\ req[r].todo = <<>>
  /\ IF Refusal(req[r]) # "none"
     THEN Rollback(r, Refusal(req[r]))
     ELSE /\ req' = [req EXCEPT ![r].phase = "binding", ![r].todo = LocksToBind(req[r])]
          /\ UNCHANGED <<membership, assignment, workspaceStatus, lock>>

\* The role assignments are written; all but assignMemberRoles go on to the audit row.
Bind(r) ==
  /\ req[r].phase = "binding" /\ req[r].todo = <<>>
  /\ IF BindingRefusal(req[r]) # "none"
     THEN Rollback(r, BindingRefusal(req[r]))
     ELSE /\ req' = IF req[r].op = "assign"
                     THEN [req EXCEPT ![r].phase = "precommit"]
                     ELSE [req EXCEPT ![r].phase = "auditing",
                                      ![r].todo = LocksForAudit(req[r].principal)]
          /\ UNCHANGED <<membership, assignment, workspaceStatus, lock>>

\* The audit row is in; COMMIT is sent.
Audit(r) ==
  /\ req[r].phase = "auditing" /\ req[r].todo = <<>>
  /\ req' = [req EXCEPT ![r].phase = "precommit"]
  /\ UNCHANGED <<membership, assignment, workspaceStatus, lock>>

\* The deferred trigger looks for an owner among the committed rows and its own.
OwnerTrigger(r) ==
  /\ req[r].phase = "precommit"
  /\ IF TouchesMemberships(req[r].op) /\ ActiveOwners(MembershipAfter(req[r])) = {}
     THEN Rollback(r, "owner_trigger")
     ELSE /\ req' = [req EXCEPT ![r].phase = "committing"]
          /\ UNCHANGED <<membership, assignment, workspaceStatus, lock>>

Commit(r) ==
  /\ req[r].phase = "committing"
  /\ membership' = MembershipAfter(req[r])
  /\ assignment' = AssignmentAfter(req[r])
  /\ workspaceStatus' = WorkspaceStatusAfter(req[r])
  /\ req' = [req EXCEPT ![r] = Answered(@, "none")]
  /\ lock' = Unlocked(r)

\* PostgreSQL breaks a cycle of waits by aborting one of its transactions.
DetectDeadlock(r) ==
  /\ req[r].phase \in {"locking", "binding", "auditing"}
  /\ InDeadlock(r)
  /\ Rollback(r, "deadlock_detected")

\* The response is sent; the slot is free for another request.
Respond(r) ==
  /\ req[r].phase = "ended"
  /\ req' = [req EXCEPT ![r] = IdleRequest]
  /\ UNCHANGED <<membership, assignment, workspaceStatus, lock>>

Proceed(r) ==
  Acquire(r) \/ Work(r) \/ Bind(r) \/ Audit(r) \/ OwnerTrigger(r) \/ Commit(r) \/ DetectDeadlock(r)

Next == \E r \in Requests : Resolve(r) \/ Proceed(r) \/ Respond(r)

Spec == Init /\ [][Next]_vars

\* One request per slot: a finite batch, for liveness.
NextInBatch == \E r \in Requests : Resolve(r) \/ Proceed(r)

BatchSpec ==
  /\ Init
  /\ [][NextInBatch]_vars
  /\ \A r \in Requests : WF_vars(Proceed(r))

\* A workspace as its creation leaves it: its founder is the only owner.
FoundedSpec == Init /\ OwnerCount = 1 /\ [][Next]_vars

---------------------------------------------------------------------------
(* Properties.                                                             *)

Request ==
  [phase : Phases, op : AllOps \union {"none"}, principal : Members \union {Nobody},
   target : Members \union {Nobody}, arg : Roles \union MemberStatus \union {"none"},
   roles : SUBSET Roles, todo : Seq(RowsToLock \X LockModes), error : Errors]

\* Every variable has its type.
TypeOK ==
  /\ membership \in [Members -> [isOwner : BOOLEAN, status : MemberStatus]]
  /\ assignment \in [Members -> [Roles -> {"none", "active", "revoked"}]]
  /\ workspaceStatus \in WorkspaceStatus
  /\ lock \in [RowsToLock -> [Requests -> LockModes]]
  /\ req \in [Requests -> Request]

\* A workspace always keeps an active owner, whatever demotions, suspensions
\* and hand-overs run at once.
ActiveOwnerRemains == ActiveOwners(membership) # {}

\* Between its owner count and its commit, no other request takes away the
\* owner a transaction counted on: the deferred trigger never has to refuse.
CheckedWriteKeepsAnOwner ==
  \A r \in Requests :
    req[r].phase \in {"binding", "auditing", "precommit", "committing"}
      /\ TouchesMemberships(req[r].op)
      => ActiveOwners(MembershipAfter(req[r])) # {}

\* As long as roles change through the onboarding service alone, the owner flag and
\* the role assignments agree, and a member has exactly one active role, so the
\* resolved role does not depend on row order.
RoleMatchesOwnership ==
  \A m \in Members :
    /\ membership[m].isOwner <=> assignment[m]["owner"] = "active"
    /\ \E k \in Roles : ActiveRoles(m) = {k}

\* The transactions implement one atomic change of the set of owners at a time.
Abstract == INSTANCE Ownership WITH owners <- {m \in Members : membership[m].isOwner}
ImplementsOwnership == Abstract!Spec

\* Every request gets an answer: lock waits end, deadlocks included.
RequestsEnd == \A r \in Requests : req[r].phase # "idle" ~> req[r].phase = "ended"

\* docs/en-US/authentication-and-onboarding.md:40, "Server policy evaluates role
\* changes against the current Membership": who changes a role or hands over
\* ownership is an owner when the change commits.
RoleChangedByCurrentOwner ==
  [][\A r \in Requests :
       req[r].phase = "committing" /\ req'[r].phase = "ended" /\ req[r].op \in {"role", "transfer"}
         => membership[req[r].principal].isOwner]_vars

\* apps/web/src/lib/workspace-organization-i18n.ts:265, "Hand over workspace
\* ownership to another active member": no index stands in the way of an owner who
\* is one still when the hand-over is answered, of one who was given the ownership
\* and hands it back no more than of any other.
HandOverToAnyActiveMember ==
  \A r \in Requests :
    req[r].error = "unique_violation" => ~membership[req[r].principal].isOwner

\* workspace-onboarding-repository.ts:1256, "only the workspace owner can restore the
\* workspace": the owner of an archived workspace is not turned away.
OwnerCanUnarchive ==
  \A r \in Requests :
    req[r].op = "unarchive" /\ req[r].error = "access_denied"
      => ~(membership[req[r].principal].isOwner /\ workspaceStatus = "archived")
=============================================================================
