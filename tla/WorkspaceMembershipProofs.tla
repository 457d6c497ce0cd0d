---------------------- MODULE WorkspaceMembershipProofs ----------------------
(***************************************************************************)
(* For any members and requests: an active owner remains, the write a       *)
(* transaction has checked keeps one until it commits, and the transactions *)
(* implement Ownership.                                                     *)
(*                                                                         *)
(* The argument: a request that has done its checks holds FOR UPDATE locks   *)
(* on the rows it relies on, nobody else holds a lock on such a row, and     *)
(* whoever changes an owner flag or a status holds one.  So what the checks  *)
(* established stays true up to the commit.                                  *)
(***************************************************************************)
EXTENDS WorkspaceMembership, FiniteSetTheorems, TLAPS

Checked(q) == q.phase \in {"binding", "auditing", "precommit", "committing"}
InTransaction(q) == q.phase = "locking" \/ Checked(q)

\* A request in a transaction names existing rows.
CallOK(q) ==
  /\ q.op \in AllOps
  /\ q.principal \in Members
  /\ q.target \in Targets(q.op)
  /\ q.op = "role" => q.arg \in Roles
  /\ q.op = "status" => q.arg \in MemberStatus
  /\ q.op = "transfer" => q.target # q.principal

\* The rows whose FOR UPDATE lock the checks of a request rely on.
Guarded(q) ==
  CASE q.op = "role"     -> {Workspace, q.target}
    [] q.op = "transfer" -> {Workspace, q.target, q.principal}
    [] q.op = "status"   -> {q.target}
    [] OTHER             -> {}

Waiting(q, row) == \E i \in 1..Len(q.todo) : q.todo[i] = <<row, "update">>

HoldsOrWaits(r, row) ==
  lock[row][r] = "update" \/ (req[r].phase = "locking" /\ Waiting(req[r], row))

LocksHeld ==
  \A r \in Requests :
    InTransaction(req[r]) =>
      CallOK(req[r]) /\ \A row \in Guarded(req[r]) : HoldsOrWaits(r, row)

\* A row locked FOR UPDATE is locked by nobody else.
LockExclusive ==
  \A row \in RowsToLock : \A r, s \in Requests :
    r # s /\ lock[row][r] = "update" => lock[row][s] = "none"

OwnersAreActive == \A m \in Members : membership[m].isOwner => membership[m].status = "active"

\* What the checks of a request have established.
Established(q) ==
  /\ q.op \in {"role", "transfer"} => membership[q.target].status = "active"
  /\ q.op = "role" /\ q.arg # "owner" => ActiveOwners(membership) \ {q.target} # {}
  /\ q.op = "status" /\ q.arg = "suspended" => ~membership[q.target].isOwner

ChecksStand == \A r \in Requests : Checked(req[r]) => Established(req[r])

IInv ==
  /\ TypeOK
  /\ LocksHeld
  /\ LockExclusive
  /\ OwnersAreActive
  /\ ChecksStand
  /\ ActiveOwnerRemains

---------------------------------------------------------------------------
(* Types.                                                                  *)

LEMMA ShortLists ==
  ASSUME NEW S, NEW a \in S, NEW b \in S, NEW c \in S
  PROVE  <<>> \in Seq(S) /\ <<a>> \in Seq(S) /\ <<a, b>> \in Seq(S) /\ <<a, b, c>> \in Seq(S)
OBVIOUS

LEMMA AnsweredType ==
  ASSUME NEW q \in Request, NEW error \in Errors
  PROVE  Answered(q, error) \in Request
<1>1. <<>> \in Seq(RowsToLock \X LockModes)
  OBVIOUS
<1>2. q.op \in AllOps \union {"none"} /\ q.principal \in Members \union {Nobody}
  BY DEF Request
<1> QED BY <1>1, <1>2 DEF Answered, IdleRequest, Request, Phases

LEMMA FirstLocksType ==
  ASSUME NEW op \in AllOps, NEW p \in Members, NEW target \in Targets(op)
  PROVE  LocksFirst(op, p, target) \in Seq(RowsToLock \X LockModes)
<1>1. /\ <<Workspace, "update">> \in RowsToLock \X LockModes
      /\ <<Workspace, "no_key_update">> \in RowsToLock \X LockModes
      /\ \A m \in Members : /\ <<m, "update">> \in RowsToLock \X LockModes
                           /\ <<Bindings(m), "update">> \in RowsToLock \X LockModes
  BY DEF RowsToLock, LockModes
<1>2. op \notin {"archive", "unarchive"} => target \in Members
  BY DEF Targets
<1>3. CASE op = "role"
  BY <1>1, <1>2, <1>3, ShortLists DEF LocksFirst
<1>4. CASE op = "transfer"
  BY <1>1, <1>2, <1>4, ShortLists DEF LocksFirst
<1>5. CASE op = "status"
  BY <1>1, <1>2, <1>5, ShortLists DEF LocksFirst
<1>6. CASE op = "assign"
  BY <1>1, <1>2, <1>6, ShortLists DEF LocksFirst
<1>7. CASE op \in {"archive", "unarchive"}
  BY <1>1, <1>7, ShortLists DEF LocksFirst
<1> QED BY <1>3, <1>4, <1>5, <1>6, <1>7 DEF AllOps

LEMMA LockListType ==
  ASSUME NEW q \in Request, CallOK(q)
  PROVE  /\ LocksToBind(q) \in Seq(RowsToLock \X LockModes)
         /\ LocksForAudit(q.principal) \in Seq(RowsToLock \X LockModes)
<1>1. /\ <<Workspace, "key_share">> \in RowsToLock \X LockModes
      /\ \A m \in Members : /\ <<m, "key_share">> \in RowsToLock \X LockModes
                           /\ <<Bindings(m), "update">> \in RowsToLock \X LockModes
  BY DEF RowsToLock, LockModes
<1>2. q.op \notin {"archive", "unarchive"} => q.target \in Members
  BY DEF CallOK, Targets
<1>3. q.principal \in Members
  BY DEF CallOK
<1>4. LocksToBind(q) \in Seq(RowsToLock \X LockModes)
  <2>1. CASE q.op = "role"
    BY <1>1, <1>2, <2>1, ShortLists DEF LocksToBind
  <2>2. CASE q.op = "transfer"
    BY <1>1, <1>2, <1>3, <2>2, ShortLists DEF LocksToBind
  <2>3. CASE q.op = "assign" /\ q.roles # {}
    BY <1>1, <2>3, ShortLists DEF LocksToBind
  <2>4. CASE q.op \notin {"role", "transfer"} /\ ~(q.op = "assign" /\ q.roles # {})
    BY <2>4, <1>1, ShortLists DEF LocksToBind
  <2> QED BY <2>1, <2>2, <2>3, <2>4
<1>5. LocksForAudit(q.principal) \in Seq(RowsToLock \X LockModes)
  BY <1>1, <1>3, ShortLists DEF LocksForAudit
<1> QED BY <1>4, <1>5

LEMMA GrantType ==
  ASSUME NEW held \in [Roles -> {"none", "active", "revoked"}], NEW k \in Roles
  PROVE  Grant(held, k) \in [Roles -> {"none", "active", "revoked"}]
BY DEF Grant, RevokeAll

LEMMA ResolvedType ==
  ASSUME NEW op \in Ops, NEW p \in Members, NEW key \in RoleKeys(p),
         NEW target \in Targets(op), NEW arg \in Args(op), NEW roles \in RoleSets(op)
  PROVE  Resolved(Call(op, p, target, arg, roles), key) \in Request
<1> DEFINE q == Call(op, p, target, arg, roles)
<1>1. op \in AllOps /\ Bindable \subseteq Roles
  BY OpsAssumption
<1>2. target \in Members \union {Nobody} /\ arg \in Roles \union MemberStatus \union {"none"}
      /\ roles \in SUBSET Roles
  BY <1>1 DEF Targets, Args, RoleSets
<1>3. q \in Request /\ q.op = op /\ q.principal = p /\ q.target = target /\ q.arg = arg
  <2>1. <<>> \in Seq(RowsToLock \X LockModes)
    OBVIOUS
  <2> QED BY <1>1, <1>2, <2>1 DEF Call, Request, IdleRequest, Phases, Errors
<1>4. LocksFirst(op, p, target) \in Seq(RowsToLock \X LockModes)
  BY <1>1, FirstLocksType
<1> HIDE DEF q
<1>5. [q EXCEPT !.phase = "locking", !.todo = LocksFirst(op, p, target)] \in Request
  BY <1>3, <1>4 DEF Request, Phases
<1>6. Answered(q, "access_denied") \in Request /\ Answered(q, "none") \in Request
  BY <1>3, AnsweredType DEF Errors
<1> QED BY <1>3, <1>5, <1>6 DEF Resolved, q

LEMMA UnlockedType ==
  ASSUME TypeOK, NEW r \in Requests
  PROVE  Unlocked(r) \in [RowsToLock -> [Requests -> LockModes]]
BY DEF TypeOK, Unlocked, LockModes

LEMMA RollbackType ==
  ASSUME TypeOK, NEW r \in Requests, NEW error \in Errors, Rollback(r, error)
  PROVE  TypeOK'
BY AnsweredType, UnlockedType DEF TypeOK, Rollback

\* Every variable keeps its type.
LEMMA TypeStep ==
  ASSUME TypeOK, LocksHeld, [Next]_vars
  PROVE  TypeOK'
<1> SUFFICES ASSUME NEW r \in Requests, Resolve(r) \/ Proceed(r) \/ Respond(r)
             PROVE  TypeOK'
  BY DEF Next, vars, TypeOK
<1> USE OpsAssumption
<1>0. req[r] \in Request
  BY DEF TypeOK
<1>1. CASE Resolve(r)
  <2>1. \A op \in Ops, p \in Members : \A key \in RoleKeys(p) :
          \A target \in Targets(op), arg \in Args(op), roles \in RoleSets(op) :
            Resolved(Call(op, p, target, arg, roles), key) \in Request
    BY ResolvedType
  <2>2. PICK q \in Request : req' = [req EXCEPT ![r] = q]
    BY <1>1, <2>1 DEF Resolve
  <2> QED BY <1>1, <2>2 DEF Resolve, TypeOK
<1>2. CASE Acquire(r)
  <2>1. req[r].todo \in Seq(RowsToLock \X LockModes) /\ req[r].todo # <<>>
    BY <1>0, <1>2 DEF Acquire, Request
  <2>2. Head(req[r].todo) \in RowsToLock \X LockModes
        /\ Tail(req[r].todo) \in Seq(RowsToLock \X LockModes)
    BY <2>1
  <2>3. [req[r] EXCEPT !.todo = Tail(@)] \in Request
    BY <1>0, <2>2 DEF Request
  <2>4. \A held \in LockModes : Stronger(held, Head(req[r].todo)[2]) \in LockModes
    BY <2>2 DEF Stronger
  <2> QED BY <1>2, <2>2, <2>3, <2>4 DEF Acquire, TypeOK
<1>3. CASE Work(r)
  <2>1. CallOK(req[r])
    BY <1>3 DEF Work, LocksHeld, InTransaction
  <2>2. Refusal(req[r]) \in Errors
    BY DEF Refusal, RoleRefusal, StatusRefusal, TransferRefusal, Errors
  <2>3. [req[r] EXCEPT !.phase = "binding", !.todo = LocksToBind(req[r])] \in Request
    BY <1>0, <2>1, LockListType DEF Request, Phases
  <2> QED BY <1>3, <2>2, <2>3, RollbackType DEF Work, TypeOK
<1>4. CASE Bind(r)
  <2>1. CallOK(req[r])
    BY <1>4 DEF Bind, LocksHeld, InTransaction, Checked
  <2>2. BindingRefusal(req[r]) \in Errors
    BY DEF BindingRefusal, Errors
  <2>3. [req[r] EXCEPT !.phase = "auditing", !.todo = LocksForAudit(req[r].principal)] \in Request
        /\ [req[r] EXCEPT !.phase = "precommit"] \in Request
    BY <1>0, <2>1, LockListType DEF Request, Phases
  <2> QED BY <1>4, <2>2, <2>3, RollbackType DEF Bind, TypeOK
<1>5. CASE Audit(r)
  <2>1. [req[r] EXCEPT !.phase = "precommit"] \in Request
    BY <1>0 DEF Request, Phases
  <2> QED BY <1>5, <2>1 DEF Audit, TypeOK
<1>6. CASE OwnerTrigger(r)
  <2>1. [req[r] EXCEPT !.phase = "committing"] \in Request /\ "owner_trigger" \in Errors
    BY <1>0 DEF Request, Phases, Errors
  <2> QED BY <1>6, <2>1, RollbackType DEF OwnerTrigger, TypeOK
<1>7. CASE Commit(r)
  <2>1. CallOK(req[r])
    BY <1>7 DEF Commit, LocksHeld, InTransaction, Checked
  <2>2. membership' \in [Members -> [isOwner : BOOLEAN, status : MemberStatus]]
    <3>1. /\ membership \in [Members -> [isOwner : BOOLEAN, status : MemberStatus]]
          /\ membership' = MembershipAfter(req[r])
      BY <1>7 DEF Commit, TypeOK
    <3>2. CASE req[r].op = "role"
      BY <3>1, <3>2 DEF MembershipAfter
    <3>3. CASE req[r].op = "status"
      BY <2>1, <3>1, <3>3 DEF MembershipAfter, CallOK
    <3>4. CASE req[r].op = "transfer"
      BY <3>1, <3>4 DEF MembershipAfter
    <3>5. CASE req[r].op \notin {"role", "status", "transfer"}
      BY <3>1, <3>5 DEF MembershipAfter
    <3> QED BY <3>2, <3>3, <3>4, <3>5
  <2>3. assignment' \in [Members -> [Roles -> {"none", "active", "revoked"}]]
    <3>1. /\ assignment \in [Members -> [Roles -> {"none", "active", "revoked"}]]
          /\ assignment' = AssignmentAfter(req[r])
      BY <1>7 DEF Commit, TypeOK
    <3>2. {"owner", "admin"} \subseteq Roles /\ (req[r].op = "role" => req[r].arg \in Roles)
      BY <2>1 DEF Roles, CallOK
    <3>3. req[r].op \in {"role", "transfer", "assign"} =>
            req[r].target \in Members /\ req[r].principal \in Members
      BY <2>1 DEF CallOK, Targets
    <3>4. CASE req[r].op = "role"
      BY <3>1, <3>2, <3>3, <3>4, GrantType DEF AssignmentAfter
    <3>5. CASE req[r].op = "transfer"
      BY <3>1, <3>2, <3>3, <3>5, GrantType DEF AssignmentAfter
    <3>6. CASE req[r].op = "assign"
      BY <3>1, <3>3, <3>6 DEF AssignmentAfter
    <3>7. CASE req[r].op \notin {"role", "transfer", "assign"}
      BY <3>1, <3>7 DEF AssignmentAfter
    <3> QED BY <3>4, <3>5, <3>6, <3>7
  <2>4. workspaceStatus' \in WorkspaceStatus
    BY <1>7 DEF Commit, WorkspaceStatusAfter, TypeOK, WorkspaceStatus
  <2>5. Answered(req[r], "none") \in Request
    BY <1>0, AnsweredType DEF Errors
  <2> QED BY <1>7, <2>2, <2>3, <2>4, <2>5, UnlockedType DEF Commit, TypeOK
<1>8. CASE DetectDeadlock(r)
  BY <1>8, RollbackType DEF DetectDeadlock, Errors
<1>9. CASE Respond(r)
  <2>1. IdleRequest \in Request
    BY DEF IdleRequest, Request, Phases, Errors
  <2> QED BY <1>9, <2>1 DEF Respond, TypeOK
<1> QED BY <1>1, <1>2, <1>3, <1>4, <1>5, <1>6, <1>7, <1>8, <1>9 DEF Proceed

---------------------------------------------------------------------------
(* Locks.                                                                  *)

\* A FOR UPDATE lock is granted only while nobody else holds the row, and once it is
\* held nobody else is granted any lock.
LEMMA ExclusiveStep ==
  ASSUME TypeOK, LockExclusive, [Next]_vars
  PROVE  LockExclusive'
<1>1. CASE UNCHANGED lock
  BY <1>1 DEF LockExclusive
<1>2. ASSUME NEW r \in Requests, lock' = Unlocked(r)
      PROVE  LockExclusive'
  BY <1>2 DEF LockExclusive, Unlocked, TypeOK
<1>3. ASSUME NEW r \in Requests, Acquire(r)
      PROVE  LockExclusive'
  <2> DEFINE row == Head(req[r].todo)[1]
             mode == Head(req[r].todo)[2]
  <2>1. row \in RowsToLock /\ mode \in LockModes
    <3>1. req[r].todo \in Seq(RowsToLock \X LockModes) /\ req[r].todo # <<>>
      BY <1>3 DEF Acquire, TypeOK, Request
    <3>2. Head(req[r].todo) \in RowsToLock \X LockModes
      BY <3>1
    <3> QED BY <3>2
  <2>2. lock' = [lock EXCEPT ![row][r] = Stronger(@, mode)]
    BY <1>3 DEF Acquire
  <2>3. \A s \in Requests \ {r} : ~Conflict(mode, lock[row][s])
    BY <1>3 DEF Acquire, Blockers
  <2> HIDE DEF row, mode
  <2>4. ASSUME NEW w \in RowsToLock, NEW s \in Requests, NEW t \in Requests,
               s # t, lock'[w][s] = "update"
        PROVE  lock'[w][t] = "none"
    <3>1. lock \in [RowsToLock -> [Requests -> LockModes]]
      BY DEF TypeOK
    <3>2. CASE w # row \/ (s # r /\ t # r)
      BY <2>1, <2>2, <2>4, <3>1, <3>2 DEF LockExclusive
    <3>3. CASE w = row /\ s = r
      <4>1. lock'[row][r] = Stronger(lock[row][r], mode) /\ lock'[row][t] = lock[row][t]
        BY <2>1, <2>2, <2>4, <3>1, <3>3
      <4>2. CASE lock[row][r] = "update"
        BY <2>1, <2>4, <3>3, <4>1, <4>2 DEF LockExclusive
      <4>3. CASE mode = "update"
        BY <2>1, <2>3, <2>4, <3>1, <3>3, <4>1, <4>3 DEF Conflict, LockModes
      <4> QED BY <2>1, <2>4, <3>3, <4>1, <4>2, <4>3 DEF Stronger, LockModes
    <3>4. CASE w = row /\ t = r
      <4>1. lock[row][s] = "update"
        BY <2>1, <2>2, <2>4, <3>1, <3>4
      <4> QED BY <2>3, <2>4, <3>4, <4>1 DEF Conflict
    <3> QED BY <3>2, <3>3, <3>4
  <2> QED BY <2>4 DEF LockExclusive
<1>4. SUFFICES ASSUME NEW r \in Requests, Resolve(r) \/ Proceed(r) \/ Respond(r)
               PROVE  UNCHANGED lock \/ lock' = Unlocked(r) \/ Acquire(r)
  BY <1>1, <1>2, <1>3 DEF Next, vars
<1> QED BY <1>4 DEF Resolve, Proceed, Respond, Work, Bind, Audit, OwnerTrigger, Commit,
                    DetectDeadlock, Rollback

\* The first locks of a method are those its checks rely on.
LEMMA FirstLocksGuard ==
  ASSUME NEW q, CallOK(q), q.todo = LocksFirst(q.op, q.principal, q.target),
         NEW row \in Guarded(q)
  PROVE  Waiting(q, row)
<1>1. CASE q.op = "role"
  <2>1. Len(q.todo) = 2 /\ q.todo[1] = <<Workspace, "update">> /\ q.todo[2] = <<q.target, "update">>
    BY <1>1 DEF LocksFirst
  <2> QED BY <1>1, <2>1 DEF Guarded, Waiting
<1>2. CASE q.op = "transfer"
  <2>1. /\ Len(q.todo) = 3 /\ q.todo[1] = <<Workspace, "update">>
        /\ q.todo[2] = <<q.target, "update">> /\ q.todo[3] = <<q.principal, "update">>
    BY <1>2 DEF LocksFirst
  <2> QED BY <1>2, <2>1 DEF Guarded, Waiting
<1>3. CASE q.op = "status"
  <2>1. Len(q.todo) = 1 /\ q.todo[1] = <<q.target, "update">>
    BY <1>3 DEF LocksFirst
  <2> QED BY <1>3, <2>1 DEF Guarded, Waiting
<1> QED BY <1>1, <1>2, <1>3 DEF Guarded

LEMMA GuardedRows ==
  ASSUME NEW q, CallOK(q)
  PROVE  Guarded(q) \subseteq RowsToLock
BY DEF Guarded, CallOK, Targets, RowsToLock

\* A step of one request leaves the others, and their locks, alone.
LEMMA Frame ==
  ASSUME TypeOK, NEW r \in Requests, Resolve(r) \/ Proceed(r) \/ Respond(r),
         NEW s \in Requests, s # r
  PROVE  req'[s] = req[s] /\ \A row \in RowsToLock : lock'[row][s] = lock[row][s]
<1>1. req'[s] = req[s]
  BY DEF TypeOK, Resolve, Proceed, Respond, Acquire, Work, Bind, Audit, OwnerTrigger, Commit,
         DetectDeadlock, Rollback
<1>2. lock' = lock \/ lock' = Unlocked(r) \/ Acquire(r)
  BY DEF Resolve, Proceed, Respond, Work, Bind, Audit, OwnerTrigger, Commit, DetectDeadlock, Rollback
<1>3. CASE lock' = Unlocked(r)
  BY <1>1, <1>3 DEF Unlocked, TypeOK
<1>4. CASE Acquire(r)
  BY <1>1, <1>4 DEF Acquire, TypeOK
<1> QED BY <1>1, <1>2, <1>3, <1>4

LEMMA LocksHeldStep ==
  ASSUME TypeOK, LocksHeld, [Next]_vars
  PROVE  LocksHeld'
<1>1. CASE UNCHANGED vars
  BY <1>1 DEF vars, LocksHeld, HoldsOrWaits
<1>2. SUFFICES ASSUME NEW r \in Requests, Resolve(r) \/ Proceed(r) \/ Respond(r)
               PROVE  LocksHeld'
  BY <1>1 DEF Next
<1>3. SUFFICES ASSUME InTransaction(req'[r])
               PROVE  CallOK(req'[r]) /\ \A row \in Guarded(req'[r]) : HoldsOrWaits(r, row)'
  <2>1. ASSUME NEW s \in Requests, s # r, InTransaction(req'[s])
        PROVE  CallOK(req'[s]) /\ \A row \in Guarded(req'[s]) : HoldsOrWaits(s, row)'
    <3>1. req'[s] = req[s] /\ \A row \in RowsToLock : lock'[row][s] = lock[row][s]
      BY <1>2, <2>1, Frame
    <3>2. CallOK(req[s]) /\ \A row \in Guarded(req[s]) : row \in RowsToLock /\ HoldsOrWaits(s, row)
      BY <2>1, <3>1, GuardedRows DEF LocksHeld
    <3> QED BY <3>1, <3>2 DEF HoldsOrWaits
  <2> QED BY <1>3, <2>1 DEF LocksHeld
<1>4. CASE Resolve(r)
  <2>1. PICK op \in Ops, p \in Members : \E key \in RoleKeys(p) :
          \E target \in Targets(op), arg \in Args(op), roles \in RoleSets(op) :
            req' = [req EXCEPT ![r] = Resolved(Call(op, p, target, arg, roles), key)]
    BY <1>4 DEF Resolve
  <2>2. PICK target \in Targets(op), arg \in Args(op), roles \in RoleSets(op), key \in RoleKeys(p) :
          req'[r] = Resolved(Call(op, p, target, arg, roles), key)
    BY <2>1 DEF TypeOK
  <2> DEFINE q == Call(op, p, target, arg, roles)
  <2>3. q.op = op /\ q.principal = p /\ q.target = target /\ q.arg = arg /\ DOMAIN q = DOMAIN IdleRequest
        /\ "todo" \in DOMAIN IdleRequest /\ "phase" \in DOMAIN IdleRequest
    BY DEF Call, IdleRequest
  <2>4. Answered(q, "access_denied").phase = "ended" /\ Answered(q, "none").phase = "ended"
    BY DEF Answered, IdleRequest
  <2>5. /\ ~(op = "transfer" /\ target = p)
        /\ req'[r] = [q EXCEPT !.phase = "locking", !.todo = LocksFirst(op, p, target)]
    <3> HIDE DEF q
    <3>1. req'[r] = Answered(q, "access_denied") \/ req'[r] = Answered(q, "none")
          \/ ( /\ ~(op = "transfer" /\ target = p)
               /\ req'[r] = [q EXCEPT !.phase = "locking", !.todo = LocksFirst(op, p, target)])
      BY <2>2, <2>3 DEF Resolved, q
    <3> QED BY <1>3, <2>4, <3>1 DEF InTransaction, Checked
  <2>6. /\ req'[r].op = op /\ req'[r].principal = p /\ req'[r].target = target
        /\ req'[r].arg = arg /\ req'[r].phase = "locking"
        /\ req'[r].todo = LocksFirst(op, p, target)
    BY <2>5 DEF Call, IdleRequest
  <2>7. CallOK(req'[r])
    BY <2>5, <2>6, OpsAssumption DEF CallOK, Args
  <2>8. \A row \in Guarded(req'[r]) : Waiting(req'[r], row)
    BY <2>6, <2>7, FirstLocksGuard
  <2> QED BY <2>6, <2>7, <2>8 DEF HoldsOrWaits
<1>5. CASE Acquire(r)
  <2> DEFINE q == req[r]
             todo == req[r].todo
  <2>1. todo \in Seq(RowsToLock \X LockModes) /\ todo # <<>>
    BY <1>5 DEF Acquire, TypeOK, Request
  <2>2. req'[r] = [q EXCEPT !.todo = Tail(todo)]
    BY <1>5 DEF Acquire, TypeOK
  <2>3. /\ req'[r].phase = q.phase /\ req'[r].op = q.op /\ req'[r].principal = q.principal
        /\ req'[r].target = q.target /\ req'[r].arg = q.arg /\ req'[r].todo = Tail(todo)
    BY <2>2 DEF TypeOK, Request
  <2>4. CallOK(q) /\ \A row \in Guarded(q) : row \in RowsToLock /\ HoldsOrWaits(r, row)
    BY <1>3, <2>3, GuardedRows DEF LocksHeld, InTransaction, Checked
  <2>5. CallOK(req'[r]) /\ Guarded(req'[r]) = Guarded(q)
    BY <2>3, <2>4 DEF CallOK, Guarded
  <2>6. lock' = [lock EXCEPT ![Head(todo)[1]][r] = Stronger(@, Head(todo)[2])]
    BY <1>5 DEF Acquire
  <2>7. ASSUME NEW row \in Guarded(q)
        PROVE  HoldsOrWaits(r, row)'
    <3>1. row \in RowsToLock /\ lock \in [RowsToLock -> [Requests -> LockModes]]
      BY <2>4 DEF TypeOK
    <3>2. CASE lock[row][r] = "update"
      <4>1. lock'[row][r] = "update"
        BY <2>6, <3>1, <3>2 DEF Stronger
      <4> QED BY <4>1 DEF HoldsOrWaits
    <3>3. CASE q.phase = "locking" /\ Waiting(q, row)
      <4>1. PICK i \in 1..Len(todo) : todo[i] = <<row, "update">>
        BY <3>3 DEF Waiting
      <4>2. CASE i = 1
        <5>1. Head(todo) = <<row, "update">>
          BY <2>1, <4>1, <4>2
        <5>2. lock'[row][r] = Stronger(lock[row][r], "update")
          BY <2>6, <3>1, <5>1
        <5> QED BY <5>2 DEF HoldsOrWaits, Stronger
      <4>3. CASE i # 1
        <5>1. i - 1 \in 1..Len(Tail(todo)) /\ Tail(todo)[i - 1] = <<row, "update">>
          BY <2>1, <4>1, <4>3
        <5> QED BY <2>3, <3>3, <5>1 DEF HoldsOrWaits, Waiting
      <4> QED BY <4>2, <4>3
    <3> QED BY <2>4, <3>2, <3>3 DEF HoldsOrWaits
  <2> QED BY <2>5, <2>7
<1>6. CASE Work(r) \/ Bind(r) \/ Audit(r) \/ OwnerTrigger(r)
  <2>1. /\ InTransaction(req[r])
        /\ req[r].phase = "locking" => req[r].todo = <<>>
        /\ lock' = lock /\ Checked(req'[r])
        /\ req'[r].op = req[r].op /\ req'[r].principal = req[r].principal
        /\ req'[r].target = req[r].target /\ req'[r].arg = req[r].arg
    <3>1. req[r] \in Request
      BY DEF TypeOK
    <3>2. \A error : ~Rollback(r, error)
      BY <1>3 DEF Rollback, TypeOK, Answered, IdleRequest, InTransaction, Checked
    <3>3. CASE Work(r)
      BY <1>3, <3>1, <3>2, <3>3 DEF Work, TypeOK, Request, InTransaction, Checked
    <3>4. CASE Bind(r)
      BY <1>3, <3>1, <3>2, <3>4 DEF Bind, TypeOK, Request, InTransaction, Checked
    <3>5. CASE Audit(r)
      BY <1>3, <3>1, <3>5 DEF Audit, TypeOK, Request, InTransaction, Checked
    <3>6. CASE OwnerTrigger(r)
      BY <1>3, <3>1, <3>2, <3>6 DEF OwnerTrigger, TypeOK, Request, InTransaction, Checked
    <3> QED BY <1>6, <3>3, <3>4, <3>5, <3>6
  <2>2. CallOK(req[r]) /\ \A row \in Guarded(req[r]) : lock[row][r] = "update"
    <3>1. CallOK(req[r]) /\ \A row \in Guarded(req[r]) : HoldsOrWaits(r, row)
      BY <2>1 DEF LocksHeld
    <3>2. req[r].phase = "locking" => \A row : ~Waiting(req[r], row)
      BY <2>1 DEF Waiting
    <3> QED BY <3>1, <3>2 DEF HoldsOrWaits
  <2>3. CallOK(req'[r]) /\ Guarded(req'[r]) = Guarded(req[r])
    BY <2>1, <2>2 DEF CallOK, Guarded
  <2> QED BY <2>1, <2>2, <2>3 DEF HoldsOrWaits
<1>7. CASE Commit(r) \/ DetectDeadlock(r) \/ Respond(r)
  <2>1. req'[r].phase \in {"ended", "idle"}
    <3>1. \A q, error : Answered(q, error).phase = "ended"
      BY DEF Answered, IdleRequest
    <3>2. IdleRequest.phase = "idle"
      BY DEF IdleRequest
    <3> QED BY <1>7, <3>1, <3>2 DEF Commit, DetectDeadlock, Rollback, Respond, TypeOK
  <2> QED BY <1>3, <2>1 DEF InTransaction, Checked
<1> QED BY <1>2, <1>4, <1>5, <1>6, <1>7 DEF Proceed

\* Two requests past their checks rely on different rows.
LEMMA Separate ==
  ASSUME LocksHeld, LockExclusive, NEW r \in Requests, NEW s \in Requests, r # s,
         Checked(req[r]), Checked(req[s])
  PROVE  Guarded(req[r]) \cap Guarded(req[s]) = {}
<1>1. ASSUME NEW t \in Requests, Checked(req[t])
      PROVE  \A row \in Guarded(req[t]) : row \in RowsToLock /\ lock[row][t] = "update"
  <2>1. CallOK(req[t]) /\ \A row \in Guarded(req[t]) : HoldsOrWaits(t, row)
    BY <1>1 DEF LocksHeld, InTransaction
  <2> QED BY <1>1, <2>1, GuardedRows DEF HoldsOrWaits, Checked
<1>2. ASSUME NEW row \in Guarded(req[r]) \cap Guarded(req[s])
      PROVE  FALSE
  BY <1>1, <1>2 DEF LockExclusive
<1> QED BY <1>2

---------------------------------------------------------------------------
(* Owners.                                                                 *)

LEMMA OwnersFinite == IsFiniteSet(ActiveOwners(membership))
<1>1. ActiveOwners(membership) \subseteq Members
  BY DEF ActiveOwners
<1> QED BY <1>1, MembersAssumption, FS_Subset

\* An owner count above one leaves somebody when one owner goes.
LEMMA TwoOwners ==
  ASSUME ~(OwnerCount <= 1), NEW m
  PROVE  ActiveOwners(membership) \ {m} # {}
<1> DEFINE S == ActiveOwners(membership)
<1>1. IsFiniteSet(S) /\ Cardinality(S) \in Nat
  BY OwnersFinite, FS_CardinalityType
<1>2. SUFFICES ASSUME S \ {m} = {} PROVE FALSE
  OBVIOUS
<1>3. S = {} \/ S = {m}
  BY <1>2
<1>4. Cardinality(S) <= 1
  <2>1. Cardinality({}) = 0 /\ Cardinality({m}) = 1
    BY FS_EmptySet, FS_Singleton
  <2> HIDE DEF S
  <2> QED BY <1>3, <2>1
<1> QED BY <1>4 DEF OwnerCount

\* What the checks of a method let through.
LEMMA ChecksEstablish ==
  ASSUME ActiveOwnerRemains, NEW q, CallOK(q), Refusal(q) = "none"
  PROVE  Established(q)
<1>1. CASE q.op = "role"
  <2>1. RoleRefusal(q) = "none"
    BY <1>1 DEF Refusal
  <2>2. membership[q.target].status = "active"
    BY <2>1 DEF RoleRefusal
  <2>3. ASSUME q.arg # "owner"
        PROVE  ActiveOwners(membership) \ {q.target} # {}
    <3>1. CASE membership[q.target].isOwner
      BY <2>1, <2>3, <3>1, TwoOwners DEF RoleRefusal
    <3>2. CASE ~membership[q.target].isOwner
      BY <3>2 DEF ActiveOwnerRemains, ActiveOwners
    <3> QED BY <3>1, <3>2
  <2> QED BY <1>1, <2>2, <2>3 DEF Established
<1>2. CASE q.op = "status"
  BY <1>2 DEF Refusal, StatusRefusal, Established
<1>3. CASE q.op = "transfer"
  BY <1>3 DEF Refusal, TransferRefusal, Established
<1> QED BY <1>1, <1>2, <1>3 DEF Established

LEMMA CommitKeepsOwners ==
  ASSUME IInv, NEW r \in Requests, Commit(r)
  PROVE  /\ OwnersAreActive' /\ ActiveOwnerRemains'
         /\ \A s \in Requests \ {r} : Checked(req[s]) => Established(req[s])'
<1> DEFINE q == req[r]
           t == req[r].target
<1>1. Checked(q) /\ CallOK(q) /\ Established(q) /\ membership' = MembershipAfter(q)
  BY DEF IInv, Commit, LocksHeld, InTransaction, Checked, ChecksStand
<1>2. \A s \in Requests \ {r} : Checked(req[s]) =>
        req'[s] = req[s] /\ CallOK(req[s]) /\ Established(req[s])
        /\ Guarded(q) \cap Guarded(req[s]) = {}
  <2>1. \A s \in Requests \ {r} : req'[s] = req[s]
    BY Frame DEF IInv, Proceed
  <2>2. \A s \in Requests : Checked(req[s]) => CallOK(req[s]) /\ Established(req[s])
    BY DEF IInv, LocksHeld, InTransaction, ChecksStand
  <2>3. \A s \in Requests \ {r} : Checked(req[s]) => Guarded(q) \cap Guarded(req[s]) = {}
    BY <1>1, Separate DEF IInv
  <2> QED BY <2>1, <2>2, <2>3
<1>3. membership \in [Members -> [isOwner : BOOLEAN, status : MemberStatus]]
  BY DEF IInv, TypeOK
<1>4. OwnersAreActive /\ ActiveOwnerRemains
  BY DEF IInv
<1> HIDE DEF q, t
<1>5. CASE q.op = "role"
  <2>1. t \in Members /\ Workspace \in Guarded(q) /\ t \in Guarded(q)
        /\ membership[t].status = "active"
    BY <1>1, <1>5 DEF CallOK, Targets, Guarded, Established, q, t
  <2>2. membership' = [membership EXCEPT ![t].isOwner = (q.arg = "owner")]
    BY <1>1, <1>5 DEF MembershipAfter, q, t
  <2>3. OwnersAreActive'
    BY <1>3, <1>4, <2>1, <2>2 DEF OwnersAreActive
  <2>4. ActiveOwnerRemains'
    <3>1. CASE q.arg = "owner"
      <4>1. t \in ActiveOwners(membership')
        BY <1>3, <2>1, <2>2, <3>1 DEF ActiveOwners
      <4> QED BY <4>1 DEF ActiveOwnerRemains
    <3>2. CASE q.arg # "owner"
      <4>1. PICK m \in ActiveOwners(membership) : m # t
        BY <1>1, <1>5, <3>2 DEF Established, q, t
      <4>2. m \in ActiveOwners(membership')
        BY <1>3, <2>2, <4>1 DEF ActiveOwners
      <4> QED BY <4>2 DEF ActiveOwnerRemains
    <3> QED BY <3>1, <3>2
  <2>5. ASSUME NEW s \in Requests \ {r}, Checked(req[s])
        PROVE  Established(req[s])'
    <3>1. req[s].op \notin {"role", "transfer"}
      BY <1>2, <2>1, <2>5 DEF Guarded
    <3>2. req[s].op = "status" => req[s].target # t
      BY <1>2, <2>1, <2>5 DEF Guarded
    <3>3. req[s].op = "status" => req[s].target \in Members
      BY <1>2, <2>5 DEF CallOK, Targets
    <3> QED BY <1>2, <1>3, <2>2, <2>5, <3>1, <3>2, <3>3 DEF Established
  <2> QED BY <2>3, <2>4, <2>5
<1>6. CASE q.op = "transfer"
  <2> DEFINE p == q.principal
  <2>1. t \in Members /\ p \in Members /\ p # t /\ Workspace \in Guarded(q)
        /\ t \in Guarded(q) /\ p \in Guarded(q) /\ membership[t].status = "active"
    BY <1>1, <1>6 DEF CallOK, Targets, Guarded, Established, q, t
  <2>2. membership' = [membership EXCEPT ![t].isOwner = TRUE, ![p].isOwner = FALSE]
    BY <1>1, <1>6 DEF MembershipAfter, q, t
  <2> HIDE DEF p
  <2>3. OwnersAreActive'
    BY <1>3, <1>4, <2>1, <2>2 DEF OwnersAreActive
  <2>4. t \in ActiveOwners(membership')
    BY <1>3, <2>1, <2>2 DEF ActiveOwners
  <2>5. ASSUME NEW s \in Requests \ {r}, Checked(req[s])
        PROVE  Established(req[s])'
    <3>1. req[s].op \notin {"role", "transfer"}
      BY <1>2, <2>1, <2>5 DEF Guarded
    <3>2. req[s].op = "status" => req[s].target # t /\ req[s].target # p
      BY <1>2, <2>1, <2>5 DEF Guarded
    <3>3. req[s].op = "status" => req[s].target \in Members
      BY <1>2, <2>5 DEF CallOK, Targets
    <3> QED BY <1>2, <1>3, <2>2, <2>5, <3>1, <3>2, <3>3 DEF Established
  <2> QED BY <2>3, <2>4, <2>5 DEF ActiveOwnerRemains
<1>7. CASE q.op = "status"
  <2>1. t \in Members /\ t \in Guarded(q) /\ q.arg \in MemberStatus
        /\ (q.arg = "suspended" => ~membership[t].isOwner)
    BY <1>1, <1>7 DEF CallOK, Targets, Guarded, Established, q, t
  <2>2. membership' = [membership EXCEPT ![t].status = q.arg]
    BY <1>1, <1>7 DEF MembershipAfter, q, t
  <2>3. OwnersAreActive' /\ ActiveOwners(membership') = ActiveOwners(membership)
    BY <1>3, <1>4, <2>1, <2>2 DEF OwnersAreActive, ActiveOwners, MemberStatus
  <2>4. ASSUME NEW s \in Requests \ {r}, Checked(req[s])
        PROVE  Established(req[s])'
    <3>1. req[s].op \in {"role", "transfer", "status"} =>
            req[s].target # t /\ req[s].target \in Members
      BY <1>2, <2>1, <2>4 DEF Guarded, CallOK, Targets
    <3>2. membership'[req[s].target] = membership[req[s].target]
          \/ req[s].op \notin {"role", "transfer", "status"}
      BY <1>3, <2>2, <3>1
    <3> QED BY <1>2, <2>3, <2>4, <3>2 DEF Established
  <2> QED BY <1>4, <2>3, <2>4 DEF ActiveOwnerRemains
<1>8. CASE q.op \notin {"role", "transfer", "status"}
  <2>1. membership' = membership
    BY <1>1, <1>8 DEF MembershipAfter
  <2> QED BY <1>2, <1>4, <2>1 DEF OwnersAreActive, ActiveOwnerRemains, Established
<1> QED BY <1>5, <1>6, <1>7, <1>8

LEMMA OwnersStep ==
  ASSUME IInv, [Next]_vars
  PROVE  OwnersAreActive' /\ ChecksStand' /\ ActiveOwnerRemains'
<1>1. CASE UNCHANGED vars
  BY <1>1 DEF vars, IInv, OwnersAreActive, ChecksStand, Established, ActiveOwnerRemains
<1>2. ASSUME NEW r \in Requests, Commit(r)
      PROVE  OwnersAreActive' /\ ChecksStand' /\ ActiveOwnerRemains'
  <2>1. ~Checked(req'[r])
    <3>1. Answered(req[r], "none").phase = "ended"
      BY DEF Answered, IdleRequest
    <3> QED BY <1>2, <3>1 DEF Commit, Checked, IInv, TypeOK
  <2>2. \A s \in Requests \ {r} : req'[s] = req[s]
    BY <1>2, Frame DEF IInv, Proceed
  <2>3. \A s \in Requests \ {r} : Checked(req[s]) => Established(req[s])'
    BY <1>2, CommitKeepsOwners
  <2> QED BY <1>2, <2>1, <2>2, <2>3, CommitKeepsOwners DEF ChecksStand, Checked
<1>3. ASSUME NEW r \in Requests, Resolve(r) \/ Proceed(r) \/ Respond(r), ~Commit(r)
      PROVE  OwnersAreActive' /\ ChecksStand' /\ ActiveOwnerRemains'
  <2>1. membership' = membership
    BY <1>3 DEF Resolve, Proceed, Respond, Acquire, Work, Bind, Audit, OwnerTrigger,
                DetectDeadlock, Rollback
  <2>2. \A s \in Requests \ {r} : req'[s] = req[s]
    BY <1>3, Frame DEF IInv
  <2>3. ASSUME Checked(req'[r])
        PROVE  Established(req'[r])
    <3>1. /\ req[r].phase = "locking" => Refusal(req[r]) = "none"
          /\ InTransaction(req[r])
          /\ req'[r].op = req[r].op /\ req'[r].target = req[r].target /\ req'[r].arg = req[r].arg
      <4>1. req[r] \in Request /\ req \in [Requests -> Request]
        BY DEF IInv, TypeOK
      <4>2. \A q, error : Answered(q, error).phase = "ended"
        BY DEF Answered, IdleRequest
      <4>3. \A error : ~Rollback(r, error)
        BY <2>3, <4>1, <4>2 DEF Rollback, Checked
      <4>4. CASE Resolve(r)
        <5>1. \A op, p, target, arg, roles, key :
                ~Checked(Resolved(Call(op, p, target, arg, roles), key))
          BY DEF Resolved, Call, Answered, IdleRequest, Checked
        <5> QED BY <2>3, <4>1, <4>4, <5>1 DEF Resolve
      <4>5. CASE Acquire(r)
        <5>1. req'[r] = [req[r] EXCEPT !.todo = Tail(@)] /\ req'[r].phase = req[r].phase
          BY <4>1, <4>5 DEF Acquire, Request
        <5>2. Checked(req[r])
          BY <2>3, <5>1 DEF Checked
        <5> QED BY <4>1, <5>1, <5>2 DEF Checked, InTransaction, Request
      <4>6. CASE Work(r)
        BY <4>1, <4>3, <4>6 DEF Work, InTransaction, Request
      <4>7. CASE Bind(r)
        BY <4>1, <4>3, <4>7 DEF Bind, InTransaction, Checked, Request
      <4>8. CASE Audit(r) \/ OwnerTrigger(r)
        BY <4>1, <4>3, <4>8 DEF Audit, OwnerTrigger, InTransaction, Checked, Request
      <4>9. CASE DetectDeadlock(r) \/ Respond(r)
        BY <2>3, <4>1, <4>3, <4>9 DEF DetectDeadlock, Respond, Checked, IdleRequest
      <4> QED BY <1>3, <4>4, <4>5, <4>6, <4>7, <4>8, <4>9 DEF Proceed
    <3>2. CallOK(req[r])
      BY <3>1 DEF IInv, LocksHeld
    <3>3. Established(req[r])
      <4>1. CASE Checked(req[r])
        BY <4>1 DEF IInv, ChecksStand
      <4>2. CASE req[r].phase = "locking"
        BY <3>1, <3>2, <4>2, ChecksEstablish DEF IInv
      <4> QED BY <3>1, <4>1, <4>2 DEF InTransaction
    <3> QED BY <3>1, <3>3 DEF Established
  <2> QED BY <2>1, <2>2, <2>3 DEF IInv, OwnersAreActive, ActiveOwnerRemains, ChecksStand, Checked,
                                  Established, ActiveOwners
<1> QED BY <1>1, <1>2, <1>3 DEF Next, Proceed

LEMMA InitInvariant == Init => IInv
<1> SUFFICES ASSUME Init PROVE IInv
  OBVIOUS
<1>1. PICK founder \in Members, owners \in SUBSET Members :
        /\ founder \in owners
        /\ membership = [m \in Members |-> [isOwner |-> m \in owners, status |-> "active"]]
        /\ assignment =
             [m \in Members |->
                [k \in Roles |->
                   CASE k = "owner"  -> IF m \in owners THEN "active" ELSE "none"
                     [] k = "member" -> IF m = founder THEN "none"
                                        ELSE IF m \in owners THEN "revoked" ELSE "active"
                     [] OTHER        -> "none"]]
  BY DEF Init
<1>2. /\ workspaceStatus = "active"
      /\ lock = [row \in RowsToLock |-> [r \in Requests |-> "none"]]
      /\ req = [r \in Requests |-> IdleRequest]
  BY DEF Init
<1>3. TypeOK
  <2>1. IdleRequest \in Request
    <3>1. <<>> \in Seq(RowsToLock \X LockModes)
      OBVIOUS
    <3> QED BY <3>1 DEF IdleRequest, Request, Phases, Errors
  <2>2. membership \in [Members -> [isOwner : BOOLEAN, status : MemberStatus]]
    BY <1>1 DEF MemberStatus
  <2>3. assignment \in [Members -> [Roles -> {"none", "active", "revoked"}]]
    BY <1>1 DEF Roles
  <2> QED BY <1>2, <2>1, <2>2, <2>3 DEF TypeOK, WorkspaceStatus, LockModes
<1>4. \A r \in Requests : ~InTransaction(req[r])
  BY <1>2 DEF IdleRequest, InTransaction, Checked
<1>5. LockExclusive
  BY <1>2 DEF LockExclusive
<1>6. OwnersAreActive /\ ActiveOwnerRemains
  BY <1>1 DEF OwnersAreActive, ActiveOwnerRemains, ActiveOwners
<1> QED BY <1>3, <1>4, <1>5, <1>6 DEF IInv, LocksHeld, ChecksStand, InTransaction

LEMMA StepInvariant == IInv /\ [Next]_vars => IInv'
BY TypeStep, LocksHeldStep, ExclusiveStep, OwnersStep DEF IInv

LEMMA Invariance == Spec => []IInv
BY InitInvariant, StepInvariant, PTL DEF Spec

\* Every variable keeps its type, whatever runs (all of WorkspaceMembership).
THEOREM TypeCorrect == Spec => []TypeOK
BY Invariance, PTL DEF IInv

\* The workspace never loses its last active owner (updateMemberRole,
\* updateMemberStatus, transferWorkspaceOwnership and whatever runs beside them).
THEOREM OwnerRemains == Spec => []ActiveOwnerRemains
BY Invariance, PTL DEF IInv

LEMMA WriteKeepsAnOwner ==
  ASSUME IInv, NEW r \in Requests, Checked(req[r])
  PROVE  ActiveOwners(MembershipAfter(req[r])) # {}
<1> DEFINE q == req[r]
           t == req[r].target
<1>1. CallOK(q) /\ Established(q)
  BY DEF IInv, LocksHeld, InTransaction, ChecksStand
<1>2. membership \in [Members -> [isOwner : BOOLEAN, status : MemberStatus]]
      /\ OwnersAreActive /\ ActiveOwners(membership) # {}
  BY DEF IInv, TypeOK, ActiveOwnerRemains
<1>3. q.op \in {"role", "transfer", "status"} => t \in Members
  BY <1>1 DEF CallOK, Targets
<1> HIDE DEF q, t
<1>4. CASE q.op = "role" /\ q.arg = "owner"
  <2>1. t \in ActiveOwners(MembershipAfter(q))
    BY <1>1, <1>2, <1>3, <1>4 DEF MembershipAfter, ActiveOwners, Established, q, t
  <2> QED BY <2>1 DEF q
<1>5. CASE q.op = "role" /\ q.arg # "owner"
  <2>1. PICK m \in ActiveOwners(membership) : m # t
    BY <1>1, <1>5 DEF Established, q, t
  <2>2. m \in ActiveOwners(MembershipAfter(q))
    BY <1>2, <1>3, <1>5, <2>1 DEF MembershipAfter, ActiveOwners, q, t
  <2> QED BY <2>2 DEF q
<1>6. CASE q.op = "transfer"
  <2>1. q.principal # t
    BY <1>1, <1>6 DEF CallOK, q, t
  <2>2. t \in ActiveOwners(MembershipAfter(q))
    BY <1>1, <1>2, <1>3, <1>6, <2>1 DEF MembershipAfter, ActiveOwners, Established, q, t
  <2> QED BY <2>2 DEF q
<1>7. CASE q.op = "status"
  <2>1. PICK m \in ActiveOwners(membership) : TRUE
    BY <1>2
  <2>2. m \in ActiveOwners(MembershipAfter(q))
    BY <1>1, <1>2, <1>3, <1>7, <2>1
       DEF MembershipAfter, ActiveOwners, Established, CallOK, MemberStatus, q, t
  <2> QED BY <2>2 DEF q
<1>8. CASE q.op \notin {"role", "transfer", "status"}
  BY <1>2, <1>8 DEF MembershipAfter, q
<1> QED BY <1>4, <1>5, <1>6, <1>7, <1>8

\* From its checks to its commit a transaction may rely on them: the write it is
\* about to commit leaves an owner, so the deferred trigger never refuses it.
THEOREM CheckedWrites == Spec => []CheckedWriteKeepsAnOwner
<1>1. IInv => CheckedWriteKeepsAnOwner
  BY WriteKeepsAnOwner DEF CheckedWriteKeepsAnOwner, Checked
<1> QED BY <1>1, Invariance, PTL

---------------------------------------------------------------------------
(* Refinement of Ownership.                                                *)

owners == {m \in Members : membership[m].isOwner}

LEMMA OwnersMapping ==
  ASSUME IInv
  PROVE  owners = ActiveOwners(membership) /\ owners \subseteq Members /\ owners # {}
BY DEF owners, IInv, OwnersAreActive, ActiveOwners, ActiveOwnerRemains

LEMMA InitRefines == Init => Abstract!Init
<1> SUFFICES ASSUME Init PROVE Abstract!Init
  OBVIOUS
<1>1. owners = ActiveOwners(membership) /\ owners \subseteq Members /\ owners # {}
  BY InitInvariant, OwnersMapping
<1> QED BY <1>1 DEF owners, Abstract!Init

\* A commit that changes a flag is one promotion, demotion or hand-over; every
\* other step leaves the owners alone.
LEMMA StepRefines ==
  ASSUME IInv, [Next]_vars
  PROVE  [Abstract!Next]_owners
<1>1. CASE membership' = membership
  BY <1>1 DEF owners
<1>2. ASSUME NEW r \in Requests, Commit(r)
      PROVE  [Abstract!Next]_owners
  <2> DEFINE q == req[r]
             t == req[r].target
  <2>1. Checked(q) /\ CallOK(q) /\ Established(q) /\ membership' = MembershipAfter(q)
    BY <1>2 DEF IInv, Commit, LocksHeld, InTransaction, Checked, ChecksStand
  <2>2. membership \in [Members -> [isOwner : BOOLEAN, status : MemberStatus]]
        /\ owners = ActiveOwners(membership)
    BY OwnersMapping DEF IInv, TypeOK
  <2>3. q.op \in {"role", "transfer", "status"} => t \in Members
    BY <2>1 DEF CallOK, Targets
  <2> HIDE DEF q, t
  <2>4. CASE q.op = "role" /\ q.arg = "owner"
    <3>1. owners' = owners \union {t}
      BY <2>1, <2>2, <2>3, <2>4 DEF MembershipAfter, owners, q, t
    <3> QED BY <2>3, <2>4, <3>1 DEF Abstract!Next, Abstract!Promote, owners
  <2>5. CASE q.op = "role" /\ q.arg # "owner"
    <3>1. owners' = owners \ {t}
      BY <2>1, <2>2, <2>3, <2>5 DEF MembershipAfter, owners, q, t
    <3>2. owners \ {t} # {}
      BY <2>1, <2>2, <2>5 DEF Established, q, t
    <3> QED BY <2>3, <2>5, <3>1, <3>2 DEF Abstract!Next, Abstract!Demote, owners
  <2>6. CASE q.op = "transfer"
    <3>1. q.principal \in Members /\ q.principal # t
      BY <2>1, <2>6 DEF CallOK, q, t
    <3>2. owners' = (owners \ {q.principal}) \union {t}
      BY <2>1, <2>2, <2>3, <2>6, <3>1 DEF MembershipAfter, owners, q, t
    <3> QED BY <2>3, <2>6, <3>1, <3>2 DEF Abstract!Next, Abstract!HandOver, owners
  <2>7. CASE q.op = "status"
    <3>1. owners' = owners
      BY <2>1, <2>2, <2>3, <2>7 DEF MembershipAfter, owners, q, t
    <3> QED BY <3>1
  <2>8. CASE q.op \notin {"role", "transfer", "status"}
    BY <2>1, <2>8 DEF MembershipAfter, owners, q
  <2> QED BY <2>4, <2>5, <2>6, <2>7, <2>8
<1>3. ASSUME NEW r \in Requests, Resolve(r) \/ Proceed(r) \/ Respond(r), ~Commit(r)
      PROVE  membership' = membership
  BY <1>3 DEF Resolve, Proceed, Respond, Acquire, Work, Bind, Audit, OwnerTrigger,
              DetectDeadlock, Rollback
<1> QED BY <1>1, <1>2, <1>3 DEF Next, Proceed, vars

\* Whatever interleaves, the transactions change the owners as Ownership allows.
THEOREM OwnershipImplemented == Spec => ImplementsOwnership
<1>1. Init => Abstract!Init
  BY InitRefines
<1>2. IInv /\ [Next]_vars => [Abstract!Next]_owners
  BY StepRefines
<1> QED BY <1>1, <1>2, Invariance, PTL DEF Spec, ImplementsOwnership, Abstract!Spec, owners
=============================================================================
