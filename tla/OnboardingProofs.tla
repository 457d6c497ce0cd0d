-------------------------- MODULE OnboardingProofs --------------------------
(***************************************************************************)
(* Type correctness of the onboarding, and the proof that an invitation is a *)
(* one-time token of its addressee: a request that works with a link holds    *)
(* the lock of its row, and what it has read of the row stays.               *)
(***************************************************************************)
EXTENDS Onboarding, TLAPS

InvitationRow ==
  [email : People \union {Nobody}, role : AssignableRoles \union {"none"}, place : Place,
   acceptedBy : People \union {Nobody}]
MemberRow ==
  [status : {"none", "active", "suspended"}, isOwner : BOOLEAN, role : Roles \union {"none"},
   place : Place]
Locks == [Rows -> Requests \union {Nobody}]

\* Which operations a phase belongs to, and what a save is about.
PhaseOfOperation(q) ==
  /\ q.phase = "presented" => q.op = "accept"
  /\ q.phase \in {"checking", "inserting"} => q.op # "accept"
  /\ q.op = "save" => q.place \in Departments
  /\ q.op = "transfer" => q.user \in People
  /\ q.phase = "inserting" => q.role \in AssignableRoles

\* An acceptance is by the addressee, and from the look at its acceptance on nobody
\* else has used the link; of an existing member, nobody at all.
Bound(q, i, m) ==
  q.op = "accept" /\ q.phase \in {"presented", "locking"} =>
    /\ q.user \in People /\ q.link \in Invitations /\ i[q.link].email = q.user
    /\ q.phase = "locking" =>
         /\ i[q.link].acceptedBy \in {Nobody, q.user}
         /\ q.isNew \/ (m[q.user].status # "none" /\ i[q.link].acceptedBy = Nobody)

\* The lock of the link.
Holding(q, r, l) ==
  q.op = "accept" =>
    /\ q.phase = "presented" => q.todo = {q.link} \/ (q.todo = {} /\ l[q.link] = r)
    /\ q.phase = "locking" => l[q.link] = r

RequestInv(q, r, i, m, l) == PhaseOfOperation(q) /\ Bound(q, i, m) /\ Holding(q, r, l)

UnusedLinks == \A i \in Invitations : invitation[i].email = Nobody => invitation[i].acceptedBy = Nobody

Inv ==
  /\ TypeOK /\ UnusedLinks /\ MembersWereInvited
  /\ \A r \in Requests : RequestInv(req[r], r, invitation, member, lock)

LEMMA IdleIsTyped ==
  /\ IdleRequest \in Request /\ IdleRequest.phase = "idle" /\ IdleRequest.op = "none"
  /\ IdleRequest.todo = {} /\ \A error : Answer(error) = IdleRequest
BY DEF IdleRequest, Request, Phases, AllOps, Roles, AssignableRoles, Place, DepartmentStatus, Answer

LEMMA IdleIsFine ==
  ASSUME NEW r, NEW i, NEW m, NEW l
  PROVE  RequestInv(IdleRequest, r, i, m, l)
BY IdleIsTyped DEF RequestInv, PhaseOfOperation, Bound, Holding

LEMMA InvStart == Init => Inv
<1> SUFFICES ASSUME Init PROVE Inv
  OBVIOUS
<1> USE DEF Init
<1>1. member \in [People -> MemberRow]
  BY DEF MemberRow, NoMember, Roles, AssignableRoles, Place
<1>2. /\ invitation \in [Invitations -> InvitationRow] /\ NoInvitation.email = Nobody
      /\ NoInvitation.acceptedBy = Nobody
  BY DEF InvitationRow, NoInvitation, AssignableRoles, Place
<1>3. department \in [Departments -> [status : DepartmentStatus, parent : Place]]
  BY DEF NoDepartment, Place
<1>4. lock \in Locks /\ req \in [Requests -> Request] /\ requests \in 0..MaxRequests
  BY IdleIsTyped, OnboardingAssumption DEF Locks
<1>5. TypeOK
  BY <1>1, <1>2, <1>3, <1>4 DEF TypeOK, MemberRow, InvitationRow, Locks
<1>6. UnusedLinks /\ MembersWereInvited
  BY <1>2 DEF UnusedLinks, MembersWereInvited, Exists, NoMember
<1> QED
  BY <1>5, <1>6, IdleIsFine DEF Inv

\* What a request has read stays as long as the invitations and the members it has read
\* stay, and locks are given back by their holders only.
LEMMA OthersGoOn ==
  ASSUME NEW s, NEW q, NEW i, NEW m, NEW l, NEW i2, NEW m2, NEW l2,
         RequestInv(q, s, i, m, l),
         q.link \in Invitations /\ i[q.link].email \in People =>
           /\ i2[q.link].email = i[q.link].email
           /\ i2[q.link].acceptedBy = i[q.link].acceptedBy \/ l[q.link] # s,
         \A p \in People : m[p].status # "none" => m2[p].status # "none",
         \A row \in Rows : l[row] = s => l2[row] = s
  PROVE  RequestInv(q, s, i2, m2, l2)
<1> USE DEF RequestInv, PhaseOfOperation, Bound, Holding, Rows
<1>1. CASE q.op = "accept" /\ q.phase = "presented"
  BY <1>1
<1>2. CASE q.op = "accept" /\ q.phase = "locking"
  BY <1>2
<1> QED
  BY <1>1, <1>2

\* One request goes on; invitations and members stay.
LEMMA Aside ==
  ASSUME Inv, NEW r \in Requests, NEW q \in Request,
         req' = [req EXCEPT ![r] = q],
         UNCHANGED <<member, invitation, department, ops, regraded>>,
         expired' \subseteq Invitations, requests' \in 0..MaxRequests, overlapped' \in BOOLEAN,
         lock' \in Locks, \A row \in Rows : lock[row] \in Requests \ {r} => lock'[row] = lock[row],
         RequestInv(q, r, invitation, member, lock')
  PROVE  Inv'
<1> USE DEF Inv
<1>1. TypeOK'
  BY DEF TypeOK, Locks
<1>2. UnusedLinks' /\ MembersWereInvited'
  BY DEF UnusedLinks, MembersWereInvited, Exists
<1>3. ASSUME NEW s \in Requests PROVE RequestInv(req'[s], s, invitation', member', lock')
  <2>1. CASE s = r
    BY <2>1 DEF TypeOK
  <2>2. CASE s # r
    <3>1. req'[s] = req[s]
      BY <2>2 DEF TypeOK
    <3>2. RequestInv(req[s], s, invitation, member, lock)
      OBVIOUS
    <3>3. \A row \in Rows : lock[row] = s => lock'[row] = s
      BY <2>2
    <3>4. RequestInv(req[s], s, invitation, member, lock')
      BY <3>2, <3>3, OthersGoOn
    <3> QED BY <3>1, <3>4
  <2> QED BY <2>1, <2>2
<1> QED
  BY <1>1, <1>2, <1>3
---------------------------------------------------------------------------
(* Requests are asked.                                                     *)

LEMMA StartStep ==
  ASSUME Inv, NEW r \in Requests, NEW q \in Request, NEW phase \in {"checking", "inserting"},
         q.op # "accept", q.op = "save" => q.place \in Departments,
         q.op = "transfer" => q.user \in People,
         phase = "inserting" => q.role \in AssignableRoles, Start(r, q, phase)
  PROVE  Inv'
<1> USE DEF Inv
<1>1. /\ UNCHANGED <<member, invitation, expired, department, lock, ops, overlapped, regraded>>
      /\ requests' = requests + 1 /\ requests < MaxRequests
  BY DEF Start
<1>2. requests' \in 0..MaxRequests
  BY <1>1, OnboardingAssumption DEF TypeOK
<1> DEFINE c == [q EXCEPT !.phase = phase]
<1>3. /\ c \in Request /\ c.op = q.op /\ c.phase = phase /\ c.place = q.place
      /\ c.user = q.user /\ c.role = q.role
  BY DEF Request, Phases
<1>4. RequestInv(c, r, invitation, member, lock)
  BY <1>3 DEF RequestInv, PhaseOfOperation, Bound, Holding
<1>5. req' = [req EXCEPT ![r] = IdleRequest] \/ req' = [req EXCEPT ![r] = c]
  BY DEF Start, Answer
<1> HIDE DEF c
<1>6. CASE req' = [req EXCEPT ![r] = IdleRequest]
  BY <1>1, <1>2, <1>6, IdleIsTyped, IdleIsFine, Aside DEF TypeOK, Locks
<1>7. CASE req' = [req EXCEPT ![r] = c]
  BY <1>1, <1>2, <1>3, <1>4, <1>7, Aside DEF TypeOK, Locks
<1> QED
  BY <1>5, <1>6, <1>7

LEMMA AskToInviteStep == ASSUME Inv, NEW r \in Requests, AskToInvite(r) PROVE Inv'
<1> DEFINE q(p, email, role, place) ==
      [IdleRequest EXCEPT !.op = "invite", !.user = p, !.target = {email},
                          !.role = role, !.place = place]
<1>1. PICK p \in People, email \in People, role \in AssignableRoles, place \in Place :
        Start(r, q(p, email, role, place), "inserting")
  BY DEF AskToInvite
<1>2. /\ q(p, email, role, place) \in Request /\ q(p, email, role, place).op = "invite"
      /\ q(p, email, role, place).role = role
  BY IdleIsTyped DEF Request, AllOps, Roles
<1> HIDE DEF q
<1> QED
  BY <1>1, <1>2, StartStep

LEMMA AskToSaveStep == ASSUME Inv, NEW r \in Requests, AskToSave(r) PROVE Inv'
<1> DEFINE q(p, d, parent, status, isNew, manager) ==
      [IdleRequest EXCEPT !.op = "save", !.user = p, !.place = d, !.parent = parent,
                          !.status = status, !.isNew = isNew, !.target = manager]
<1>1. PICK p \in People, d \in Departments, parent \in Place, status \in {"active", "disabled"},
           isNew \in BOOLEAN, manager \in {{}} \union {{m} : m \in People \ {Founder}} :
        Start(r, q(p, d, parent, status, isNew, manager), "checking")
  BY DEF AskToSave
<1>2. manager \in SUBSET People /\ d \in Place /\ status \in DepartmentStatus
  BY DEF Place, DepartmentStatus
<1>3. /\ q(p, d, parent, status, isNew, manager) \in Request
      /\ q(p, d, parent, status, isNew, manager).op = "save"
      /\ q(p, d, parent, status, isNew, manager).place = d
  BY <1>2, IdleIsTyped DEF Request, AllOps
<1> HIDE DEF q
<1> QED
  BY <1>1, <1>3, StartStep

LEMMA AskToPlaceStep == ASSUME Inv, NEW r \in Requests, AskToPlace(r) PROVE Inv'
<1> DEFINE q(op, p, S, place) ==
      [IdleRequest EXCEPT !.op = op, !.user = p, !.target = S, !.place = place]
<1>1. PICK op \in {"organization", "batch"}, p \in People, S \in SUBSET People, place \in Place :
        Start(r, q(op, p, S, place), "checking")
  BY DEF AskToPlace
<1>2. q(op, p, S, place) \in Request /\ q(op, p, S, place).op = op
  BY IdleIsTyped DEF Request, AllOps
<1> HIDE DEF q
<1> QED
  BY <1>1, <1>2, StartStep

\* A request about roles, as it is asked.
AskedAbout(op, p, m, role) ==
  [IdleRequest EXCEPT !.op = op, !.user = p, !.target = {m}, !.role = role]

LEMMA AskToRegradeShape ==
  ASSUME NEW r, AskToRegrade(r)
  PROVE  \E op \in {"role", "transfer", "assign"}, p \in People, m \in People, role \in Roles :
           Start(r, AskedAbout(op, p, m, role), "checking")
BY DEF AskToRegrade, AskedAbout, Roles

LEMMA AskedAboutIsTyped ==
  ASSUME NEW op \in {"role", "transfer", "assign"}, NEW p \in People, NEW m \in People,
         NEW role \in Roles
  PROVE  /\ AskedAbout(op, p, m, role) \in Request /\ AskedAbout(op, p, m, role).op = op
         /\ AskedAbout(op, p, m, role).user = p
BY IdleIsTyped DEF AskedAbout, Request, AllOps

LEMMA AskToRegradeStep == ASSUME Inv, NEW r \in Requests, AskToRegrade(r) PROVE Inv'
<1>1. PICK op \in {"role", "transfer", "assign"}, p \in People, m \in People, role \in Roles :
        Start(r, AskedAbout(op, p, m, role), "checking")
  BY AskToRegradeShape
<1> QED
  BY <1>1, AskedAboutIsTyped, StartStep

LEMMA PresentStep == ASSUME Inv, NEW r \in Requests, Present(r) PROVE Inv'
<1> USE DEF Inv
<1> DEFINE q(p, i) == [IdleRequest EXCEPT !.op = "accept", !.user = p, !.link = i]
           c(p, i) == [q(p, i) EXCEPT !.phase = "presented", !.todo = {i}]
<1>1. /\ UNCHANGED <<member, invitation, expired, department, lock, ops, overlapped, regraded>>
      /\ requests' = requests + 1 /\ requests < MaxRequests
  BY DEF Present
<1>2. requests' \in 0..MaxRequests
  BY <1>1, OnboardingAssumption DEF TypeOK
<1>3. PICK p \in People, i \in Invitations :
        req' = [req EXCEPT ![r] = IF Usable(i, p) THEN c(p, i) ELSE Answer("invitation_invalid")]
  BY DEF Present
<1>4. q(p, i) \in Request /\ q(p, i).op = "accept" /\ q(p, i).user = p /\ q(p, i).link = i
  BY IdleIsTyped DEF Request, AllOps
<1>5. /\ c(p, i) \in Request /\ c(p, i).op = "accept" /\ c(p, i).user = p /\ c(p, i).link = i
      /\ c(p, i).phase = "presented" /\ c(p, i).todo = {i}
  <2> HIDE DEF q
  <2> DEFINE c1 == [q(p, i) EXCEPT !.phase = "presented"]
  <2>1. /\ c1 \in Request /\ c1.op = "accept" /\ c1.user = p /\ c1.link = i
        /\ c1.phase = "presented"
    BY <1>4 DEF Request, Phases
  <2>2. c(p, i) = [c1 EXCEPT !.todo = {i}]
    OBVIOUS
  <2>3. {i} \in SUBSET Rows
    BY DEF Rows
  <2> HIDE DEF c1, c
  <2> QED BY <2>1, <2>2, <2>3 DEF Request
<1> HIDE DEF c, q
<1>6. CASE ~Usable(i, p)
  BY <1>1, <1>2, <1>3, <1>6, IdleIsTyped, IdleIsFine, Aside DEF TypeOK, Locks
<1>7. CASE Usable(i, p)
  <2>1. RequestInv(c(p, i), r, invitation, member, lock)
    BY <1>5, <1>7 DEF RequestInv, PhaseOfOperation, Bound, Holding, Usable
  <2> QED BY <1>1, <1>2, <1>3, <1>5, <1>7, <2>1, Aside DEF TypeOK, Locks
<1> QED
  BY <1>6, <1>7

---------------------------------------------------------------------------
(* Locks and what is read under them.                                      *)

LEMMA RollbackStep == ASSUME Inv, NEW r \in Requests, NEW error, Rollback(r, error) PROVE Inv'
<1>1. /\ req' = [req EXCEPT ![r] = IdleRequest]
      /\ UNCHANGED <<member, invitation, expired, department, ops, requests, overlapped, regraded>>
  BY IdleIsTyped DEF Rollback
<1>2. /\ lock' \in Locks
      /\ \A row \in Rows : lock[row] \in Requests \ {r} => lock'[row] = lock[row]
  BY DEF Rollback, Unlocked, Inv, TypeOK, Locks
<1> QED
  BY <1>1, <1>2, IdleIsTyped, IdleIsFine, Aside DEF Inv, TypeOK

LEMMA TakeStep == ASSUME Inv, NEW r \in Requests, Take(r) PROVE Inv'
<1> USE DEF Inv
<1> DEFINE q == req[r]
<1>1. /\ q \in Request /\ RequestInv(q, r, invitation, member, lock)
      /\ UNCHANGED <<member, invitation, expired, department, ops, requests, overlapped, regraded>>
  BY DEF TypeOK, Take
<1>2. PICK row \in q.todo :
        /\ lock[row] = Nobody /\ lock' = [lock EXCEPT ![row] = r]
        /\ req' = [req EXCEPT ![r] = [q EXCEPT !.todo = q.todo \ {row}]]
  BY DEF Take
<1> DEFINE c == [q EXCEPT !.todo = q.todo \ {row}]
<1>3. /\ c \in Request /\ c.op = q.op /\ c.phase = q.phase /\ c.user = q.user
      /\ c.link = q.link /\ c.isNew = q.isNew /\ c.todo = q.todo \ {row} /\ c.place = q.place
      /\ c.role = q.role
  BY <1>1 DEF Request
<1>4. row \in Rows
  BY <1>1 DEF Request
<1> HIDE DEF c
<1>5. req' = [req EXCEPT ![r] = c]
  BY <1>2 DEF c
<1> HIDE DEF q
<1>6. /\ lock' \in Locks
      /\ \A x \in Rows : lock[x] \in Requests => lock'[x] = lock[x]
      /\ lock'[row] = r
  BY <1>2, <1>4, OnboardingAssumption DEF TypeOK, Locks
<1>7. PhaseOfOperation(c) /\ Bound(c, invitation, member)
  BY <1>1, <1>3 DEF RequestInv, PhaseOfOperation, Bound
<1>8. Holding(c, r, lock')
  <2>1. ASSUME q.op = "accept", q.phase \in {"presented", "locking"} PROVE q.link \in Rows
    BY <1>1, <2>1 DEF RequestInv, Bound, Rows
  <2>2. CASE q.op = "accept" /\ q.phase = "presented"
    BY <1>1, <1>2, <1>3, <1>6, <2>1, <2>2 DEF RequestInv, Holding
  <2>3. CASE q.op = "accept" /\ q.phase = "locking"
    BY <1>1, <1>3, <1>6, <2>1, <2>3 DEF RequestInv, Holding
  <2> QED BY <1>3, <2>2, <2>3 DEF Holding
<1> QED
  BY <1>1, <1>3, <1>5, <1>6, <1>7, <1>8, Aside DEF TypeOK, RequestInv

LEMMA ExpireStep == ASSUME Inv, NEW i \in Invitations, Expire(i) PROVE Inv'
BY DEF Expire, Inv, TypeOK, UnusedLinks, MembersWereInvited, Exists

LEMMA LookupStep == ASSUME Inv, NEW r \in Requests, Lookup(r) PROVE Inv'
<1> USE DEF Inv
<1> DEFINE q == req[r]
<1>1. /\ q \in Request /\ RequestInv(q, r, invitation, member, lock)
      /\ q.phase = "presented" /\ q.todo = {}
  BY DEF TypeOK, Lookup
<1>2. q.op = "accept" /\ q.user \in People /\ invitation[q.link].email = q.user
      /\ q.link \in Invitations /\ lock[q.link] = r
  BY <1>1 DEF RequestInv, PhaseOfOperation, Bound, Holding
<1>3. ASSUME invitation[q.link].acceptedBy \in {Nobody, q.user}, req' = Entering(r),
             Exists(q.user) => invitation[q.link].acceptedBy = Nobody,
             UNCHANGED <<member, invitation, expired, department, lock, ops, requests, overlapped, regraded>>
      PROVE  Inv'
  <2> DEFINE c == [q EXCEPT !.phase = "locking", !.isNew = ~Exists(q.user), !.todo = {q.user}]
             c1 == [q EXCEPT !.phase = "locking"]
             c2 == [c1 EXCEPT !.isNew = ~Exists(q.user)]
  <2>1. req' = [req EXCEPT ![r] = c] /\ c = [c2 EXCEPT !.todo = {q.user}]
    BY <1>3 DEF Entering
  <2> HIDE DEF c
  <2>2. /\ c1 \in Request /\ c1.phase = "locking" /\ c1.op = q.op /\ c1.user = q.user
        /\ c1.link = q.link
    BY <1>1 DEF Request, Phases
  <2> HIDE DEF c1
  <2>3. /\ c2 \in Request /\ c2.phase = "locking" /\ c2.op = q.op /\ c2.user = q.user
        /\ c2.link = q.link /\ c2.isNew = ~Exists(q.user)
    BY <2>2 DEF Request
  <2> HIDE DEF c2
  <2>4. {q.user} \in SUBSET Rows
    BY <1>2 DEF Rows
  <2>5. /\ c \in Request /\ c.phase = "locking" /\ c.op = q.op /\ c.user = q.user
        /\ c.link = q.link /\ c.isNew = ~Exists(q.user)
    BY <2>1, <2>3, <2>4 DEF Request
  <2> HIDE DEF q
  <2>6. RequestInv(c, r, invitation, member, lock)
    BY <1>2, <1>3, <2>5 DEF RequestInv, PhaseOfOperation, Bound, Holding, Exists
  <2> QED BY <1>3, <2>1, <2>5, <2>6, Aside DEF TypeOK, Locks
<1> QED
  BY <1>3, RollbackStep DEF Lookup

LEMMA CheckStep == ASSUME Inv, NEW r \in Requests, Check(r) PROVE Inv'
<1> USE DEF Inv
<1> DEFINE q == req[r]
<1>1. /\ q \in Request /\ q.op # "accept" /\ RequestInv(q, r, invitation, member, lock)
      /\ q.op = "save" => q.place \in Departments
      /\ q.op = "transfer" => q.user \in People
  BY DEF TypeOK, Check, RequestInv, PhaseOfOperation
<1>2. ASSUME req' = [req EXCEPT ![r] = [q EXCEPT !.phase = "locking", !.todo = RowsToWrite(q)]],
             UNCHANGED <<member, invitation, expired, department, lock, ops, requests, overlapped, regraded>>
      PROVE  Inv'
  <2> DEFINE c == [q EXCEPT !.phase = "locking", !.todo = RowsToWrite(q)]
             c1 == [q EXCEPT !.phase = "locking"]
  <2>1. req' = [req EXCEPT ![r] = c] /\ c = [c1 EXCEPT !.todo = RowsToWrite(q)]
    BY <1>2
  <2> HIDE DEF c
  <2>2. /\ c1 \in Request /\ c1.phase = "locking" /\ c1.op = q.op /\ c1.place = q.place
        /\ c1.user = q.user /\ c1.role = q.role
    BY <1>1 DEF Request, Phases
  <2> HIDE DEF c1
  <2>3. RowsToWrite(q) \in SUBSET Rows
    BY <1>1 DEF RowsToWrite, Rows, Request, Exists
  <2>4. /\ c \in Request /\ c.phase = "locking" /\ c.op = q.op /\ c.place = q.place
        /\ c.user = q.user /\ c.role = q.role
    BY <2>1, <2>2, <2>3 DEF Request
  <2> HIDE DEF q
  <2>5. RequestInv(c, r, invitation, member, lock)
    BY <1>1, <2>4 DEF RequestInv, PhaseOfOperation, Bound, Holding
  <2> QED BY <1>2, <2>1, <2>4, <2>5, Aside DEF TypeOK, Locks
<1> QED
  BY <1>2, RollbackStep DEF Check
---------------------------------------------------------------------------
(* Writes.                                                                 *)

\* The other requests, when the writing one is done.
LEMMA Written ==
  ASSUME Inv, NEW r \in Requests, TypeOK', UnusedLinks', MembersWereInvited',
         req'[r] = IdleRequest,
         \A s \in Requests \ {r} :
           req'[s] = req[s] \/ (req[s].op # "accept" /\ \E b : req'[s] = [req[s] EXCEPT !.stale = b]),
         \A i \in Invitations :
           invitation[i].email \in People =>
             /\ invitation'[i].email = invitation[i].email
             /\ invitation'[i].acceptedBy = invitation[i].acceptedBy \/ lock[i] \in {r, Nobody},
         \A p \in People : Exists(p) => Exists(p)',
         \A row \in Rows : lock[row] \in Requests \ {r} => lock'[row] = lock[row]
  PROVE  Inv'
<1> USE DEF Inv
<1>1. ASSUME NEW s \in Requests PROVE RequestInv(req'[s], s, invitation', member', lock')
  <2>1. CASE s = r
    BY <2>1, IdleIsFine
  <2>2. CASE s # r /\ req'[s] = req[s]
    <3>1. RequestInv(req[s], s, invitation, member, lock) /\ s # Nobody
      BY OnboardingAssumption
    <3>2. \A p \in People : member[p].status # "none" => member'[p].status # "none"
      BY DEF Exists
    <3> QED BY <2>2, <3>1, <3>2, OthersGoOn
  <2>3. ASSUME NEW b, s # r, req[s].op # "accept", req'[s] = [req[s] EXCEPT !.stale = b]
        PROVE  RequestInv(req'[s], s, invitation', member', lock')
    <3>1. req[s] \in Request /\ RequestInv(req[s], s, invitation, member, lock)
      BY DEF TypeOK
    <3>2. /\ req'[s].op = req[s].op /\ req'[s].phase = req[s].phase
          /\ req'[s].place = req[s].place /\ req'[s].user = req[s].user
          /\ req'[s].role = req[s].role
      BY <2>3, <3>1 DEF Request
    <3> QED BY <2>3, <3>1, <3>2 DEF RequestInv, PhaseOfOperation, Bound, Holding
  <2> QED BY <2>1, <2>2, <2>3
<1> QED
  BY <1>1

LEMMA InviteStep == ASSUME Inv, NEW r \in Requests, Invite(r) PROVE Inv'
<1> USE DEF Inv
<1> DEFINE q == req[r]
<1>1. /\ q \in Request /\ q.role \in AssignableRoles
      /\ UNCHANGED <<member, expired, department, lock, ops, requests, overlapped, regraded>>
      /\ req' = [req EXCEPT ![r] = IdleRequest]
  BY DEF Invite, TypeOK, Answer, RequestInv, PhaseOfOperation
<1>2. CASE UNCHANGED invitation
  BY <1>1, <1>2, IdleIsTyped, IdleIsFine, Aside DEF TypeOK, Locks
<1>3. ASSUME NEW i \in Invitations, NEW email \in q.target, invitation[i].email = Nobody,
             invitation' = [invitation EXCEPT ![i] =
                 [NoInvitation EXCEPT !.email = email, !.role = q.role, !.place = q.place]]
      PROVE  Inv'
  <2> DEFINE new == [NoInvitation EXCEPT !.email = email, !.role = q.role, !.place = q.place]
  <2>1. /\ new \in InvitationRow /\ new.email = email /\ new.acceptedBy = Nobody
        /\ email \in People
    BY <1>1 DEF NoInvitation, InvitationRow, Request
  <2> HIDE DEF new, q
  <2>2. /\ invitation' \in [Invitations -> InvitationRow]
        /\ \A j \in Invitations : invitation'[j] = IF j = i THEN new ELSE invitation[j]
    BY <1>3, <2>1 DEF new, TypeOK, InvitationRow
  <2>3. TypeOK'
    BY <1>1, <2>2, IdleIsTyped DEF TypeOK, InvitationRow
  <2>4. UnusedLinks'
    BY <2>1, <2>2 DEF UnusedLinks
  <2>5. Nobody \notin People
    BY OnboardingAssumption
  <2>6. MembersWereInvited'
    BY <1>1, <1>3, <2>2, <2>5 DEF MembersWereInvited, Exists
  <2>7. /\ req'[r] = IdleRequest
        /\ \A s \in Requests \ {r} : req'[s] = req[s]
    BY <1>1 DEF TypeOK
  <2>8. \A j \in Invitations : invitation[j].email \in People => invitation'[j] = invitation[j]
    BY <1>3, <2>2, <2>5
  <2> QED BY <1>1, <2>3, <2>4, <2>6, <2>7, <2>8, Written DEF Exists
<1> QED
  BY <1>2, <1>3 DEF Invite

LEMMA UnlockedLocks ==
  ASSUME Inv, NEW r \in Requests, lock' = Unlocked(r)
  PROVE  /\ lock' \in Locks
         /\ \A row \in Rows : lock[row] \in Requests \ {r} => lock'[row] = lock[row]
BY DEF Unlocked, Inv, TypeOK, Locks

LEMMA AcceptStep == ASSUME Inv, NEW r \in Requests, Accept(r) PROVE Inv'
<1> USE DEF Inv
<1> DEFINE q == req[r]
<1>1. /\ q \in Request /\ RequestInv(q, r, invitation, member, lock)
      /\ q.phase = "locking" /\ q.op = "accept"
  BY DEF TypeOK, Accept
<1>2. /\ q.user \in People /\ q.link \in Invitations /\ invitation[q.link].email = q.user
      /\ lock[q.link] = r /\ (q.isNew \/ Exists(q.user))
  BY <1>1 DEF RequestInv, Bound, Holding, Exists
<1>3. ASSUME member' = [member EXCEPT ![q.user] = IF q.isNew THEN Joined(q) ELSE Placed(q)],
             invitation' = [invitation EXCEPT ![q.link].acceptedBy = q.user],
             Commit(r), UNCHANGED <<department, overlapped, regraded>>, ~(q.isNew /\ Exists(q.user))
      PROVE  Inv'
  <2> DEFINE new == IF q.isNew THEN Joined(q) ELSE Placed(q)
             used == [invitation[q.link] EXCEPT !.acceptedBy = q.user]
  <2>1. invitation[q.link] \in InvitationRow /\ member[q.user] \in MemberRow
    BY <1>2 DEF TypeOK, InvitationRow, MemberRow
  <2>2. /\ new \in MemberRow /\ new.status # "none"
        /\ new.role = IF q.isNew THEN invitation[q.link].role ELSE member[q.user].role
        /\ new.isOwner = IF q.isNew THEN FALSE ELSE member[q.user].isOwner
    <3>1. CASE q.isNew
      BY <2>1, <3>1 DEF Joined, MemberRow, InvitationRow, Roles
    <3>2. CASE ~q.isNew
      <4>1. member[q.user].status # "none" /\ invitation[q.link].place \in Place
        BY <1>2, <2>1, <3>2 DEF Exists, InvitationRow
      <4> QED BY <2>1, <3>2, <4>1 DEF Placed, MemberRow
    <3> QED BY <3>1, <3>2
  <2>3. /\ used \in InvitationRow /\ used.acceptedBy = q.user /\ used.email = q.user
        /\ used.role = invitation[q.link].role
    BY <1>2, <2>1 DEF InvitationRow
  <2>4. member' = [member EXCEPT ![q.user] = new] /\ invitation' = [invitation EXCEPT ![q.link] = used]
    BY <1>3
  <2> HIDE DEF new, used, q
  <2>5. /\ member' \in [People -> MemberRow] /\ invitation' \in [Invitations -> InvitationRow]
        /\ \A p \in People : member'[p] = IF p = q.user THEN new ELSE member[p]
        /\ \A i \in Invitations : invitation'[i] = IF i = q.link THEN used ELSE invitation[i]
    BY <1>2, <2>2, <2>3, <2>4 DEF TypeOK, MemberRow, InvitationRow
  <2>6. lock' = Unlocked(r) /\ req' = [req EXCEPT ![r] = IdleRequest]
        /\ UNCHANGED <<expired, ops, requests>>
    BY <1>3, IdleIsTyped DEF Commit
  <2>7. TypeOK'
    BY <1>3, <2>5, <2>6, UnlockedLocks, IdleIsTyped DEF TypeOK, MemberRow, InvitationRow, Locks
  <2>8. UnusedLinks'
    BY <1>2, <2>3, <2>5, OnboardingAssumption DEF UnusedLinks
  <2>9. MembersWereInvited'
    <3> SUFFICES ASSUME NEW p \in People \ {Founder}, member'[p].status # "none"
                 PROVE  \E i \in Invitations :
                          /\ invitation'[i].email = p /\ invitation'[i].acceptedBy = p
                          /\ \/ p \in regraded
                             \/ ~member'[p].isOwner /\ member'[p].role = invitation'[i].role
      BY <1>3 DEF MembersWereInvited, Exists
    <3>1. CASE p = q.user /\ q.isNew
      BY <1>2, <2>2, <2>3, <2>5, <3>1
    <3>2. CASE ~(p = q.user /\ q.isNew)
      <4>1. /\ Exists(p) /\ member'[p].role = member[p].role
            /\ member'[p].isOwner = member[p].isOwner
        BY <1>2, <2>2, <2>5, <3>2 DEF Exists
      <4>2. PICK i \in Invitations :
              /\ invitation[i].email = p /\ invitation[i].acceptedBy = p
              /\ \/ p \in regraded
                 \/ ~member[p].isOwner /\ member[p].role = invitation[i].role
        BY <4>1 DEF MembersWereInvited
      <4>3. /\ invitation'[i].email = p /\ invitation'[i].acceptedBy = p
            /\ invitation'[i].role = invitation[i].role
        BY <1>2, <2>3, <2>5, <4>2
      <4> QED BY <4>1, <4>2, <4>3
    <3> QED BY <3>1, <3>2
  <2>10. /\ req'[r] = IdleRequest /\ \A s \in Requests \ {r} : req'[s] = req[s]
    BY <2>6 DEF TypeOK
  <2>11. \A i \in Invitations :
           /\ invitation'[i].email = invitation[i].email
           /\ invitation'[i].acceptedBy = invitation[i].acceptedBy \/ lock[i] = r
    <3> SUFFICES ASSUME NEW i \in Invitations
                 PROVE  /\ invitation'[i].email = invitation[i].email
                        /\ invitation'[i].acceptedBy = invitation[i].acceptedBy \/ lock[i] = r
      OBVIOUS
    <3>1. CASE i = q.link
      BY <1>2, <2>3, <2>5, <3>1
    <3>2. CASE i # q.link
      <4>1. invitation'[i] = invitation[i]
        BY <2>5, <3>2
      <4> QED BY <4>1
    <3> QED BY <3>1, <3>2
  <2>12. \A p \in People : Exists(p) => Exists(p)'
    BY <2>2, <2>5 DEF Exists
  <2> QED BY <2>6, <2>7, <2>8, <2>9, <2>10, <2>11, <2>12, UnlockedLocks, Written
<1> QED
  BY <1>3, RollbackStep DEF Accept

LEMMA SaveStep == ASSUME Inv, NEW r \in Requests, Save(r) PROVE Inv'
<1> USE DEF Inv
<1> DEFINE q == req[r]
<1>1. q \in Request
  BY DEF TypeOK
<1>2. ASSUME department' = [department EXCEPT ![q.place] = [status |-> q.status, parent |-> q.parent]],
             overlapped' = (overlapped \/ (q.stale /\ q.parent # Nobody)),
             req' = [s \in Requests |->
                       IF s = r THEN Answer("none")
                       ELSE [req[s] EXCEPT !.stale = req[s].stale \/ Pending(s)]],
             lock' = Unlocked(r),
             UNCHANGED <<member, invitation, expired, ops, requests, regraded>>
      PROVE  Inv'
  <2>1. department' \in [Departments -> [status : DepartmentStatus, parent : Place]]
    BY <1>1, <1>2 DEF TypeOK, Request
  <2>2. overlapped' \in BOOLEAN
    BY <1>1, <1>2 DEF TypeOK, Request
  <2>3. ASSUME NEW s \in Requests PROVE req'[s] \in Request
    <3>1. CASE s = r
      BY <1>2, <3>1, IdleIsTyped
    <3>2. CASE s # r
      <4> DEFINE b == req[s].stale \/ Pending(s)
      <4>1. req'[s] = [req[s] EXCEPT !.stale = b] /\ req[s] \in Request
        BY <1>2, <3>2 DEF TypeOK
      <4>2. b \in BOOLEAN
        BY <4>1 DEF Request, Pending
      <4> HIDE DEF b
      <4> QED BY <4>1, <4>2 DEF Request
    <3> QED BY <3>1, <3>2
  <2>4. TypeOK'
    BY <1>2, <2>1, <2>2, <2>3, UnlockedLocks DEF TypeOK, Locks
  <2>5. UnusedLinks' /\ MembersWereInvited'
    BY <1>2 DEF UnusedLinks, MembersWereInvited, Exists
  <2>6. ASSUME NEW s \in Requests \ {r}
        PROVE  req'[s] = req[s] \/ (req[s].op # "accept" /\ \E b : req'[s] = [req[s] EXCEPT !.stale = b])
    <3>1. req'[s] = [req[s] EXCEPT !.stale = req[s].stale \/ Pending(s)] /\ req[s] \in Request
      BY <1>2 DEF TypeOK
    <3>2. CASE req[s].op = "accept"
      <4>1. (req[s].stale \/ Pending(s)) = req[s].stale
        BY <3>1, <3>2 DEF Pending, Request
      <4> QED BY <3>1, <4>1 DEF Request
    <3> QED BY <3>1, <3>2
  <2>7. req'[r] = IdleRequest
    BY <1>2, IdleIsTyped
  <2> QED BY <1>2, <2>4, <2>5, <2>6, <2>7, UnlockedLocks, Written DEF Exists
<1> QED
  BY <1>2, RollbackStep DEF Save

\* Nobody enters or leaves, and whose role or ownership changes is counted as regraded.
LEMMA MembersStep ==
  ASSUME Inv, NEW r \in Requests, member' \in [People -> MemberRow],
         regraded' \subseteq People, regraded \subseteq regraded',
         \A p \in People : \/ p \in regraded'
                           \/ member'[p].role = member[p].role /\ member'[p].isOwner = member[p].isOwner,
         \A p \in People : Exists(p) <=> Exists(p)',
         UNCHANGED <<invitation, expired, department, ops, requests, overlapped>>,
         req' \in [Requests -> Request], req'[r] \in {req[r], IdleRequest},
         \A s \in Requests \ {r} : req'[s] = req[s],
         lock' \in Locks, \A row \in Rows : lock[row] \in Requests \ {r} => lock'[row] = lock[row],
         req'[r] = IdleRequest \/ lock' = lock
  PROVE  Inv'
<1> USE DEF Inv
<1>1. TypeOK'
  BY DEF TypeOK, MemberRow, Locks
<1>2. UnusedLinks' /\ MembersWereInvited'
  <2>1. UnusedLinks'
    BY DEF UnusedLinks
  <2>2. ASSUME NEW p \in People \ {Founder}, Exists(p)'
        PROVE  \E i \in Invitations :
                 /\ invitation'[i].email = p /\ invitation'[i].acceptedBy = p
                 /\ \/ p \in regraded'
                    \/ ~member'[p].isOwner /\ member'[p].role = invitation'[i].role
    <3>1. PICK i \in Invitations :
            /\ invitation[i].email = p /\ invitation[i].acceptedBy = p
            /\ \/ p \in regraded
               \/ ~member[p].isOwner /\ member[p].role = invitation[i].role
      BY <2>2 DEF MembersWereInvited
    <3> QED BY <3>1
  <2> QED BY <2>1, <2>2 DEF MembersWereInvited
<1>3. CASE req'[r] = IdleRequest
  BY <1>1, <1>2, <1>3, Written
<1>4. CASE \A s \in Requests : req'[s] = req[s] /\ lock' = lock
  <2>1. \A p \in People : member[p].status # "none" => member'[p].status # "none"
    BY DEF Exists
  <2>2. ASSUME NEW s \in Requests PROVE RequestInv(req'[s], s, invitation', member', lock')
    BY <1>4, <2>1, OthersGoOn
  <2> QED BY <1>1, <1>2, <2>2
<1> QED
  BY <1>3, <1>4

LEMMA MoveStep == ASSUME Inv, NEW r \in Requests, Move(r) PROVE Inv'
<1> USE DEF Inv
<1> DEFINE q == req[r]
<1>1. q \in Request
  BY DEF TypeOK
<1>2. ASSUME member' = [m \in People |-> IF m \in q.target /\ lock[m] = r
                                         THEN [member[m] EXCEPT !.place = q.place] ELSE member[m]],
             Commit(r), UNCHANGED <<invitation, department, overlapped, regraded>>
      PROVE  Inv'
  <2>1. ASSUME NEW p \in People
        PROVE  /\ member'[p] \in MemberRow /\ member'[p].role = member[p].role
               /\ member'[p].status = member[p].status /\ member'[p].isOwner = member[p].isOwner
    <3>1. member[p] \in MemberRow /\ q.place \in Place
      BY <1>1 DEF TypeOK, MemberRow, Request
    <3>2. member'[p] = [member[p] EXCEPT !.place = q.place] \/ member'[p] = member[p]
      BY <1>2
    <3> HIDE DEF q
    <3> QED BY <3>1, <3>2 DEF MemberRow
  <2>2. member' \in [People -> MemberRow]
    BY <1>2, <2>1
  <2>3. /\ req' = [req EXCEPT ![r] = IdleRequest] /\ lock' = Unlocked(r)
        /\ UNCHANGED <<expired, ops, requests>>
    BY <1>2, IdleIsTyped DEF Commit
  <2>4. /\ req' \in [Requests -> Request] /\ req'[r] = IdleRequest
        /\ \A s \in Requests \ {r} : req'[s] = req[s]
    BY <2>3, IdleIsTyped DEF TypeOK
  <2>5. regraded' \subseteq People /\ regraded \subseteq regraded'
    BY <1>2 DEF TypeOK
  <2> QED BY <1>2, <2>1, <2>2, <2>3, <2>4, <2>5, UnlockedLocks, MembersStep DEF Exists
<1> QED
  BY <1>2, RollbackStep DEF Move

LEMMA ChangeStatusStep == ASSUME Inv, NEW p \in People, ChangeStatus(p) PROVE Inv'
<1> USE DEF Inv
<1>1. PICK k \in {"active", "suspended"} :
        member' = [member EXCEPT ![p] = [member[p] EXCEPT !.status = k]]
  BY DEF ChangeStatus
<1>2. ASSUME NEW m \in People
      PROVE  /\ member'[m] \in MemberRow /\ member'[m].role = member[m].role
             /\ member'[m].isOwner = member[m].isOwner
             /\ Exists(m) <=> Exists(m)'
  <2>1. member[m] \in MemberRow
    BY DEF TypeOK, MemberRow
  <2>2. \/ m = p /\ member'[m] = [member[m] EXCEPT !.status = k] /\ member[m].status # "none"
        \/ member'[m] = member[m]
    BY <1>1 DEF TypeOK, ChangeStatus
  <2> QED BY <2>1, <2>2 DEF MemberRow, Exists
<1>3. member' \in [People -> MemberRow]
  BY <1>1, <1>2 DEF TypeOK
<1>4. UNCHANGED <<invitation, expired, department, lock, req, ops, requests, overlapped, regraded>>
  BY DEF ChangeStatus
<1>5. CASE Requests = {}
  BY <1>2, <1>3, <1>4, <1>5 DEF TypeOK, MemberRow, UnusedLinks, MembersWereInvited, Exists
<1>6. ASSUME NEW r \in Requests PROVE Inv'
  BY <1>2, <1>3, <1>4, MembersStep DEF TypeOK, Locks
<1> QED
  BY <1>5, <1>6

\* A request about roles sets the role and the owner flag of some people.
RolesWritten(r, S) ==
  /\ member' = [p \in People |-> member'[p]]
  /\ \A p \in S : \E own \in BOOLEAN, role \in Roles \union {"none"} :
                   member'[p] = [member[p] EXCEPT !.isOwner = own, !.role = role]
  /\ \A p \in People \ S : member'[p] = member[p]
  /\ S \subseteq People /\ regraded' = regraded \union S
  /\ Commit(r) /\ UNCHANGED <<invitation, department, overlapped>>

LEMMA RolesWrittenStep ==
  ASSUME Inv, NEW r \in Requests, NEW S, RolesWritten(r, S) PROVE Inv'
<1> USE DEF Inv
<1>1. /\ req' = [req EXCEPT ![r] = IdleRequest] /\ lock' = Unlocked(r)
      /\ UNCHANGED <<expired, ops, requests>>
  BY IdleIsTyped DEF Commit, RolesWritten
<1>2. /\ req' \in [Requests -> Request] /\ req'[r] = IdleRequest
      /\ \A s \in Requests \ {r} : req'[s] = req[s]
  BY <1>1, IdleIsTyped DEF TypeOK
<1>3. ASSUME NEW p \in People
      PROVE  /\ member'[p] \in MemberRow /\ member'[p].status = member[p].status
             /\ \/ p \in regraded'
                \/ member'[p].role = member[p].role /\ member'[p].isOwner = member[p].isOwner
  <2>1. member[p] \in MemberRow
    BY DEF TypeOK, MemberRow
  <2>2. CASE p \in S
    <3>1. PICK own \in BOOLEAN, role \in Roles \union {"none"} :
            member'[p] = [member[p] EXCEPT !.isOwner = own, !.role = role]
      BY <2>2 DEF RolesWritten
    <3>2. p \in regraded'
      BY <2>2 DEF RolesWritten
    <3> QED BY <2>1, <3>1, <3>2 DEF MemberRow
  <2>3. CASE p \notin S
    BY <2>1, <2>3 DEF RolesWritten
  <2> QED BY <2>2, <2>3
<1>4. member' \in [People -> MemberRow]
  BY <1>3 DEF RolesWritten
<1>5. regraded' \subseteq People /\ regraded \subseteq regraded'
  BY DEF RolesWritten, TypeOK
<1> QED
  BY <1>1, <1>2, <1>3, <1>4, <1>5, UnlockedLocks, MembersStep DEF Exists, RolesWritten

\* What the three operations write, unless they are rolled back.
LEMMA ChangeRoleWrites ==
  ASSUME Inv, NEW r \in Requests, ChangeRole(r), \A error : ~Rollback(r, error)
  PROVE  RolesWritten(r, req[r].target)
<1> DEFINE q == req[r]
<1>1. q.target \subseteq People /\ q.role \in Roles \union {"none"}
  BY DEF Inv, TypeOK, Request
<1>2. /\ member' = [m \in People |-> IF m \in q.target THEN Regraded(m, q.role) ELSE member[m]]
      /\ regraded' = regraded \union q.target
      /\ Commit(r) /\ UNCHANGED <<invitation, department, overlapped>>
  BY DEF ChangeRole
<1> QED
  BY <1>1, <1>2 DEF RolesWritten, Regraded

LEMMA HandOverWrites ==
  ASSUME Inv, NEW r \in Requests, HandOver(r), \A error : ~Rollback(r, error)
  PROVE  RolesWritten(r, req[r].target \union {req[r].user})
<1> DEFINE q == req[r]
<1>1. q.target \subseteq People /\ q.user \in People
  BY DEF Inv, TypeOK, Request, RequestInv, PhaseOfOperation, HandOver
<1>2. /\ member' = [m \in People |-> IF m \in q.target THEN Regraded(m, "owner")
                                     ELSE IF m = q.user THEN Regraded(m, "admin")
                                     ELSE member[m]]
      /\ regraded' = regraded \union q.target \union {q.user}
      /\ Commit(r) /\ UNCHANGED <<invitation, department, overlapped>>
  BY DEF HandOver
<1>3. {"owner", "admin"} \subseteq Roles \union {"none"}
  BY DEF Roles, AssignableRoles
<1> QED
  BY <1>1, <1>2, <1>3 DEF RolesWritten, Regraded

LEMMA AssignRolesWrites ==
  ASSUME Inv, NEW r \in Requests, AssignRoles(r), \A error : ~Rollback(r, error)
  PROVE  RolesWritten(r, req[r].target)
<1> DEFINE q == req[r]
<1>1. q.target \subseteq People /\ q.role \in Roles \union {"none"}
  BY DEF Inv, TypeOK, Request
<1>2. /\ member' = [m \in People |-> IF m \in q.target THEN [member[m] EXCEPT !.role = q.role]
                                     ELSE member[m]]
      /\ regraded' = regraded \union q.target
      /\ Commit(r) /\ UNCHANGED <<invitation, department, overlapped>>
  BY DEF AssignRoles
<1>3. \A p \in q.target : /\ member[p].isOwner \in BOOLEAN
                         /\ member'[p] = [member[p] EXCEPT !.isOwner = member[p].isOwner,
                                                           !.role = q.role]
  BY <1>1, <1>2 DEF Inv, TypeOK
<1> QED
  BY <1>1, <1>2, <1>3 DEF RolesWritten

LEMMA RegradeWrites ==
  ASSUME Inv, NEW r \in Requests, ChangeRole(r) \/ HandOver(r) \/ AssignRoles(r)
  PROVE  (\E error : Rollback(r, error)) \/ \E S : RolesWritten(r, S)
BY ChangeRoleWrites, HandOverWrites, AssignRolesWrites

LEMMA RegradeStep ==
  ASSUME Inv, NEW r \in Requests, ChangeRole(r) \/ HandOver(r) \/ AssignRoles(r)
  PROVE  Inv'
BY RegradeWrites, RollbackStep, RolesWrittenStep

LEMMA InvStep == Inv /\ [Next]_vars => Inv'
<1> SUFFICES ASSUME Inv, [Next]_vars PROVE Inv'
  OBVIOUS
<1>1. ASSUME NEW r \in Requests, Ask(r) \/ Proceed(r) PROVE Inv'
  BY <1>1, AskToInviteStep, AskToSaveStep, AskToPlaceStep, AskToRegradeStep, PresentStep,
     TakeStep, RollbackStep, InviteStep, LookupStep, AcceptStep, CheckStep, SaveStep, MoveStep,
     RegradeStep
  DEF Ask, Proceed, DetectDeadlock
<1>2. CASE UNCHANGED vars
  BY <1>2 DEF vars, Inv, TypeOK, UnusedLinks, MembersWereInvited, Exists
<1> QED
  BY <1>1, <1>2, ExpireStep, ChangeStatusStep DEF Next

\* Every variable has its type, for any number of people, links, departments and requests.
THEOREM TypeCorrect == Spec => []TypeOK
<1>1. Inv => TypeOK
  BY DEF Inv
<1> QED
  BY <1>1, InvStart, InvStep, PTL DEF Spec

\* Everybody but the founder is a member by an invitation they accepted, and with its role
\* unless a request about their role has committed: no acceptance, placement or
\* suspension gives a role (workspace-onboarding-repository.ts, acceptInvitation,
\* updateMemberRole, transferWorkspaceOwnership).
THEOREM MembersHoldTheirInvitation == Spec => []MembersWereInvited
<1>1. Inv => MembersWereInvited
  BY DEF Inv
<1> QED
  BY <1>1, InvStart, InvStep, PTL DEF Spec

---------------------------------------------------------------------------
(* The invitation is a one-time token.                                     *)

LEMMA TokenStart == Init => Token!Init
BY DEF Init, Token!Init, NoInvitation

\* The rows change by a new link, by a use, or not at all.
LEMMA TokenStep ==
  ASSUME Inv, [Next]_vars PROVE [Token!Next]_(Token!vars)
<1> USE DEF Inv
<1>1. CASE UNCHANGED invitation
  BY <1>1 DEF Token!vars
<1>2. ASSUME NEW r \in Requests, Invite(r) PROVE [Token!Next]_(Token!vars)
  <2> DEFINE q == req[r]
  <2>1. CASE UNCHANGED invitation
    BY <1>1, <2>1
  <2>2. ASSUME NEW i \in Invitations, NEW email \in q.target, invitation[i].email = Nobody,
               invitation' = [invitation EXCEPT ![i] =
                 [NoInvitation EXCEPT !.email = email, !.role = q.role, !.place = q.place]]
        PROVE  [Token!Next]_(Token!vars)
    <3>1. email \in People
      BY DEF TypeOK, Request
    <3>2. \A j \in Invitations :
            /\ invitation'[j].email = IF j = i THEN email ELSE invitation[j].email
            /\ invitation'[j].acceptedBy = IF j = i THEN Nobody ELSE invitation[j].acceptedBy
      BY <2>2 DEF TypeOK, NoInvitation
    <3>3. invitation[i].acceptedBy = Nobody
      BY <2>2 DEF UnusedLinks
    <3>4. Token!Issue(i, email, {})
      BY <2>2, <3>2, <3>3 DEF Token!Issue
    <3> QED BY <3>1, <3>4 DEF Token!Next
  <2> QED BY <1>2, <2>1, <2>2 DEF Invite
<1>3. ASSUME NEW r \in Requests, NEW error, Rollback(r, error) PROVE UNCHANGED invitation
  BY <1>3 DEF Rollback
<1>4. ASSUME NEW r \in Requests, Accept(r) PROVE [Token!Next]_(Token!vars)
  <2> DEFINE q == req[r]
  <2>1. /\ q.user \in People /\ q.link \in Invitations /\ invitation[q.link].email = q.user
        /\ invitation[q.link].acceptedBy \in {Nobody, q.user}
    BY <1>4 DEF Accept, RequestInv, Bound
  <2>2. CASE UNCHANGED invitation
    BY <1>1, <2>2
  <2>3. CASE invitation' = [invitation EXCEPT ![q.link].acceptedBy = q.user]
    <3>1. \A j \in Invitations :
            /\ invitation'[j].email = invitation[j].email
            /\ invitation'[j].acceptedBy = IF j = q.link THEN q.user ELSE invitation[j].acceptedBy
      BY <2>1, <2>3 DEF TypeOK
    <3>2. CASE invitation[q.link].acceptedBy = q.user
      BY <3>1, <3>2 DEF Token!vars
    <3>3. CASE invitation[q.link].acceptedBy = Nobody
      <4>1. PICK i \in Invitations, p \in People : i = q.link /\ p = q.user
        BY <2>1
      <4>2. Token!Use(i, p)
        BY <2>1, <3>1, <3>3, <4>1 DEF Token!Use
      <4> QED BY <4>2 DEF Token!Next
    <3> QED BY <2>1, <3>2, <3>3
  <2> QED BY <1>4, <1>3, <2>2, <2>3 DEF Accept
<1>5. ASSUME NEW r \in Requests, Ask(r) \/ Proceed(r), ~Invite(r), ~Accept(r)
      PROVE  UNCHANGED invitation
  <2>1. CASE Ask(r)
    <3>1. CASE AskToInvite(r)
      BY <3>1 DEF AskToInvite, Start
    <3>2. CASE AskToSave(r)
      BY <3>2 DEF AskToSave, Start
    <3>3. CASE AskToPlace(r)
      <4>1. \A q, phase : Start(r, q, phase) => UNCHANGED invitation
        BY DEF Start
      <4> QED BY ONLY <3>3, <4>1, ZenonT(30) DEF AskToPlace
    <3>4. CASE Present(r)
      BY <3>4 DEF Present
    <3>5. CASE AskToRegrade(r)
      BY <3>5, AskToRegradeShape DEF Start
    <3> QED BY <2>1, <3>1, <3>2, <3>3, <3>4, <3>5 DEF Ask
  <2>2. CASE Take(r)
    BY <2>2 DEF Take
  <2>3. CASE DetectDeadlock(r)
    BY <1>3, <2>3 DEF DetectDeadlock
  <2>4. CASE Lookup(r)
    BY <1>3, <2>4 DEF Lookup
  <2>5. CASE Check(r)
    BY <1>3, <2>5 DEF Check
  <2>6. CASE Save(r)
    BY <1>3, <2>6 DEF Save
  <2>7. CASE Move(r)
    BY <1>3, <2>7 DEF Move
  <2>8. CASE ChangeRole(r) \/ HandOver(r) \/ AssignRoles(r)
    BY <1>3, <2>8, RegradeWrites DEF RolesWritten
  <2> QED BY <1>5, <2>1, <2>2, <2>3, <2>4, <2>5, <2>6, <2>7, <2>8 DEF Proceed
<1>6. CASE UNCHANGED vars
  BY <1>1, <1>6 DEF vars
<1> QED
  BY <1>1, <1>2, <1>4, <1>5, <1>6 DEF Next, Expire, ChangeStatus

\* Whatever requests, retries and lock waits do, a link is used at most once and only by
\* the account it was sent to.
THEOREM InvitationsAreOneTimeTokens == Spec => ImplementsOneTimeToken
<1>1. Inv /\ [Next]_vars => [Token!Next]_(Token!vars)
  BY TokenStep
<1> QED
  BY <1>1, TokenStart, InvStart, InvStep, PTL DEF Spec, ImplementsOneTimeToken, Token!Spec
---------------------------------------------------------------------------
(* Acceptances and members.                                                *)

\* Only an acceptance, a placement, a change of status and a request about roles change a
\* member.
LEMMA WhoChangesMembers ==
  ASSUME Inv, [Next]_vars, member' # member
  PROVE  \/ \E p \in People : ChangeStatus(p)
         \/ \E r \in Requests : (Accept(r) \/ Move(r)) /\ Commit(r)
         \/ \E r \in Requests : /\ ChangeRole(r) \/ HandOver(r) \/ AssignRoles(r)
                                /\ \E S : RolesWritten(r, S)
<1>1. ASSUME NEW r, NEW error, Rollback(r, error) PROVE FALSE
  BY <1>1 DEF Rollback
<1>2. ASSUME NEW r \in Requests, Ask(r) PROVE FALSE
  <2>1. CASE AskToInvite(r)
    BY <2>1 DEF AskToInvite, Start
  <2>2. CASE AskToSave(r)
    BY <2>2 DEF AskToSave, Start
  <2>3. \A q, phase : Start(r, q, phase) => FALSE
    BY DEF Start
  <2>4. CASE AskToPlace(r)
    BY ONLY <2>3, <2>4, ZenonT(30) DEF AskToPlace
  <2>5. CASE Present(r)
    BY <2>5 DEF Present
  <2>6. CASE AskToRegrade(r)
    BY <2>3, <2>6, AskToRegradeShape
  <2> QED BY <1>2, <2>1, <2>2, <2>4, <2>5, <2>6 DEF Ask
<1>3. ASSUME NEW r \in Requests, Proceed(r)
      PROVE  \/ (Accept(r) \/ Move(r)) /\ Commit(r)
             \/ /\ ChangeRole(r) \/ HandOver(r) \/ AssignRoles(r)
                /\ \E S : RolesWritten(r, S)
  <2>1. ~Take(r) /\ ~Invite(r)
    BY DEF Take, Invite
  <2>2. ~DetectDeadlock(r) /\ ~Lookup(r) /\ ~Check(r) /\ ~Save(r)
    BY <1>1 DEF DetectDeadlock, Lookup, Check, Save
  <2>3. CASE Accept(r)
    BY <1>1, <2>3 DEF Accept
  <2>4. CASE Move(r)
    BY <1>1, <2>4 DEF Move
  <2>5. CASE ChangeRole(r) \/ HandOver(r) \/ AssignRoles(r)
    BY <1>1, <2>5, RegradeWrites
  <2> QED BY <1>3, <2>1, <2>2, <2>3, <2>4, <2>5 DEF Proceed
<1> QED
  BY <1>2, <1>3 DEF Next, Expire, vars

\* A link that is presented again after a member was moved, promoted or suspended does not
\* move the member back, restore it or give it another role.
THEOREM AcceptancesChangeMembersOnce == Spec => AcceptanceChangesMemberOnce
<1> DEFINE Change(p) ==
             \/ member'[p].status # member[p].status /\ invitation' = invitation
             \/ /\ Done({"role", "transfer", "assign"}) /\ invitation' = invitation
                /\ member'[p] = [member[p] EXCEPT !.role = member'[p].role,
                                                  !.isOwner = member'[p].isOwner]
             \/ /\ member'[p] = [member[p] EXCEPT !.place = member'[p].place]
                /\ \/ \E i \in Invitations : invitation'[i].acceptedBy # invitation[i].acceptedBy
                   \/ Done({"organization", "batch"})
           Step == \A p \in People : Exists(p) /\ member'[p] # member[p] => Change(p)
<1>1. Inv /\ [Next]_vars => [Step]_vars
  <2> SUFFICES ASSUME Inv, [Next]_vars, NEW p \in People, Exists(p), member'[p] # member[p]
               PROVE  Change(p)
    OBVIOUS
  <2> USE DEF Inv
  <2>1. CASE \E m \in People : ChangeStatus(m)
    BY <2>1 DEF ChangeStatus, TypeOK
  <2>2. ASSUME NEW r \in Requests, Accept(r), Commit(r)
        PROVE  /\ member'[p] = [member[p] EXCEPT !.place = member'[p].place]
               /\ \E i \in Invitations : invitation'[i].acceptedBy # invitation[i].acceptedBy
    <3> DEFINE q == req[r]
    <3>1. member' = [member EXCEPT ![q.user] = IF q.isNew THEN Joined(q) ELSE Placed(q)]
          /\ invitation' = [invitation EXCEPT ![q.link].acceptedBy = q.user]
          /\ ~(q.isNew /\ Exists(q.user))
      BY <2>2 DEF Accept, Rollback
    <3>2. /\ q.user \in People /\ q.link \in Invitations
          /\ q.isNew \/ invitation[q.link].acceptedBy = Nobody
      BY <2>2 DEF Accept, RequestInv, Bound
    <3>3. p = q.user /\ ~q.isNew
      BY <3>1, <3>2 DEF TypeOK
    <3>4. invitation'[q.link].acceptedBy = q.user
      BY <3>1, <3>2 DEF TypeOK
    <3>5. q.user # Nobody
      BY <3>2, OnboardingAssumption
    <3>6. member'[p] = [member[p] EXCEPT !.place = invitation[q.link].place]
      BY <3>1, <3>3 DEF TypeOK, Placed
    <3>7. member'[p] = [member[p] EXCEPT !.place = member'[p].place]
      BY <3>6 DEF TypeOK
    <3> QED BY <3>2, <3>3, <3>4, <3>5, <3>7
  <2>3. ASSUME NEW r \in Requests, Move(r), Commit(r)
        PROVE  /\ member'[p] = [member[p] EXCEPT !.place = member'[p].place]
               /\ Done({"organization", "batch"})
    <3> DEFINE q == req[r]
    <3>1. member' = [m \in People |-> IF m \in q.target /\ lock[m] = r
                                      THEN [member[m] EXCEPT !.place = q.place] ELSE member[m]]
      BY <2>3 DEF Move, Rollback
    <3>2. member'[p] = [member[p] EXCEPT !.place = q.place]
      BY <3>1
    <3>3. member'[p] = [member[p] EXCEPT !.place = member'[p].place]
      BY <3>2 DEF TypeOK
    <3>4. req'[r] = IdleRequest
      BY <2>3, IdleIsTyped DEF Commit, TypeOK
    <3> QED BY <2>3, <3>3, <3>4, IdleIsTyped DEF Move, Done
  <2>4. ASSUME NEW r \in Requests, ChangeRole(r) \/ HandOver(r) \/ AssignRoles(r),
               NEW S, RolesWritten(r, S)
        PROVE  /\ Done({"role", "transfer", "assign"}) /\ invitation' = invitation
               /\ member'[p] = [member[p] EXCEPT !.role = member'[p].role,
                                                 !.isOwner = member'[p].isOwner]
    <3>1. req'[r] = IdleRequest
      BY <2>4, IdleIsTyped DEF RolesWritten, Commit, TypeOK
    <3>2. Done({"role", "transfer", "assign"})
      BY <2>4, <3>1, IdleIsTyped DEF ChangeRole, HandOver, AssignRoles, Done
    <3>3. p \in S
      BY <2>4 DEF RolesWritten
    <3>4. PICK own \in BOOLEAN, role \in Roles \union {"none"} :
            member'[p] = [member[p] EXCEPT !.isOwner = own, !.role = role]
      BY <2>4, <3>3 DEF RolesWritten
    <3>5. member[p] \in MemberRow
      BY DEF TypeOK, MemberRow
    <3>6. member'[p] = [member[p] EXCEPT !.role = member'[p].role, !.isOwner = member'[p].isOwner]
      BY <3>4, <3>5 DEF MemberRow
    <3> QED BY <2>4, <3>2, <3>6 DEF RolesWritten
  <2> QED BY <2>1, <2>2, <2>3, <2>4, WhoChangesMembers
<1> QED
  BY <1>1, InvStart, InvStep, PTL DEF Spec, AcceptanceChangesMemberOnce
---------------------------------------------------------------------------
(* The departments form a forest.                                          *)

\* What a save relies on that no other save has overtaken: its parent still stands at the
\* top; only a department that is there already could be its own parent, as a new one.
Reads(q, d) ==
  q.op = "save" /\ q.phase = "locking" /\ ~q.stale /\ q.parent # Nobody =>
    /\ q.parent \in Departments /\ d[q.parent].parent = Nobody
    /\ q.parent = q.place => q.isNew /\ d[q.place].status # "none"

ReadsHold == \A s \in Requests : Reads(req[s], department)

Tree == ReadsHold /\ CirclesNeedAnOverlap

\* Nothing is written to the departments, and one request goes on.
LEMMA TreeStays ==
  ASSUME Inv, Tree, UNCHANGED <<department, overlapped>>, NEW r \in Requests, NEW q,
         req' = [req EXCEPT ![r] = q], Reads(q, department)
  PROVE  Tree'
<1>1. CirclesNeedAnOverlap'
  BY DEF Tree, CirclesNeedAnOverlap, HasCircle
<1>2. ReadsHold'
  <2> SUFFICES ASSUME NEW s \in Requests PROVE Reads(req'[s], department)
    BY DEF ReadsHold
  <2> QED BY DEF Tree, ReadsHold, Inv, TypeOK
<1> QED BY <1>1, <1>2 DEF Tree

LEMMA ElsewhereReads ==
  ASSUME NEW q, q.op # "save" \/ q.phase # "locking"
  PROVE  Reads(q, department)
BY DEF Reads

LEMMA RollbackTree ==
  ASSUME Inv, Tree, NEW r \in Requests, NEW error, Rollback(r, error) PROVE Tree'
BY IdleIsTyped, ElsewhereReads, TreeStays DEF Rollback

LEMMA StartTree ==
  ASSUME Inv, Tree, NEW r \in Requests, NEW q \in Request,
         NEW phase \in {"checking", "inserting"}, Start(r, q, phase)
  PROVE  Tree'
<1> DEFINE c == [q EXCEPT !.phase = phase]
<1>1. c.phase = phase
  BY DEF Request
<1>2. req' = [req EXCEPT ![r] = IdleRequest] \/ req' = [req EXCEPT ![r] = c]
  BY DEF Start, Answer
<1> HIDE DEF c
<1>3. Reads(IdleRequest, department) /\ Reads(c, department)
  BY <1>1, IdleIsTyped, ElsewhereReads
<1> QED BY <1>2, <1>3, TreeStays DEF Start

LEMMA AskTree == ASSUME Inv, Tree, NEW r \in Requests, Ask(r) PROVE Tree'
<1>1. CASE AskToInvite(r)
  <2> DEFINE q(p, email, role, place) ==
        [IdleRequest EXCEPT !.op = "invite", !.user = p, !.target = {email},
                            !.role = role, !.place = place]
  <2>1. PICK p \in People, email \in People, role \in AssignableRoles, place \in Place :
          Start(r, q(p, email, role, place), "inserting")
    BY <1>1 DEF AskToInvite
  <2>2. q(p, email, role, place) \in Request
    BY IdleIsTyped DEF Request, AllOps, Roles
  <2> HIDE DEF q
  <2> QED BY <2>1, <2>2, StartTree
<1>2. CASE AskToSave(r)
  <2> DEFINE q(p, d, parent, status, isNew, manager) ==
        [IdleRequest EXCEPT !.op = "save", !.user = p, !.place = d, !.parent = parent,
                            !.status = status, !.isNew = isNew, !.target = manager]
  <2>1. PICK p \in People, d \in Departments, parent \in Place, status \in {"active", "disabled"},
             isNew \in BOOLEAN, manager \in {{}} \union {{m} : m \in People \ {Founder}} :
          Start(r, q(p, d, parent, status, isNew, manager), "checking")
    BY <1>2 DEF AskToSave
  <2>2. manager \in SUBSET People /\ d \in Place /\ status \in DepartmentStatus
    BY DEF Place, DepartmentStatus
  <2>3. q(p, d, parent, status, isNew, manager) \in Request
    BY <2>2, IdleIsTyped DEF Request, AllOps
  <2> HIDE DEF q
  <2> QED BY <2>1, <2>3, StartTree
<1>3. CASE AskToPlace(r)
  <2> DEFINE q(op, p, S, place) ==
        [IdleRequest EXCEPT !.op = op, !.user = p, !.target = S, !.place = place]
  <2>1. PICK op \in {"organization", "batch"}, p \in People, S \in SUBSET People, place \in Place :
          Start(r, q(op, p, S, place), "checking")
    BY <1>3 DEF AskToPlace
  <2>2. q(op, p, S, place) \in Request
    BY IdleIsTyped DEF Request, AllOps
  <2> HIDE DEF q
  <2> QED BY <2>1, <2>2, StartTree
<1>4. CASE Present(r)
  <2> DEFINE q(p, i) == [IdleRequest EXCEPT !.op = "accept", !.user = p, !.link = i]
             c(p, i) == [q(p, i) EXCEPT !.phase = "presented", !.todo = {i}]
  <2>1. PICK p \in People, i \in Invitations :
          req' = [req EXCEPT ![r] = IF Usable(i, p) THEN c(p, i) ELSE Answer("invitation_invalid")]
    BY <1>4 DEF Present
  <2>2. q(p, i) \in Request
    BY IdleIsTyped DEF Request, AllOps
  <2> HIDE DEF q
  <2>3. c(p, i).phase = "presented"
    BY <2>2 DEF Request
  <2> HIDE DEF c
  <2>4. Reads(c(p, i), department) /\ Reads(IdleRequest, department)
    BY <2>3, IdleIsTyped, ElsewhereReads
  <2>5. req' = [req EXCEPT ![r] = IdleRequest] \/ req' = [req EXCEPT ![r] = c(p, i)]
    BY <2>1, IdleIsTyped
  <2> QED BY <1>4, <2>4, <2>5, TreeStays DEF Present
<1>5. CASE AskToRegrade(r)
  BY <1>5, AskToRegradeShape, AskedAboutIsTyped, StartTree
<1> QED BY <1>1, <1>2, <1>3, <1>4, <1>5 DEF Ask

LEMMA TakeTree == ASSUME Inv, Tree, NEW r \in Requests, Take(r) PROVE Tree'
<1> DEFINE q == req[r]
<1>1. q \in Request /\ Reads(q, department)
  BY DEF Inv, TypeOK, Tree, ReadsHold
<1>2. PICK row \in q.todo : req' = [req EXCEPT ![r] = [q EXCEPT !.todo = q.todo \ {row}]]
  BY DEF Take
<1> DEFINE c == [q EXCEPT !.todo = q.todo \ {row}]
<1>3. Reads(c, department)
  <2>1. /\ c.op = q.op /\ c.phase = q.phase /\ c.stale = q.stale /\ c.parent = q.parent
        /\ c.place = q.place /\ c.isNew = q.isNew
    BY <1>1 DEF Request
  <2> HIDE DEF c, q
  <2> QED BY <1>1, <2>1 DEF Reads
<1> QED BY <1>2, <1>3, TreeStays DEF Take

LEMMA LookupTree == ASSUME Inv, Tree, NEW r \in Requests, Lookup(r) PROVE Tree'
<1> DEFINE q == req[r]
           c == [q EXCEPT !.phase = "locking", !.isNew = ~Exists(q.user), !.todo = {q.user}]
<1>1. q \in Request /\ q.op = "accept"
  BY DEF Inv, TypeOK, Lookup, RequestInv, PhaseOfOperation
<1>2. c.op = "accept"
  BY <1>1 DEF Request
<1>3. Reads(c, department)
  BY <1>2, ElsewhereReads
<1>4. CASE req' = Entering(r) /\ UNCHANGED <<department, overlapped>>
  BY <1>3, <1>4, TreeStays DEF Entering
<1> QED BY <1>4, RollbackTree DEF Lookup

\* The check reads the parent: it stands at the top now.
LEMMA CheckTree == ASSUME Inv, Tree, NEW r \in Requests, Check(r) PROVE Tree'
<1> DEFINE q == req[r]
           c == [q EXCEPT !.phase = "locking", !.todo = RowsToWrite(q)]
<1>1. q \in Request /\ (q.op = "save" => q.place \in Departments)
  BY DEF Inv, TypeOK, RequestInv, PhaseOfOperation
<1>2. CASE /\ CheckRefusal(q) = "none" /\ req' = [req EXCEPT ![r] = c]
           /\ UNCHANGED <<department, overlapped>>
  <2>1. /\ c.op = q.op /\ c.parent = q.parent /\ c.place = q.place /\ c.isNew = q.isNew
    BY <1>1 DEF Request
  <2>2. ASSUME q.op = "save", q.parent # Nobody
        PROVE  /\ q.parent \in Departments /\ department[q.parent].parent = Nobody
               /\ q.parent = q.place => q.isNew /\ department[q.place].status # "none"
    <3>1. ParentRefusal(q) = "none"
      BY <1>2, <2>2 DEF CheckRefusal
    <3>2. q.parent \in Departments
      BY <1>1, <2>2 DEF Request, Place
    <3> HIDE DEF q
    <3> QED BY <2>2, <3>1, <3>2 DEF ParentRefusal, Known
  <2> HIDE DEF c, q
  <2>3. Reads(c, department)
    BY <2>1, <2>2 DEF Reads
  <2> QED BY <1>2, <2>3, TreeStays
<1> QED BY <1>2, RollbackTree DEF Check

\* A department gets a parent that stands at the top: a circle through it would go on
\* above the top.
LEMMA SaveTree == ASSUME Inv, Tree, NEW r \in Requests, Save(r) PROVE Tree'
<1> DEFINE q == req[r]
<1>1. /\ q \in Request /\ q.place \in Departments /\ q.op = "save" /\ q.phase = "locking"
      /\ Reads(q, department)
  BY DEF Inv, TypeOK, Save, RequestInv, PhaseOfOperation, Tree, ReadsHold
<1>2. ASSUME SaveRefusal(q) = "none",
             department' = [department EXCEPT ![q.place] = [status |-> q.status, parent |-> q.parent]],
             overlapped' = (overlapped \/ (q.stale /\ q.parent # Nobody)),
             req' = [s \in Requests |->
                       IF s = r THEN Answer("none")
                       ELSE [req[s] EXCEPT !.stale = req[s].stale \/ Pending(s)]]
      PROVE  Tree'
  <2> HIDE DEF q
  <2>1. \A d \in Departments :
          department'[d].parent = IF d = q.place THEN q.parent ELSE department[d].parent
    BY <1>1, <1>2 DEF Inv, TypeOK
  <2>2. ASSUME NEW s \in Requests PROVE Reads(req'[s], department')
    <3>1. CASE s = r
      BY <1>2, <3>1, IdleIsTyped DEF Reads
    <3>2. CASE s # r
      <4> DEFINE b == req[s].stale \/ Pending(s)
      <4>1. req'[s] = [req[s] EXCEPT !.stale = b] /\ req[s] \in Request
        BY <1>2, <3>2 DEF Inv, TypeOK
      <4>2. req[s].op = "save" /\ req[s].phase = "locking" => b
        BY DEF Pending
      <4> HIDE DEF b
      <4>3. /\ req'[s].op = req[s].op /\ req'[s].phase = req[s].phase /\ req'[s].stale = b
        BY <4>1 DEF Request
      <4> QED BY <4>2, <4>3 DEF Reads
    <3> QED BY <3>1, <3>2
  <2>3. CirclesNeedAnOverlap'
    <3> SUFFICES ASSUME ~overlapped', NEW S \in (SUBSET Departments) \ {{}},
                        \A d \in S : department'[d].parent \in S
                 PROVE  FALSE
      BY DEF CirclesNeedAnOverlap, HasCircle
    <3>1. ~overlapped /\ (q.stale => q.parent = Nobody) /\ Nobody \notin S
      BY <1>2, OnboardingAssumption
    <3>2. CASE q.place \notin S
      <4>1. \A d \in S : department[d].parent \in S
        BY <2>1, <3>2
      <4> QED BY <3>1, <4>1 DEF Tree, CirclesNeedAnOverlap, HasCircle
    <3>3. CASE q.place \in S
      <4>1. q.parent \in S /\ q.parent # Nobody /\ ~q.stale
        BY <2>1, <3>1, <3>3
      <4>2. department[q.parent].parent = Nobody /\ q.parent # q.place
        BY <1>1, <1>2, <4>1 DEF Reads, SaveRefusal, Known
      <4>3. department'[q.parent].parent = Nobody
        BY <2>1, <4>1, <4>2
      <4> QED BY <3>1, <4>1, <4>3
    <3> QED BY <3>2, <3>3
  <2> QED BY <2>2, <2>3 DEF Tree, ReadsHold
<1> QED BY <1>2, RollbackTree DEF Save

LEMMA TreeStep == Inv /\ Tree /\ [Next]_vars => Tree'
<1> SUFFICES ASSUME Inv, Tree, [Next]_vars PROVE Tree'
  OBVIOUS
<1>1. CASE UNCHANGED <<department, overlapped, req>>
  BY <1>1 DEF Tree, ReadsHold, CirclesNeedAnOverlap, HasCircle
<1>2. ASSUME NEW r \in Requests, NEW q, q.op # "save", req' = [req EXCEPT ![r] = q],
             UNCHANGED <<department, overlapped>>
      PROVE  Tree'
  BY <1>2, ElsewhereReads, TreeStays
<1>3. ASSUME NEW r \in Requests, Invite(r) PROVE Tree'
  BY <1>2, <1>3, IdleIsTyped DEF Invite
<1>4. ASSUME NEW r \in Requests, Accept(r) \/ Move(r) PROVE Tree'
  BY <1>2, <1>4, IdleIsTyped, RollbackTree DEF Accept, Move, Commit
<1>5. ASSUME NEW r \in Requests, ChangeRole(r) \/ HandOver(r) \/ AssignRoles(r) PROVE Tree'
  <2>1. ASSUME NEW S, RolesWritten(r, S) PROVE Tree'
    BY <1>2, <2>1, IdleIsTyped DEF RolesWritten, Commit
  <2> QED BY <1>5, <2>1, RegradeWrites, RollbackTree
<1>6. ASSUME NEW r \in Requests, Ask(r) \/ Proceed(r) PROVE Tree'
  BY <1>3, <1>4, <1>5, <1>6, AskTree, TakeTree, RollbackTree, LookupTree, CheckTree, SaveTree
  DEF Proceed, DetectDeadlock
<1> QED BY <1>1, <1>6 DEF Next, Expire, ChangeStatus, vars

LEMMA TreeStart == Init => Tree
<1> SUFFICES ASSUME Init PROVE Tree
  OBVIOUS
<1>1. \A d \in Departments : department[d].parent = Nobody
  BY DEF Init, NoDepartment
<1>2. CirclesNeedAnOverlap
  BY <1>1, OnboardingAssumption DEF CirclesNeedAnOverlap, HasCircle
<1>3. ReadsHold
  BY IdleIsTyped DEF Init, ReadsHold, Reads
<1> QED BY <1>2, <1>3 DEF Tree

\* The departments of a workspace form a forest, whatever saves interleave, until one of them
\* writes a parent that it read before another changed the tree (saveDepartment reads the
\* parent without a lock).
THEOREM DepartmentsFormAForest == Spec => []CirclesNeedAnOverlap
<1>1. Tree => CirclesNeedAnOverlap
  BY DEF Tree
<1> QED
  BY <1>1, InvStart, InvStep, TreeStart, TreeStep, PTL DEF Spec
=============================================================================
