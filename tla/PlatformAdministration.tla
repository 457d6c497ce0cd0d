----------------------- MODULE PlatformAdministration -----------------------
(***************************************************************************)
(* The platform back office: its administrators, the tenants they open or   *)
(* invite somebody to open, the session policy in the settings table and in  *)
(* the API's memory, and the system announcements, as the system             *)
(* administration routes run them through SystemAdministrationRepository     *)
(* and the SECURITY DEFINER functions of the database.                       *)
(*                                                                         *)
(* Every route asks whether the caller is an active administrator in a       *)
(* query of its own, and the repository then runs one statement after the    *)
(* other without a transaction.  Only the tenant functions are transactions: *)
(* they wait for the row of a link, for the unique index of workspace slugs,  *)
(* and for the one of pending links; a wait ends with the other's commit.     *)
(***************************************************************************)
EXTENDS ApiRequests

CONSTANTS
  Users,          \* accounts; one account is one email address
  FirstAdmin,     \* the administrator the platform was installed with
  Slugs,          \* workspace slugs
  Links,          \* rows of system_tenant_invitations
  Policies,       \* session policies that an administrator may save
  DefaultPolicy,  \* the one the platform starts with
  Notices         \* system announcements

PlatformOps == {"add", "suspend", "activate", "tenant", "open", "workspace",
                "settings", "publish", "withdraw"}

ASSUME PlatformAssumption ==
  /\ IsFiniteSet(Users) /\ FirstAdmin \in Users /\ DefaultPolicy \in Policies
  /\ Nobody \notin Users \union Links \union Slugs \union Policies \union Notices
  /\ Links \cap Slugs = {} /\ Requests \cap Users = {}

\* The settings that make up the policy, in the order updateSettings writes them.
PolicyKeys == <<"session_expires_in_seconds", "session_update_age_seconds", "sliding_renewal">>
Keys == {PolicyKeys[n] : n \in DOMAIN PolicyKeys}

Pending(s) == <<"pending", s>>     \* the key of the partial unique index
Rows == Links \union Slugs \union {Pending(s) : s \in Slugs}

VARIABLES
  admin,          \* system_administrators: status per user
  registered,     \* users that have an active account
  tenant,         \* the owner of the workspace that has a slug
  link,           \* tenant invitations
  lapsed,         \* links whose 72 hours are over
  stored,         \* system_settings: the policy each key was last saved for
  policy,         \* the session policy in memory, key by key
  board,          \* the announcements in the settings table
  published,      \* history: announcements published and not withdrawn
  lock,           \* lock[row]: the transaction that holds it
  call            \* per request: phase, arguments, rows still to lock

platformVars == <<admin, registered, tenant, link, lapsed, stored, policy, board, published,
                  lock, call>>

NoLink == [slug |-> Nobody, email |-> Nobody, inviter |-> Nobody, usedBy |-> Nobody,
           revoked |-> FALSE]

Idle == [phase |-> "idle", op |-> "none", user |-> Nobody, target |-> Nobody,
         slug |-> Nobody, link |-> Nobody, policy |-> Nobody, notice |-> Nobody,
         copy |-> {}, next |-> 1, stale |-> FALSE, todo |-> <<>>]

ActiveAdmins == {u \in Users : admin[u] = "active"}
IsAdmin(u) == u \in ActiveAdmins
IsPending(l) == link[l].slug # Nobody /\ link[l].usedBy = Nobody /\ ~link[l].revoked

\* The requests at one of these phases of one of these operations have read what
\* r is writing: what they know is stale.
Written(r, operations, phases) ==
  [s \in Requests |->
     IF s = r THEN Idle
     ELSE [call[s] EXCEPT !.stale = @ \/ (call[s].op \in operations /\ call[s].phase \in phases)]]

---------------------------------------------------------------------------
(* The routes: a session, the administrator check, the input schema.         *)

Ask(r, q) ==
  /\ Made(q.op)
  /\ call[r].phase = "idle"
  /\ call' = [call EXCEPT ![r] = IF IsAdmin(q.user) THEN [q EXCEPT !.phase = "asked"] ELSE Idle]
  /\ UNCHANGED <<admin, registered, tenant, link, lapsed, stored, policy, board, published, lock>>

AskAboutAdministrator(r) ==
  \E u, target \in Users, op \in {"add", "suspend", "activate"} :
    Ask(r, [Idle EXCEPT !.op = op, !.user = u, !.target = target])

AskForTenant(r) ==
  \E u, target \in Users, s \in Slugs :
    Ask(r, [Idle EXCEPT !.op = "tenant", !.user = u, !.target = target, !.slug = s])

AskForSettings(r) ==
  \E u \in Users, p \in Policies :
    Ask(r, [Idle EXCEPT !.op = "settings", !.user = u, !.policy = p])

AskForNotice(r) ==
  \E u \in Users, n \in Notices, op \in {"publish", "withdraw"} :
    /\ op = "publish" => n \notin published /\ n \notin board
    /\ Ask(r, [Idle EXCEPT !.op = op, !.user = u, !.notice = n])

\* A registered user opens a workspace of its own, or the link it was sent.
AskForWorkspace(r) ==
  /\ call[r].phase = "idle"
  /\ \E u \in registered :
       \/ /\ Made("workspace")
          /\ \E s \in Slugs :
               call' = [call EXCEPT ![r] = [Idle EXCEPT !.op = "workspace", !.user = u, !.target = u,
                                                        !.slug = s, !.phase = "creating", !.todo = <<s>>]]
       \/ /\ Made("open")
          /\ \E l \in Links :
               call' = [call EXCEPT ![r] = [Idle EXCEPT !.op = "open", !.user = u, !.target = u,
                                                        !.link = l, !.phase = "opening", !.todo = <<l>>]]
  /\ UNCHANGED <<admin, registered, tenant, link, lapsed, stored, policy, board, published, lock>>

---------------------------------------------------------------------------
(* Administrators.                                                         *)

\* The account is looked up by its email and made an active administrator.
Add(r) ==
  LET q == call[r]
  IN /\ q.phase = "asked" /\ q.op \in {"add", "activate"}
     /\ admin' = IF (IF q.op = "add" THEN q.target \in registered ELSE admin[q.target] # "none")
                 THEN [admin EXCEPT ![q.target] = "active"] ELSE admin
     /\ call' = [call EXCEPT ![r] = Idle]
     /\ UNCHANGED <<registered, tenant, link, lapsed, stored, policy, board, published, lock>>
     /\ UNCHANGED requestVars

\* Faulty: the last administrator may be suspended.
CountNone(r) ==
  /\ call[r].phase = "asked" /\ call[r].op = "suspend"
  /\ call' = [call EXCEPT ![r].phase = IF ActiveAdmins # {} THEN "counted" ELSE "idle"]
  /\ UNCHANGED <<admin, registered, tenant, link, lapsed, stored, policy, board, published, lock>>
  /\ UNCHANGED requestVars

\* The active administrators are counted in a query of its own.
Count(r) ==
  /\ call[r].phase = "asked" /\ call[r].op = "suspend"
  /\ call' = [call EXCEPT ![r] = IF Cardinality(ActiveAdmins) > 1
                                 THEN [@ EXCEPT !.phase = "counted"] ELSE Idle]
  /\ UNCHANGED <<admin, registered, tenant, link, lapsed, stored, policy, board, published, lock>>
  /\ UNCHANGED requestVars

Suspend(r) ==
  LET q == call[r]
  IN /\ q.phase = "counted"
     /\ admin' = [admin EXCEPT ![q.target] = IF @ = "none" THEN @ ELSE "suspended"]
     /\ call' = Written(r, {"suspend"}, {"counted"})
     /\ raced' = IF q.stale THEN raced \union {"administrators"} ELSE raced
     /\ UNCHANGED <<registered, tenant, link, lapsed, stored, policy, board, published, lock,
                    ops, requests>>

---------------------------------------------------------------------------
(* The session policy.                                                     *)

\* One key is upserted per statement.
SaveKey(r) ==
  LET q == call[r]
  IN /\ q.op = "settings" /\ q.phase \in {"asked", "saving"}
     /\ stored' = [stored EXCEPT ![PolicyKeys[q.next]] = q.policy]
     /\ call' = [call EXCEPT ![r].next = @ + 1,
                             ![r].phase = IF q.next < Len(PolicyKeys) THEN "saving" ELSE "saved"]
     /\ raced' = IF \E s \in Requests \ {r} : call[s].phase \in {"saving", "saved"}
                 THEN raced \union {"settings"} ELSE raced
     /\ UNCHANGED <<admin, registered, tenant, link, lapsed, policy, board, published, lock,
                    ops, requests>>

\* A statement fails: the request ends with an error, what was written stays.
FailToSave(r) ==
  /\ call[r].op = "settings" /\ call[r].phase \in {"asked", "saving"}
  /\ call' = [call EXCEPT ![r] = Idle]
  /\ raced' = IF call[r].phase = "saving" THEN raced \union {"settings"} ELSE raced
  /\ UNCHANGED <<admin, registered, tenant, link, lapsed, stored, policy, board, published, lock,
                 ops, requests>>

\* Faulty: the copy in memory keeps the value of a key that it had.
ReplaceButLast(r) ==
  /\ call[r].phase = "saved"
  /\ policy' = [k \in Keys |-> IF k = PolicyKeys[Len(PolicyKeys)] THEN policy[k] ELSE call[r].policy]
  /\ call' = [call EXCEPT ![r] = Idle]
  /\ UNCHANGED <<admin, registered, tenant, link, lapsed, stored, board, published, lock>>
  /\ UNCHANGED requestVars

\* After the last key the route replaces the copy in memory.
Replace(r) ==
  /\ call[r].phase = "saved"
  /\ policy' = [k \in Keys |-> call[r].policy]
  /\ call' = [call EXCEPT ![r] = Idle]
  /\ UNCHANGED <<admin, registered, tenant, link, lapsed, stored, board, published, lock>>
  /\ UNCHANGED requestVars

\* The API starts again: requests are gone, open transactions with them, and the
\* policy is read from the settings.
Restart ==
  /\ ops \cap {"settings"} # {}
  /\ \E r \in Requests : call[r].phase # "idle"
  /\ policy' = stored
  /\ call' = [r \in Requests |-> Idle]
  /\ lock' = [row \in Rows |-> Nobody]
  /\ raced' = IF \E r \in Requests : call[r].phase = "saving"
              THEN raced \union {"settings"} ELSE raced
  /\ UNCHANGED <<admin, registered, tenant, link, lapsed, stored, board, published, ops, requests>>

---------------------------------------------------------------------------
(* System announcements: one settings row holds the whole list.             *)

ReadBoard(r) ==
  /\ call[r].phase = "asked" /\ call[r].op \in {"publish", "withdraw"}
  /\ call' = [call EXCEPT ![r].phase = "read", ![r].copy = board]
  /\ UNCHANGED <<admin, registered, tenant, link, lapsed, stored, policy, board, published, lock>>
  /\ UNCHANGED requestVars

\* Faulty: the announcement replaces the list that was read.
ListOfOne(q) == IF q.op = "publish" THEN {q.notice} ELSE q.copy \ {q.notice}

\* The list as it was read, with the announcement put in front or taken out.
NewList(q) == IF q.op = "publish" THEN {q.notice} \union q.copy ELSE q.copy \ {q.notice}

WriteBoard(r) ==
  LET q == call[r]
  IN /\ q.phase = "read"
     /\ board' = NewList(q)
     /\ published' = IF q.op = "publish" THEN published \union {q.notice} ELSE published \ {q.notice}
     /\ call' = Written(r, {"publish", "withdraw"}, {"read"})
     /\ raced' = IF q.stale THEN raced \union {"board"} ELSE raced
     /\ UNCHANGED <<admin, registered, tenant, link, lapsed, stored, policy, lock, ops, requests>>

---------------------------------------------------------------------------
(* Tenants.                                                                *)

Register(u) ==
  /\ "tenant" \in ops /\ u \notin registered
  /\ registered' = registered \union {u}
  /\ UNCHANGED <<admin, tenant, link, lapsed, stored, policy, board, published, lock, call>>
  /\ UNCHANGED requestVars

Lapse(l) ==
  /\ IsPending(l) /\ l \notin lapsed
  /\ lapsed' = lapsed \union {l}
  /\ UNCHANGED <<admin, registered, tenant, link, stored, policy, board, published, lock, call>>
  /\ UNCHANGED requestVars

Unlocked(r) == [row \in Rows |-> IF lock[row] = r THEN Nobody ELSE lock[row]]

Take(r) ==
  /\ call[r].todo # <<>> /\ lock[Head(call[r].todo)] = Nobody
  /\ lock' = [lock EXCEPT ![Head(call[r].todo)] = r]
  /\ call' = [call EXCEPT ![r].todo = Tail(@)]
  /\ UNCHANGED <<admin, registered, tenant, link, lapsed, stored, policy, board, published>>
  /\ UNCHANGED requestVars

End(r) ==
  /\ call' = [call EXCEPT ![r] = Idle]
  /\ lock' = Unlocked(r)
  /\ UNCHANGED <<admin, lapsed, registered, stored, policy, board, published>>
  /\ UNCHANGED requestVars

\* prepare_tenant: an account gets its workspace at once; for anybody else the
\* pending link of the slug is taken back and a new one inserted.
Prepare(r) ==
  LET q == call[r]
      LinkRows(s) == {l \in Links : IsPending(l) /\ link[l].slug = s}
  IN /\ q.phase = "asked" /\ q.op = "tenant"
     /\ IF ~IsAdmin(q.user) THEN End(r) /\ UNCHANGED <<tenant, link>>
        ELSE /\ \E todo \in IF q.target \in registered THEN {<<q.slug>>}
                            ELSE IF LinkRows(q.slug) = {} THEN {<<Pending(q.slug)>>}
                            ELSE {<<l, Pending(q.slug)>> : l \in LinkRows(q.slug)} :
                  call' = [call EXCEPT
                             ![r].phase = IF q.target \in registered THEN "creating" ELSE "sending",
                             ![r].todo = todo]
             /\ UNCHANGED <<admin, registered, tenant, link, lapsed, stored, policy, board,
                            published, lock>>
             /\ UNCHANGED requestVars

Revocable(r) == {l \in Links : lock[l] = r /\ IsPending(l)}

\* Faulty: a link that was used while the request waited is taken back as well.
SendOverAccepted(r) ==
  LET q == call[r]
  IN /\ q.phase = "sending" /\ q.todo = <<>>
     /\ \E l \in Links :
          /\ link[l] = NoLink
          /\ link' = [m \in Links |->
               IF m = l THEN [NoLink EXCEPT !.slug = q.slug, !.email = q.target, !.inviter = q.user]
               ELSE IF lock[m] = r THEN [link[m] EXCEPT !.revoked = TRUE] ELSE link[m]]
     /\ End(r) /\ UNCHANGED tenant

\* The rows it waited for are looked at again: only what is still pending is taken
\* back.  A pending link of the slug that came in meanwhile breaks the unique index.
Send(r) ==
  LET q == call[r]
  IN /\ q.phase = "sending" /\ q.todo = <<>>
     /\ \/ /\ \E m \in Links \ Revocable(r) : IsPending(m) /\ link[m].slug = q.slug
           /\ UNCHANGED link
        \/ /\ \A m \in Links \ Revocable(r) : ~(IsPending(m) /\ link[m].slug = q.slug)
           /\ \E l \in Links :
                /\ link[l] = NoLink
                /\ link' = [m \in Links |->
                     IF m = l
                     THEN [NoLink EXCEPT !.slug = q.slug, !.email = q.target, !.inviter = q.user]
                     ELSE IF m \in Revocable(r) THEN [link[m] EXCEPT !.revoked = TRUE] ELSE link[m]]
     /\ End(r) /\ UNCHANGED tenant

\* Faulty: the state of the link is not looked at.
OpenableOnce(q) == link[q.link].email = q.user /\ q.link \notin lapsed

\* accept_tenant: the locked link is pending, not lapsed and addressed to the user.
Openable(q) == IsPending(q.link) /\ q.link \notin lapsed /\ link[q.link].email = q.user

\* create_tenant asks once more whether the inviter is an active administrator.
Open(r) ==
  LET q == call[r]
  IN /\ q.phase = "opening" /\ q.todo = <<>>
     /\ IF Openable(q) /\ IsAdmin(link[q.link].inviter)
        THEN /\ call' = [call EXCEPT ![r].phase = "creating", ![r].slug = link[q.link].slug,
                                     ![r].todo = <<link[q.link].slug>>]
             /\ UNCHANGED <<admin, registered, tenant, link, lapsed, stored, policy, board,
                            published, lock>>
             /\ UNCHANGED requestVars
        ELSE End(r) /\ UNCHANGED <<tenant, link>>

\* Faulty: the link is used up although its slug is taken.
CreateAnyway(r) ==
  LET q == call[r]
  IN /\ q.phase = "creating" /\ q.todo = <<>>
     /\ tenant' = IF tenant[q.slug] = Nobody THEN [tenant EXCEPT ![q.slug] = q.target] ELSE tenant
     /\ link' = IF q.op = "open" THEN [link EXCEPT ![q.link].usedBy = q.user] ELSE link
     /\ End(r)

\* The workspace with its owner, and the use of the link, or neither: a slug that
\* is taken breaks the unique index.
Create(r) ==
  LET q == call[r]
  IN /\ q.phase = "creating" /\ q.todo = <<>>
     /\ IF tenant[q.slug] = Nobody
        THEN /\ tenant' = [tenant EXCEPT ![q.slug] = q.target]
             /\ link' = IF q.op = "open" THEN [link EXCEPT ![q.link].usedBy = q.user] ELSE link
        ELSE UNCHANGED <<tenant, link>>
     /\ End(r)

---------------------------------------------------------------------------
PlatformInit ==
  /\ admin = [u \in Users |-> IF u = FirstAdmin THEN "active" ELSE "none"]
  /\ registered = {FirstAdmin}
  /\ tenant = [s \in Slugs |-> Nobody]
  /\ link = [l \in Links |-> NoLink]
  /\ lapsed = {}
  /\ stored = [k \in Keys |-> DefaultPolicy]
  /\ policy = [k \in Keys |-> DefaultPolicy]
  /\ board = {} /\ published = {}
  /\ lock = [row \in Rows |-> Nobody]
  /\ call = [r \in Requests |-> Idle]

Proceed(r) ==
  \/ AskAboutAdministrator(r) \/ Add(r) \/ Count(r) \/ Suspend(r)
  \/ AskForSettings(r) \/ SaveKey(r) \/ FailToSave(r) \/ Replace(r)
  \/ AskForNotice(r) \/ ReadBoard(r) \/ WriteBoard(r)
  \/ AskForTenant(r) \/ AskForWorkspace(r) \/ Take(r) \/ Prepare(r) \/ Send(r) \/ Open(r) \/ Create(r)

PlatformNext ==
  \/ \E r \in Requests : Proceed(r)
  \/ Restart
  \/ \E u \in Users : Register(u)
  \/ \E l \in Links : Lapse(l)

---------------------------------------------------------------------------
(* Properties.                                                             *)

Call ==
  [phase : {"idle", "asked", "counted", "saving", "saved", "read", "sending", "opening", "creating"},
   op : PlatformOps \union {"none"}, user : Users \union {Nobody}, target : Users \union {Nobody},
   slug : Slugs \union {Nobody}, link : Links \union {Nobody}, policy : Policies \union {Nobody},
   notice : Notices \union {Nobody}, copy : SUBSET Notices, next : Nat, stale : BOOLEAN,
   todo : Seq(Rows)]

\* Every variable has its type.
PlatformTypeOK ==
  /\ admin \in [Users -> {"none", "active", "suspended"}]
  /\ registered \subseteq Users
  /\ tenant \in [Slugs -> Users \union {Nobody}]
  /\ link \in [Links -> [slug : Slugs \union {Nobody}, email : Users \union {Nobody},
                         inviter : Users \union {Nobody}, usedBy : Users \union {Nobody},
                         revoked : BOOLEAN]]
  /\ lapsed \subseteq Links
  /\ stored \in [Keys -> Policies] /\ policy \in [Keys -> Policies]
  /\ board \subseteq Notices /\ published \subseteq Notices
  /\ lock \in [Rows -> Requests \union {Nobody}]
  /\ call \in [Requests -> Call]

\* The platform keeps an active administrator, unless one suspension was decided
\* on a count that another one had made out of date.
AdministratorRemains == "administrators" \in raced \/ ActiveAdmins # {}

\* When no save is under way, sessions are issued by the policy that the settings
\* page shows, through failed saves and restarts, unless two saves overlapped or one
\* ended between two of its keys.
PolicyIsTheStoredOne ==
  \/ "settings" \in raced
  \/ \E r \in Requests : call[r].phase \in {"saving", "saved"}
  \/ policy = stored

\* What was published and not withdrawn is on the board, unless a list was written
\* back that had been read before another change.
PublishedIsShown == "board" \in raced \/ board = published

\* A link that was used has opened the workspace of its slug, for the person it was
\* sent to; and a slug has at most one pending link.
UsedLinkOwnsItsTenant ==
  /\ \A l \in Links : link[l].usedBy # Nobody => tenant[link[l].slug] = link[l].usedBy
  /\ \A l, m \in Links : IsPending(l) /\ IsPending(m) /\ link[l].slug = link[m].slug => l = m

\* A tenant invitation is a one-time token that a newer one takes back.
Activation == INSTANCE OneTimeToken
                WITH Tokens <- Links, People <- Users,
                     addressee <- [l \in Links |-> link[l].email],
                     usedBy <- [l \in Links |-> link[l].usedBy],
                     withdrawn <- {l \in Links : link[l].revoked}
ActivationLinksAreTokens == Activation!Spec

\* system-administration-repository.ts:576, "the system must keep at least one active
\* platform administrator".
LastAdministratorStays == ActiveAdmins # {}
=============================================================================
