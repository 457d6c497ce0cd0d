# HaloAI verification project

HaloAI is a multi-tenant workspace in which people and agents write messages, edit
shared documents and approve proposals. This directory holds TLA+ modules that model its
server side and the pages of its web client that take part in a protocol, the TLC
configurations that check them on small instances, and proofs, checked by TLAPS, that the
main properties hold for every value of the constants.

Run everything from this directory:

    tlc -workers 2 -config Membership.cfg MCWorkspaceMembership
    tlapm WorkspaceMembershipProofs.tla

`PROJECT.json` lists the components, the runs with their properties, a mutation of the
code that breaks each property, the source lines each definition stands for, the hazards
of the code at their lines, and the theorems.

Contents: 1 the system; 2 modules and code; 3 runs and bounds; 4 fairness; 5 proofs;
6 what is outside the models; 7 disagreements between code and documentation; 8 what is
left.

## 1. The system and its parts

Paths are relative to the repository. Five processes run: `apps/web` (React in the
browser, TanStack Start on the server), `apps/api` (Hono), `apps/collab` (Hocuspocus, over
WebSocket), `apps/worker` (graphile tasks), and PostgreSQL, which holds all state shared
between processes. The browser calls the API; the API resolves the session, the tenant and
the workspace membership and calls a repository of `packages/db`; a repository runs one or
more transactions, all of them READ COMMITTED (`workspace-transaction.ts`). The
collaboration service keeps documents in memory and reaches its authorization and its
storage through ports whose adapters this repository does not have.

| component | state | operations | modelled by |
|---|---|---|---|
| membership and ownership | `workspace_memberships`, `actor_role_assignments`, `workspaces.status` | change a role, suspend, hand over, archive, restore | `WorkspaceMembership` |
| workspace invitations | `workspace_invitations` | send, present, accept, expire; roles changed before and after | `Onboarding` |
| departments | `workspace_departments`, a member's department | save with a parent and a manager, place one member or a batch | `Onboarding` |
| workspace roles, announcements, profiles | `roles`, `role_capabilities`, assignments; a list in a settings row; names of accounts and actors | create, change, list and delete roles, assign them; announce and retract; rename | `WorkspaceGovernance` |
| permission decisions | none | the decision function, the table of roles, delegation | `Permissions` |
| platform administration | `system_administrators`, `system_tenant_invitations`, workspaces, `system_settings`, the policy in the API's memory | appoint, suspend; send and use activation links; save settings, restart; publish | `PlatformAdministration` |
| projects, rooms and documents | `projects`, `rooms`, `documents` and their memberships | create, let in, change a document, read the snapshot | `ProjectAccess` |
| room messages | `rooms.last_sequence`, `messages` | append, list a page | `RoomMessages` |
| message composer | the collaboration page: rooms, messages, text box | write, send, change and make rooms, reload, change the language | `MessageComposer` |
| web console | tables, dialogs, lists and settings of both back offices | see 2 | `AdminConsole` |
| collaboration sessions | grants, connections, the lock of a document, awareness | authenticate, revalidate each message, renew a ticket, revoke | `CollabSession` |
| collaboration durability | documents in memory, the dirty guard, the stored snapshot | load, update, store with retries, unload, shut down | `CollabDurability` |
| other web pages, agent runtime, approvals and proposals, worker, authentication sessions, logging, model gateway, deployment | | | not modelled: see 6 |

What is hard in each part, and what makes it correct:

* **Membership.** A request resolves its principal in one query and then runs a
  transaction that locks rows one at a time. Requests interleave at every lock wait, in
  different lock orders. Correct means: an active owner remains; what a transaction has
  checked still holds when it commits; lock waits end.
* **Onboarding.** A link is looked up outside the transaction that uses it, and may be
  presented by several requests at once, again after its use, or while it lapses. Parents
  and departments are checked without locks. Correct means: a link is used once, by its
  addressee, and undoes nothing; departments form a forest as long as saves do not overlap.
* **The two back offices.** Most methods read, decide and write in statements of their own,
  so that overlapping requests may overwrite each other; several writes follow one another
  without a transaction. Correct means: what the locks and indexes are there for holds
  always (activation links, the capabilities of a role), and what has no lock holds until a
  write is based on a read that another request has overtaken.
* **Projects.** Checks lock nothing, and the snapshot of a page is six statements. Correct
  means: nobody is in a room of a project they are not in; a snapshot shows nothing that
  its reader may not see and hides nothing that it could.
* **Messages.** Appends to one room compete for its row, are retried after lost replies
  and run while members leave and the room closes. Correct means: sequences 1, 2, 3... with
  no gap and no repetition; one message per mutation of an author; every answer to it is
  the same message; pages fit together while the room grows.
* **Composer.** Replies are lost, come late, come after another room was opened or after a
  reload. Correct means: each message once, in its room and in order; the text kept until
  the room has it.
* **Console.** Nothing cancels a request when the person goes on: answers arrive for a
  dialog that shows somebody else by then, for a search that was changed, for a row that
  was changed again. Correct means: at rest a page shows what the server holds; no entry is
  overwritten with another one's values; a dialog closes when everything was stored.
* **Durability.** Updates arrive while a snapshot is being stored, stores time out and are
  retried, an aborted adapter may still write, clients leave, the process is told to stop
  and must stop even when nothing answers. Correct means: what the guard calls clean is
  stored, nothing else leaves memory unless by force, a shutdown that reports success has
  lost nothing, and each shutdown ends.
* **Sessions.** Messages of several connections are checked and applied with awaits in
  between, while rights change and tickets are revoked. Correct means: the document stays
  within its size limit, client ids are not taken over, nobody writes without a writer's
  ticket and a writer's present rights, and the lock is always given back.

## 2. Modules and the code they model

Each component has a module of its own; an abstract specification says what it promises;
`MC*` modules only add symmetry sets and bounds; `*Proofs` modules hold the theorems. Each
`Faulty:` operator is a plausible bug of the definition that follows it and is used by no
specification: it exists for the mutation that `PROJECT.json` names.

    Ownership    <--implements-- WorkspaceMembership        <--EXTENDS-- WorkspaceMembershipProofs
    OneTimeToken <--implements-- Onboarding                 <--EXTENDS-- OnboardingProofs
    OneTimeToken <--implements-- PlatformAdministration
    MessageLog   <--implements-- RoomMessages               <--EXTENDS-- RoomMessagesProofs
    MessageLog   <--INSTANCE---- MessageComposer
    Permissions  <--EXTENDS----- WorkspaceGovernance
    ApiRequests  <--EXTENDS----- PlatformAdministration, WorkspaceGovernance, ProjectAccess
    PlatformAdministration, WorkspaceGovernance <--EXTENDS-- Administration <-- AdministrationProofs
    ProjectAccess    <--EXTENDS-- ProjectAccessProofs
    ConsolePage      <--EXTENDS-- MembersPage, EntryForms, CatalogPage, SettingsPage
    MembersPage, EntryForms, CatalogPage, SettingsPage <--EXTENDS-- AdminConsole
    AdminConsole, MessageComposer <--EXTENDS-- WebProofs
    CollabDurability <--EXTENDS-- CollabDurabilityProofs
    CollabSession    <--EXTENDS-- CollabSessionProofs

### WorkspaceMembership (and Ownership)

`workspace-onboarding-repository.ts` (`updateMemberRole`, `updateMemberStatus`,
`transferWorkspaceOwnership`, `archiveWorkspace`, `unarchiveWorkspace`),
`workspace-governance-repository.ts` (`assignMemberRoles`), the SQL function
`haloai_resolve_membership` and the deferred trigger of
`drizzle/0001_chemical_liz_osborn.sql`, `appendAuditEvent`.

* `membership`, `assignment`, `workspaceStatus` are committed rows. `lock[row][request]` is
  the strongest PostgreSQL row lock a transaction holds; its modes and their conflicts are
  those of `SELECT ... FOR UPDATE`, a plain `UPDATE` and a foreign-key check.
* `req` is a request: `Resolve` (session route, principal, role check), `Acquire` (one row
  lock), `Work` (checks of the method), `Bind` (role assignments), `Audit` (the audit row,
  whose foreign keys lock the workspace and the principal), `OwnerTrigger`, `Commit`,
  `Respond`. `Rollback` undoes everything, `DetectDeadlock` is PostgreSQL's.
* Every row a transaction writes is locked against other writers first, so what it would
  write is computed from the committed rows (`MembershipAfter`, `AssignmentAfter`) instead
  of being kept per transaction.
* A principal without an owner flag and with several active assignments of one age
  resolves to any of them, as the query leaves their order open.
* `Ownership` is the promise: a set of owners, never empty, that changes by one promotion,
  demotion or hand-over at a time.

### Onboarding (and OneTimeToken)

The same repository: `createInvitation`, `acceptInvitation`, the department methods,
`updateMemberOrganization` and its batch, and once more `updateMemberRole`,
`transferWorkspaceOwnership` and `assignMemberRoles`, which change what an acceptance
granted; `routes/workspaces.ts`.

* `member`, `invitation`, `department` are committed rows, `expired` the links whose 72
  hours are over, `lock` row locks. The unique index on (workspace, user) is the lock of a
  member that does not exist yet.
* `Present` looks a link up and reads the clock outside the transaction; `Take` locks a
  row; `Lookup` looks at the acceptance under the lock; `Accept` joins the person or only
  moves a member, and commits. `Check` is what a save or placement reads before it locks
  anything; `Save` and `Move` write. `ChangeStatus` is the member page next door.
* `ChangeRole`, `HandOver` and `AssignRoles` are the requests about roles with the locks of
  the members they name. The locks of the workspace row and of the audit row, whose
  interleavings `WorkspaceMembership` is about, are left out, and a hand-over may always
  fail on the unique index of the assignments (`WorkspaceMembership` says when it does).
  A member's `role` is what the last of its bindings makes it; the role a request acts with
  (`RoleKey`) is the owner's if the owner flag is set.
* `regraded` is a history variable: whose role or ownership such a request has set.
* `overlapped` is a history variable: a save wrote a parent that it had read before
  another save changed the tree.
* `OneTimeToken` is the promise: a link is issued to one addressee, used at most once and
  only by them, and never after it was taken back. No code takes back a workspace
  invitation, so `withdrawn` is mapped to the empty set here.

### WorkspaceGovernance, PlatformAdministration, ApiRequests, Administration

`workspace-governance-repository.ts` and its routes; `system-administration-repository.ts`,
its routes and the SECURITY DEFINER functions of migrations `0005`, `0007`, `0008`.

* `ApiRequests` holds what they share: the requests in flight and two bounds. `raced` is
  the history that the conditional properties rest on: it names what was overwritten by a
  request that had read it before another one wrote.
* Platform: `Add`, `Count` and `Suspend` are administrators; `Prepare`, `Send`, `Open`,
  `Create` are tenants and their links, with the row, slug and pending-index locks that
  `Take` waits for; `SaveKey` writes one settings entry at a time, `FailToSave` stops
  between two, `Replace` puts the saved policy into memory, `Restart` reads it from the
  table; `ReadBoard` and `WriteBoard` are the announcement list.
* `OneTimeToken` is implemented a second time, by activation links: preparing a new link
  for a slug takes the pending one back (`withdrawn`).
* Workspace: `Find`, `CreateRole`, `LockRole`, `DeleteRole`; `See`, `Delete`, `Insert` are
  the READ COMMITTED replacement of a role's capabilities and of a member's roles, where a
  statement sees the rows that were committed when it started; `ReadRoles` and `ReadGrants`
  the list in two statements; `RenameAccount`, `ListPlaces` and `RenameActor` save the
  profile in the workspaces that are listed, while `Toggle` suspends and restores them.
* `MayAsk` asks `Permissions!MemberMay` for each route, as `requireWorkspaceCapability`
  does. The built-in role decides; custom roles are stored and assigned but never asked.

### Permissions

`packages/core/src/permissions.ts`: the table of roles, `authorize` as a chain of early
returns (`Decision`), `requirePermission`, `intersectCapabilities` (`Delegated`), and the
principal that `workspace-authorization.ts` builds (`MemberPrincipal`).

### ProjectAccess

`collaboration-repository.ts` but for messages, `routes/collaboration.ts`.

* `standing` is a member's workspace role, `team[project][person]` a project role, `room`,
  `crew`, `document` rows. `query` is a request: `Check` is everything a method reads before
  its write, and the write (`CreateRoom`, `AddRoomMember`, ...) is a later step, since
  nothing is locked in between. A suspension may come between the two.
* The snapshot is read by `ReadProjects`, `ReadRooms`, `ReadVisibleRooms`, `ReadDocuments`,
  `ReadMessages`; the membership is looked up before each. `due` is what the reader could
  see when it asked, `torn` whether something was committed during the reads.

### RoomMessages (and MessageLog)

`collaboration-repository.ts` (`appendMessage`, `listMessages`, `requireActiveRoomMember`),
the unique indexes of `messages`, the retry that `routes/collaboration.ts` leaves to clients.

* `room`, `roomMembership`, `messages` are committed rows; `lock` is the room's row lock.
* `req` runs `BeginAppend` or `BeginList`, `CheckMember`, `LockRoom`, `FindExisting`,
  `Write`, `Commit` or `ReadPage`; then `Deliver` or `Lose` the reply. `Crash` is a lost
  connection before `COMMIT`. `ChangeMembership` and `ChangeStatus` are other people; no
  handler of the API closes a room today, the status check is there for whoever will.
* `answers` and `reader` are what clients know: answered appends, and the pages a reader
  has put together by handing back the cursor of the page before.
* `MessageLog` is the promise: a log that grows at its end, takes each mutation once and
  nothing while the room is closed.

### MessageComposer

`halo-workspace.tsx`, `session-gate.tsx`, `use-workspace-entities.ts`. It INSTANCEs
`MessageLog` for each room in place of the server, which the refinement of `RoomMessages`
justifies: `Store` may happen long after the page gave up (`FailMessage`), or never
(`Vanish`). `SubmitMessage` is `submitMessage` up to its await, `Confirm` and `FailMessage`
what follows. `OpenRoom`,
`AskForRoom`, `MakeRoom`, `RoomMade`, `RoomRefused` change the room under the text.
`LoadPage` reads a new snapshot; `SwitchLanguage` fills the page again from the old one, as
the effect on the locale does.

### AdminConsole: MembersPage, EntryForms, CatalogPage, SettingsPage

The web console. `ConsolePage` holds the page that is open and the bound on what the person
does; each module owns the requests of its page.

* `MembersPage` (`live-members.tsx`): roles and statuses change in the row at once
  (`SendPatch`), are confirmed or rolled back to the value they replaced (`RollBack`);
  batches, forms and hand-overs are followed by a reload; reloads replace all rows.
  `directory` holds what the database does, the owner flag and the bound role apart;
  `Overview` is what `haloai_list_workspace_members` makes of it. The member form sends
  two requests (`SaveMember`), and the page loads when both are answered
  (`FinishWrites`); the first that fails ends the save without a load, and the other goes
  on, belonging to no form (`FailWrite`). `exposed` names the cells where two of these
  overlapped, an answer was lost, or such a request was granted.
* `EntryForms`: six dialogs, of members, quotas, tenants, models, roles and departments. A
  `Dialog` record says which parts of its form come from the row and which from a request,
  and whether the page forgets the entry when it closes. `AnswerFetch`, `AnswerToggle`,
  `FinishSave` act on whatever the dialog shows by then.
* `CatalogPage`: four paged lists. Every change of a control sends a request; answers come
  in any order (`asked`, `Answer`). A `List` record says how they differ. The dialogs of
  tenants and models may be closed while their request is under way and the person goes on
  with the list: `SubmitEdit` keeps the controls of the render it began in and `AnswerEdit`
  loads the list with them, as `load` does, a function of that render; a created tenant
  turns the page to the first besides. The number of rows that match stays the same.
* `SettingsPage` (`system-settings-section.tsx`): the draft of the session policy, its
  loads, saves entry by entry, and the writes of the other tabs, each of which loads the
  page again and takes its error away.

### CollabDurability

`server.ts` (`onLoadDocument`, `onChange`, `onStoreDocument`, `beforeUnloadDocument`,
`close`), `durability-guard.ts`, `persistence-retry.ts`, `shutdown.ts`, `config.ts`.

* A document's contents are the number of updates in it. `generation`, `dirty` are the
  guard's fields; `store` is the run of `onStoreDocument` (attempt number, generation and
  snapshot taken at its start, time left); `strays` are aborted attempts of an adapter that
  ignores its signal; `service` and `deadline` are `close()` with its two deadlines;
  `behind`, a history, the documents that had one store under way and another one scheduled
  when `close()` was called.
* `BeginStore`, `Persist`, `Stored`, `AttemptFails`, `AttemptTimesOut`, `Retry` are the
  coordinator; `Close`, `Destroyed`, `ForceUnload`, `ForceEnds` the shutdown; `Tick` is a
  clock that does not pass a timer that is due.
* Hocuspocus is external: debounced stores, one store of a document at a time, a pending
  store run at once while closing, an unload tried when the last connection is gone.

### CollabSession

`authorization.ts`, `realtime-security.ts`, `server.ts` (`onAuthenticate`,
`beforeHandleMessage`, `beforeSync`, `beforeHandleAwareness`, `afterHandleMessage`,
`onTokenSync`, revocations).

* `rights` is the history of an actor's rights, one entry per authorization version; the
  port answers with any version so far, because tickets and replicas may be old.
* `message` is the message a connection is handling: `Receive`, `Revalidate`, `Acquire`
  (the document's lock, `queue`), `Check`, `Apply`, `After`; a ticket renewal takes
  `TokenSync` and no lock; `Refuse`, `CheckFails`, `TokenRefused` close the connection.
* Hocuspocus handles the messages of one connection one by one, and completes a message of
  a connection that closes meanwhile.

## 3. The runs

| run | instance | shows |
|---|---|---|
| `membership` | 3 members (symmetric), a batch of 2 requests of any kind | an active owner remains; the transactions implement `Ownership`; every request ends, lock waits and deadlocks included |
| `membership_hand_back` | 2 members, hand-overs, one owner at first | violated: the new owner cannot hand ownership back |
| `onboarding` | 2 people, 2 links, 2 departments, 2 requests at a time and 4 in all, of one group of operations | a link is a one-time token; an acceptance changes a member once and gives nothing back that a request about roles took; roles and ownership come from an accepted invitation or from such a request; a circle of departments needs overlapping saves |
| `administration` | 3 accounts, 2 links, 1 slug, 2 policies, 2 notices, 3 roles, 1 member, 2 places; 2 requests at a time, 4 in all, of one group of operations | eight properties of the two back offices, listed below |
| `projects` | 2 people, 2 projects, 2 rooms, 1 document; 2 requests at a time, 4 in all | a room's people and documents are of its project; snapshots are exact |
| `messages` | 2 authors who share a mutation id, 3 sends, 1 reader, page size 1, 2 requests | a gap-free log, one answer per mutation, pages without holes or repeats; `MessageLog` is implemented |
| `composer` | 2 members, 2 rooms; one writes and sends twice, turns its page twice; the other once | messages once, in their room, in order; what was confirmed stays; the box is emptied only by a stored message |
| `composer_resend` | 1 member, 1 text, 2 sends | violated: the text is stored twice |
| `console` | one page at a time; 2 members, 2 changes in rows, 2 requests of forms, 2 loads; 2 entries, 2 tenants, 2 searches, 2 page sizes, 2 saves of a list, 2 lifetimes and 2 renewals; 3 to 5 things the person does | rows are the server's at rest; entries keep their own values; lists answer their controls; saved policies are accepted; dialogs close when stored |
| `durability` | 2 documents (one with a careless adapter), 3 updates each, 2 attempts | what the guard, the memory or a shutdown forgets is stored; what is stored gets newer; a deadline of one window covers one store; shutdowns end |
| `durability_window` | 1 document, 2 updates, 3 attempts; window 9, deadline 12, the proportion of the defaults | violated: a store behind another one is forced out at its first attempt |
| `collab_sessions` | 2 connections, 1 actor, 2 client ids, limit of 1 update, 2 versions | the document stays within its limit; client ids have one owner; updates by ticketed writers; messages are handled to their end |

The properties of `administration`: an active administrator remains unless two suspensions
counted the same ones; the policy in memory is the stored one unless saves overlapped or
broke off; announcements that were made and not taken back are shown unless a list was
written back after another change; a used activation link owns its tenant; activation links
are one-time tokens; roles are listed with what one request gave them; a member's roles come
from one request; a person bears one name in every workspace that the last save listed
(active memberships of active workspaces) unless renames overlapped or broke off.
The exceptions name races that the code leaves open (see 7). Without them the properties
fail; with them they say that nothing else, neither a sequence of requests nor a restart,
nor an overlap with another operation, breaks them.

Why the bounds are enough for the cases that matter:

* Two requests give every pairwise race of locks, checks and commits. Three members let
  two owners demote each other or hand over to a third, and give a cycle of two lock waits.
  `Bindable` limits the roles of `assignMemberRoles` to admin or none: any other binding
  only repeats what a role change does to the rows the checks read, and none of the owner
  checks reads an assignment.
* Four requests, two at a time, let a race be followed by two more requests that meet its
  result: a link is sent, presented twice at once and presented again. `OpGroups` keeps
  operations apart that write different rows; what a platform administrator does after
  being suspended is in the group of the tenants.
* Two departments give a circle of two; one of them may be there at first
  (`FirstDepartments`), the other one a save has to make. Three levels need three departments; that the
  server allows them is plain from its check (see 7) and takes no interleaving.
* Two policies share no entry, so any mixture of them is seen. Two notices, two messages:
  one is lost while the other is written. Three roles: one built-in, two that compete for
  one key. One of the three capabilities is not in the catalogue.
* Two rooms, in one project or two; one of them may become visible, or get its document,
  between two statements of a snapshot.
* Two mutations give a retry, a concurrent retry, and another author's message with the
  same id. `Statuses` holds one open and one closed status: the code asks only whether a
  room is closed. Three messages and pages of one give a first, a middle and a last page, an
  empty room, and appends between all of them.
* Two sends of one member give one that overlaps typing and one repetition; two rooms let
  it open another one, or make it, while a reply is on its way.
* `MaxChanges` counts what the person does, not the answers: three on the member table,
  where the form, a change in a row and a hand-over or a load meet; four on the settings
  and on the lists whose rows are edited, where a search, a turn of the page and two saves
  meet; five on the others. Two requests of forms are the two of one save, or one that
  outlived its save beside the batch or the hand-over that came next. Three rows match without a
  filter and one with it, so the pages are more than one, or one. The two renewals lie below
  and at the two lifetimes: one combination is refused.
* Two attempts are a first and a last one; a third update arrives after a first store
  began and before a second; `MaxDocument` is one below `MaxUpdates`, so that a document
  becomes too large to store. `ShutdownTimeout` is one retry window (2 * 1 + 1), the least
  that `config.ts` takes. `durability_window` has three attempts, as the defaults, and a
  deadline of 12 ticks for a window of 9 (3 * 2 + 1 + 2), as the 20 s and 15.3 s of the defaults.
* Two connections compete for the lock, for one client id and for the last free place in
  the document; one actor with two versions has its rights taken and given back; one actor
  suffices as a grant is only compared with its own actor's rights.

Deadlock checking is off where the bounds stop the system: when the requests of a behaviour
are used up (`membership`, `onboarding`, `administration`, `projects`), when the person
has done what the bound allows (`console`), and when the service is shut down
(`durability`).

## 4. Fairness

* `WorkspaceMembership!BatchSpec`: weak fairness of each request's `Proceed`. A process goes
  on with its transaction, PostgreSQL grants a lock nobody else holds and ends a cycle of
  waits. New requests need not come, hence the batch, one request per slot: among endless
  newcomers, a waiter for several rows has no promise.
* `CollabDurability!FairSpec`: timers fire and promises settle (`Tick`, the coordinator's
  steps, the steps of `close`). `Persist` and `AttemptFails` are not fair: an adapter need
  never answer. `Unload` is not fair either: `CloseSettles` rests on the deadlines alone.
* `CollabSession!FairSpec`: weak fairness of the handling of each message. The port's
  answer has a time limit (`AUTH_TIMEOUT`, a `Refuse` here) and the lock's queue is first
  in, first out.
* `RoomMessages!FairSpec` (no run uses it; `RequestsEnd` holds under it): weak fairness of
  `Proceed`, strong fairness of `LockRoom`, since PostgreSQL queues the waiters of a row.

The other specifications state no fairness: nobody has to press a button, an answer may
never come, and their properties are about safety.

## 5. The proofs

All of these hold for any sets and any bounds the modules' assumptions admit. The
assumptions give the constants their types and keep kinds of rows, and the stand-ins for
"nothing", apart. Some say more: `Members` and `Users` are finite, and there is a first
administrator; there is a tenant (a list that no tenant narrows stands for its requests
with any of them), and pages have at least one row; every lifetime of the settings page leaves a longest renewal below it
(`SettingsAssumption`, true of the two lists in the source); `WindowAssumption` is the check
of `config.ts` on the shutdown deadline.

| theorem | says |
|---|---|
| `WorkspaceMembershipProofs!TypeCorrect` | types |
| `!OwnerRemains` | `Spec => []ActiveOwnerRemains` |
| `!CheckedWrites` | the deferred trigger never has to refuse |
| `!OwnershipImplemented` | `Spec => Abstract!Spec` |
| `OnboardingProofs!TypeCorrect` | types |
| `!MembersHoldTheirInvitation` | `Spec => []MembersWereInvited` |
| `!InvitationsAreOneTimeTokens` | `Spec => Token!Spec` |
| `!AcceptancesChangeMembersOnce` | an action property |
| `!DepartmentsFormAForest` | `Spec => []CirclesNeedAnOverlap` |
| `AdministrationProofs!OrderOfChecksDoesNotMatter` | the chain of early returns is one formula |
| `!DenialsComeFirst`, `!AgentsNeverReview` | no role or grant overrides these |
| `!DelegationNeverWidens` | an agent has at most what each of its four sources allows |
| `!RoutesAskTheRoleTable` | the routes decide by the built-in roles alone |
| `!TypeCorrect` | types of both back offices |
| `!AnAdministratorRemains` | `Spec => []AdministratorRemains` |
| `!PolicyStaysTheStoredOne` | the policy in memory is the stored one |
| `!AnnouncementsStayShown` | `Spec => []AnnouncementsAreShown` |
| `!UsedLinksOwnTheirTenants` | `Spec => []UsedLinkOwnsItsTenant` |
| `!TenantLinksAreOneTimeTokens` | `Spec => Token!Spec`, by activation links |
| `!RolesAreListedAsTheyWereGranted` | `Spec => []RolesAreListedAsGranted` |
| `!RolesComeFromOneAssignment` | `Spec => []RolesComeFromOneRequest` |
| `!OneNameStaysEverywhere` | `Spec => []OneNameEverywhere` |
| `ProjectAccessProofs!TypeCorrect` | types |
| `!RoomsAndDocumentsStay` | `Spec => []RoomsStayInTheirProject` |
| `!SnapshotsAreExact` | `Spec => []SnapshotIsExact` |
| `RoomMessagesProofs!TypeCorrect` | types |
| `!GapFree`, `!AnswersAgree`, `!NoIndexError` | three invariants of the log |
| `!LogImplemented` | `Spec => Log!Spec` |
| `!PagesFollow` | `Spec => []PagesAreContiguous` |
| `WebProofs!SettingsCanBeSaved` | `Spec => []SavesAreAccepted` |
| `!DialogsKeepEntriesApart` | `Spec => []EntriesKeepTheirOwn` |
| `!DialogsCloseWhenStored` | an action property |
| `!TheTableShowsTheServer` | `Spec => []RowsAreTheServers` |
| `!ListsAnswerTheirControls` | `Spec => []ListAnswersTheControls` |
| `!MessagesShowInOrder` | `ComposerSpec => []ShownInServerOrder` |
| `!ConfirmedMessagesStay` | `ComposerSpec => []ConfirmedStaysShown` |
| `!DraftsAreKept` | the box is emptied by a stored message only: an action property |
| `CollabDurabilityProofs!TypeCorrect` | types; at most so many attempts |
| `!CleanDocumentsDurable` | what the guard calls clean is stored |
| `!UnloadedDocumentsDurable`, `!SuccessfulCloseDurable` | unloading and closing lose nothing |
| `!NothingIsLost` | the three together: `Spec => []NothingLost` |
| `!StoredOnlyGetsNewer` | an action property |
| `!OneWindowIsEnoughForOneStore` | `Spec => OneWindowCoversOneStore` |
| `CollabSessionProofs!DocumentStaysSmall` | the size limit |
| `!ClientsAreOwned` | client ids |
| `!WritersByTicket` | an action property |

**Membership.** `ActiveOwnerRemains` is not inductive: a commit keeps an owner only if the
check it made still holds. The invariant adds: what a request in each phase has locked
(`LocksHeld`), that an update lock is exclusive (`LockExclusive`), that owner rows are
active (`OwnersAreActive`, from the check constraint), and that a transaction past its
check leaves an owner behind (`ChecksStand`). The step that matters is another request's
commit. A role change or hand-over holds the workspace row, so it commits alone among
those. A suspension holds only its member's row, but it never commits for an owner: the
count or the check constraint stops it. So the set of active owners is what the check
counted.

**Onboarding.** What a request read of its link must still be true when it writes. `Bound`
says so: the requester is the addressee; once past `Lookup`, nobody else has used the link,
and, if the requester was a member already, nobody at all. `Holding` is why it stays true:
from its lock to its commit the request holds the link's row, so of two requests with one
link only one is past the lock (`l[q.link] = r`). The refinement maps the commit of an
acceptance to `Use`, the insert of a link to `Issue`, and every other step to a stutter. The
action property is proved step by step: the only steps that change an existing member are
an acceptance, which uses the link in that step, a placement, a change of status, and a
request about roles. `RolesWritten` is what the three requests about roles have in common:
they set the role and the owner flag of the people they add to `regraded`, and nothing else.

**Departments.** A circle is a set of departments that holds the parent of each of its
members (`HasCircle`), so the proof needs no path of any length. `Reads` says that as long
as no other save has changed the tree, the parent that a save has read is there, has no
parent of its own and is not the department that is saved. So the department written is in
no circle: its parent would be in it too, and has no parent. Two levels are not an invariant
(see 7): departments below the one that is saved may be there already.

**Projects.** The checks lock nothing, so no lock is in the invariant. It says instead that
what a check looked at never goes away: `Granted` is what a positive check found (the
person is in the project, the room is of it), and `Grown` is what every step preserves (no
step takes anyone out of a project or moves a room). `GrantsLast` puts the two together;
each write then follows from its grant. For the snapshot `SnapshotInv` lets a list that is
still to be read stand for what it would give now (`ProjectsOf`, `RoomsOf`, `VisibleTo`,
`DocumentsOf`), so that reading it changes none of the four. `Gathered` relates them to what
is visible: what is due is among them, they hold nothing that cannot be seen, and as long
as nothing was committed they are exactly what can be seen. A commit only makes more
visible (`Growing`), which keeps the first two.

**Messages.** From `LockRoom` to its end an append holds the room's row (`LockHeld`), so
`lastSequence` and the messages are what it has read (`ReadsOK`); `Numbered` says that
sequences are 1 to `lastSequence` and each message has one; `AnswersOK` that answers are
stored messages. The refinement maps the message of sequence i to the i-th entry. For the
pages `PagesInv` says that a reader has everything from its cursor up to the newest message
it has seen (`Reading`) and that a page that was read and not yet delivered leaves no gap
below the cursor (`Fitting`). Both stay true while messages are appended, since a commit adds
a message after all others (`LaterMessages`), and a reader has one request under way
(`OneListEach`).

**Permissions.** No state: each theorem unfolds the decision for an arbitrary principal,
capability and resource.

**The two back offices.** The invariant is a conjunction, one part for each kind of request,
and the proof of a part looks at the requests of its kind only. Where the code locks, it
says what the holder of a row knows: who opens a link holds the link's row, and what was found
of it stays (`LinkHeld`); an update of a role holds the role's row, so that the rows it has
seen are still all there are, and a role has what one request gave it or nothing
(`RolesHold`). Where nothing is locked (`CountsHold`, `SavesHold`, `BoardHolds`,
`AssignmentsHold`, `WallHolds`, `NamesHold`), it says that what a request has read is still
so, or the request is stale, or another one is under way; a stale request that writes puts its
subject into `raced`, and from then on the property promises nothing of that subject. The
refinement of `OneTimeToken` maps the insert of a link, which takes back the pending one, to
`Issue`, its use to `Use`, and every other step to a stutter.

**Settings page.** `SettingsInv`: unless a load found a mixed policy, the draft fits, and so
does every policy that a save carries (the draft may have changed since). The step that
matters is the choice of a shorter lifetime, where `LongestRenewal` says that the renewal
the page falls back to exists and is shorter.

**Dialogs.** `FormsInv` separates what belongs to the entry whatever the answers do (the
part filled from the row, `RowPartIsItsOwn`), what belongs to it while no late answer has
been shown (`SureFormIsItsOwn`), and what a save under way still has to write
(`SaveIsItsOwn`) or has written (`SaveIsStored`). A save carries its own copy of the form:
that is why an answer that comes during the save does no harm.

**Member table.** `MembersInv` says of each cell that it is exposed (two changes overlapped,
or an answer was lost), or that a load under way will replace it (`Covered`), or
`CellHolds`: a change under way is the only one of its cell, shows its value and can get back
what the server still holds, and without one the row shows what the server holds.
`CleanHolds`: a load that nothing overlaps carries what the server holds.

**Lists.** `ListInv`: the requests whose answer was overtaken are the oldest (`InOrder`); the
newest one asks for what the controls show (`NewestAsks`), or was overtaken by an answer to
just that (`NewestAnswered`), unless it was a save's and is `outdated`; a page that was turned by the count of its own list has rows
(`Reaches`).

**Composer.** `LogsHold`: a room stores each message once, and rooms with messages are
listed. `PageHolds`: what is shown of a room is in the order of its log, and has the loaded
and the confirmed messages. `RequestsHold`: a member has one message under way, and if it is
stored already it comes after everything that the page shows of its room. So the reply that
shows it can only append. `CreationHolds`: a room whose creation was not answered yet is
unknown to its maker's page, and nothing was shown or sent there. Other members' messages
only make logs longer (`Grows`), which keeps all of it.

**Durability.** A document with a store scheduled or under way is dirty, and the store
holds every update if its generation is still the document's (`WorkIsDirty`); a snapshot
under way lies between what is stored and what is in memory (`SnapshotBetween`). Hence
`markStored` clears the mark for a complete snapshot only, and nothing is left that could
write an older one. Time plays no part in this. Adapters that ignore their signal are excluded
(`Careful`), as the contract of `ports/persistence.ts` excludes them; they are modelled,
and do overwrite newer snapshots.

**Shutdown.** `Owed` is how long the store of a document under way, or the one scheduled, may
still go on. A tick takes one from it and one from the deadline; failures, retries and ends of
a store never add to it, and while the service closes nothing schedules another. A document
that had not both when the service closed owes at most one window, which the deadline has
(`WindowAssumption`). So `ClosingInTime`: its debt never exceeds the time left, and when none
is left the store is at its last attempt. Documents that had both are in `behind`; they may be
cut short (see 7). The sum of the waits is a recursive
function, and that it adds them up is proved and not assumed: `NaturalsByStep` gets induction
over numbers from the pigeonhole principle of finite sets, `RecursionDefines` the functions
from that.

**Sessions.** `LockInv`: a message past the lock holds it (`EnteredHoldsLock`), so what was
measured or compared still holds when it is applied (`MeasuredFits`, `ComparedIsFree`).
`GrantInv`: a grant that writes has a writer's ticket and a writer's last answer, and a
connection that is not read-only has such a grant.

**Model-checked only.** Liveness under fairness (`RequestsEnd`, `CloseSettles`,
`MessagesSettle`), which is out of this prover's reach. Every invariant, action property and
refinement that a passing run checks has a theorem.

**Proved or true without a run of their own.** `TypeOK` of each module; in `RoomMessages`
that the indexes never refuse; in `CollabDurability` the three parts of `NothingLost`.
`WorkspaceMembership!RoleMatchesOwnership` holds without `assignMemberRoles` only.

## 6. What is outside the models

* External and assumed: PostgreSQL (row locks, READ COMMITTED, unique and foreign keys,
  deferred triggers), Hocuspocus and Yjs (updates merge; the order of hooks), the adapters
  of the authorization and persistence ports, better-auth sessions, React (an effect runs
  after the state it depends on changed).
* Left out of modelled parts: row-level security and the columns it reads, validation of
  texts and message parts, audit queries and exports, rate limits and origin checks
  (counters without a protocol; an exceeded one is a `Refuse`), clocks of tickets (expiry is
  a `Refuse` at any time), quotas and model allocations on the server (stored, and enforced
  by nothing), the settings of a workspace and its creation by its owner.
* Agent runtime: a library for one run, in memory. The worker depends on it and no process
  executes it; routing, budgets and the state machine are sequential functions with unit
  tests. The interleavings that would be worth a model, with approvals, storage and
  cancellation, are not written yet. Approvals and document proposals are validators of
  single values.
* `apps/worker` validates payloads and logs. Authentication sessions are better-auth's; the
  policy it is given is in `PlatformAdministration`. The other web pages show what they are
  given; request wrappers, message catalogues, logging, the model gateway (`getDetailedHealth`
  returns constants but for the database's ping), deployment files and migrations that only
  create tables keep no protocol.

Observations of the models that are not properties:

* A revocation that arrives while `onAuthenticate` awaits the port does not close that
  connection (state `opening`); the next message is revalidated. A document above its limit
  stays dirty and in memory.
* `updateDocument` asks for the project only: its writers may archive a document of a
  private room that they cannot list. A project may lose its only lead, since
  `addProjectMember` replaces the role of somebody who has one.
* `prepare_tenant` for somebody who has an account opens the tenant at once and leaves a
  pending link for the same slug pending; the slug's uniqueness makes it useless.
* Custom roles grant nothing: `requireWorkspaceCapability` reads the built-in role.
* A save of the settings that breaks off between two entries leaves a mixed policy, and
  with sliding renewal the page may be unable to save until the lifetime is changed. Any
  load, after a write of another tab too, replaces an unsaved draft.
* The pages that save a profile or an announcement resolve the active workspace anew when
  the request is sent, whatever workspace the page was opened in; the settings of a
  workspace are filled with time zone and language of the user's session.
* When one of two requests of a dialog fails, the other one stays on its way. A member's
  roles are refused and the department is stored afterwards, without a load: the row keeps
  the old department with nothing left on its way (`live-members.tsx:453-479`).
  `RowsAreTheServers` excepts such a cell. `EntryForms` has no such late request: a save that
  failed ends there, and its properties speak of saves that end well.
* A save of a tenant or a model, and a switch of an allocation, load the list with the
  controls of the render they began in (`system-tenants-section.tsx:105`,
  `system-models-section.tsx:124, 142`): a search made meanwhile is answered and then
  replaced by the list of before. `ListAnswersTheControls` excepts the list until the next
  change of the controls.
* A saved name reaches the active memberships of active workspaces. A suspended membership
  and an archived workspace keep the old one, also when they are restored.

## 7. Disagreements between the code and its documentation

With a run, and listed as findings:

1. Ownership cannot be handed back, nor handed over by somebody who once was admin: the
   unique index counts revoked assignments (`membership_hand_back`).
2. The composer draws a new mutation id for each send, so a repetition after a lost reply
   is stored twice (`composer_resend`), against lines 15 and 88 of
   `docs/en-US/realtime-collaboration.md`.
3. The shutdown deadline has to cover one retry window, so that no later attempt is cut off by
   the forced exit (`apps/collab/src/config.ts:55-57`). A store under way when the service
   closes and the one scheduled behind it need up to two, and the defaults leave 1.3
   (`durability_window`).

Stated in the modules and refuted by TLC in a few steps, without a run in the list:

* Roles are changed on the authority of a principal resolved before the transaction
  (`RoleChangedByCurrentOwner`), against "the current Membership" of
  `docs/en-US/authentication-and-onboarding.md:40`.
* Archived workspaces cannot be restored: the route resolves members of active workspaces
  only (`OwnerCanUnarchive`).
* The snapshot reads the messages of every room that is visible to the project in one
  `Promise.all` (`apps/api/src/routes/collaboration.ts:173`), and one room that the reader
  is not in refuses all of it (`MembersLoadTheirSnapshot` of `ProjectAccess`), against
  `docs/zh-CN/roadmap.md:31`, which asks for project membership and nothing more.
* A retry of a stored message is refused once the room is closed
  (`RetryReturnsStoredMessage`), against `docs/en-US/realtime-collaboration.md:81`.
* Two administrators suspended at once leave the platform without one
  (`LastAdministratorStays`), against the message at
  `system-administration-repository.ts:576`.
* `TwoLevels` of `Onboarding`: a department that has departments below it can be given a
  parent (`workspace-onboarding-repository.ts:641` looks upwards only), which makes three
  levels of the two the message there names; the console's tree shows two. Saves that
  overlap make a circle; the table only forbids a department to be its own parent.

Seen while modelling:

* Suspending one of several owners fails on the check constraint
  `workspace_memberships_owner_active_check` (`drizzle/0000_foundation.sql:602`) and not with
  an error of the method; only that constraint makes the count of
  `workspace-onboarding-repository.ts:926` harmless, which takes no workspace lock.
* `assignMemberRoles` lets an admin bind the owner role
  (`workspace-governance-repository.ts:539`) and replaces the assignments that the owner
  flag relies on.
* An author removed while waiting for the room's lock still has the message stored
  (`collaboration-repository.ts:571`).
* A text typed while a send is under way is wiped by its reply (`halo-workspace.tsx:212`); a
  late reply to a new room, or a change of the language, opens another room under the text.
* A change of the language fills the collaboration page from the snapshot of its last load
  (`use-workspace-entities.ts:169`): messages and rooms that came since disappear, against
  `docs/en-US/internationalization.md:43-53`. `ConfirmedStaysShown` excepts it.
* The functions behind the lists of tenants and their members return the total with each
  row, so an empty page has a total of none and its pagination is disabled, against
  `docs/en-US/frontend-surfaces.md:59`. `ListAnswersTheControls` excepts pages turned by the count of
  an earlier list.
* The snapshot's schema takes at most 256 participants and 5000 messages
  (`workspace-collaboration.ts:152-160`); a workspace that grows past that cannot be opened
  (`session-gate.tsx:74`).
* The demonstration events go from preparing to streaming without running, which
  `canTransitionRun` forbids.

## 8. What is left

In the order in which it would be added:

1. Steps of a liveness argument that need no fairness: that each `Tick` of a shutdown, and
   each step of a request, comes closer to an end; the deadlock freedom of `CollabSession`.
2. The composition of `ProjectAccess` and `RoomMessages`, once the API closes rooms or
   takes people out of them; today the two share only memberships that grow.
3. The run of an agent with its approvals and its storage, once a process executes it; the
   abstract specification would be the life of a run as `agent-run.ts` states it.
4. The adapters of the collaboration ports, once the repository has them: the composition
   of sessions and durability with what they promise.
