---------------------------- MODULE ProjectAccess ----------------------------
(***************************************************************************)
(* Projects, rooms and documents of one workspace: who creates them, who is  *)
(* let in, and the snapshot a page starts from, as the collaboration routes  *)
(* run CollaborationRepository on PostgreSQL.                                *)
(*                                                                         *)
(* A request resolves its principal and then works in one transaction, which *)
(* is read committed: the checks of an operation come before its write and   *)
(* lock nothing, and each list of the snapshot is a statement of its own     *)
(* that sees what has been committed when it starts.                         *)
(***************************************************************************)
EXTENDS ApiRequests

CONSTANTS
  People,         \* human actors of the workspace
  Owner,          \* one of them, the owner
  FirstProject,   \* a project the owner has made before
  Projects,       \* rows of projects, rooms and documents; a behaviour creates no
  Rooms,          \* more than there are (bound)
  Documents

ProjectOps == {"project", "project_member", "room", "room_member", "document", "update", "snapshot"}

ASSUME ProjectAssumption ==
  /\ Owner \in People /\ FirstProject \in Projects
  /\ Nobody \notin People \union Projects \union Rooms \union Documents

WorkspaceRoles == {"owner", "admin", "member"}      \* "member" stands for guest too
ProjectRoles == {"lead", "contributor", "reader"}   \* reviewer and observer read
Visibilities == {"workspace", "private"}

VARIABLES
  standing,       \* workspace role of an active member, "none" for anybody else
  team,           \* team[j][p]: project role, "none" for no membership; an unused row has no team
  room,           \* project and visibility of a room
  crew,           \* the members of a room
  document,       \* project, room and status of a document
  query,          \* per request: phase, arguments, what it has read
  page            \* per person: the last snapshot that was answered

projectVars == <<standing, team, room, crew, document, query, page>>
vars == <<requestVars, projectVars>>

NoRoom == [project |-> Nobody, visibility |-> "private"]
NoDocument == [project |-> Nobody, room |-> Nobody, status |-> "none"]
NoPage == [projects |-> {}, rooms |-> {}, documents |-> {}, messages |-> {},
           due |-> {}, torn |-> FALSE, answer |-> "none"]

Free == [phase |-> "idle", op |-> "none", user |-> Nobody, as |-> "none", project |-> Nobody,
         room |-> Nobody, document |-> Nobody, who |-> Nobody, role |-> "none",
         visibility |-> "private", visible |-> {}, read |-> NoPage]

ProjectExists(j) == \E p \in People : team[j][p] # "none"
ExistingRooms == {x \in Rooms : room[x] # NoRoom}
Manager(q) == q.as \in {"owner", "admin"}

---------------------------------------------------------------------------
(* What a principal may do and see.                                        *)

MayWrite(q) == team[q.project][q.user] \in {"lead", "contributor"}

MayManage(q, j) ==
  j # Nobody /\ ProjectExists(j) /\ (Manager(q) \/ team[j][q.user] = "lead")

ProjectsSeen(q) ==
  {j \in Projects : ProjectExists(j) /\ (Manager(q) \/ team[j][q.user] # "none")}

RoomsSeen(q) ==
  {x \in Rooms : /\ room[x].project \in ProjectsSeen(q)
                 /\ room[x].visibility = "workspace" \/ q.user \in crew[x]}

\* Faulty: a document is listed with its project, whatever room it lies in.
DocumentsOfProjects(q, rooms) ==
  {d \in Documents : document[d].project \in ProjectsSeen(q)}

\* The documents of the projects, but for those of rooms that are not among these.
DocumentsSeen(q, rooms) ==
  {d \in Documents : /\ document[d].project \in ProjectsSeen(q)
                     /\ document[d].room \in rooms \union {Nobody}}

---------------------------------------------------------------------------
(* Requests.                                                               *)

\* resolveMembership finds an active member; an idle request takes the next call.  The
\* page names rows that it has listed.
Begin(r, q) ==
  /\ Made(q.op)
  /\ query[r].phase = "idle" /\ standing[q.user] # "none"
  /\ query' = [query EXCEPT ![r] = [q EXCEPT !.phase = "asked", !.as = standing[q.user]]]
  /\ UNCHANGED <<standing, team, room, crew, document, page>>

Ask(r) ==
  \E p \in People :
    LET q == [Free EXCEPT !.user = p]
    IN \/ Begin(r, [q EXCEPT !.op = "project"])
       \/ \E j \in {i \in Projects : ProjectExists(i)} :
            \/ \E w \in People, k \in ProjectRoles :
                 Begin(r, [q EXCEPT !.op = "project_member", !.project = j, !.who = w, !.role = k])
            \/ \E v \in Visibilities :
                 Begin(r, [q EXCEPT !.op = "room", !.project = j, !.visibility = v])
            \/ \E x \in ExistingRooms \union {Nobody} :
                 Begin(r, [q EXCEPT !.op = "document", !.project = j, !.room = x])
       \/ \E x \in ExistingRooms, w \in People : Begin(r, [q EXCEPT !.op = "room_member", !.room = x, !.who = w])
       \/ \E d \in {e \in Documents : document[e] # NoDocument} : Begin(r, [q EXCEPT !.op = "update", !.document = d])

\* What the person may see when it asks is due to it.
AskForSnapshot(r) ==
  \E p \in People :
    LET q == [Free EXCEPT !.op = "snapshot", !.user = p, !.as = standing[p]]
    IN Begin(r, [q EXCEPT !.read.due = ProjectsSeen(q) \union RoomsSeen(q)
                                       \union DocumentsSeen(q, RoomsSeen(q))])

End(r) == query' = [query EXCEPT ![r] = Free]

\* A commit: snapshots that are being read may be torn by it.
Commit(r) ==
  /\ query' = [s \in Requests |->
                 IF s = r THEN Free ELSE [query[s] EXCEPT !.read.torn = query[s].op = "snapshot"]]
  /\ UNCHANGED <<standing, page>> /\ UNCHANGED requestVars

---------------------------------------------------------------------------
(* The checks of the repository methods, in the order they are made.        *)

MayAddToProject(q) == MayManage(q, q.project) /\ standing[q.who] # "none"

\* Faulty: anybody in the workspace can be let into a room.
MayAddAnybodyToRoom(q) == MayManage(q, room[q.room].project) /\ standing[q.who] # "none"

MayAddToRoom(q) ==
  LET j == room[q.room].project
  IN MayManage(q, j) /\ team[j][q.who] # "none"

\* A document goes into a room of its project; into a private one by its members.
MayCreateDocument(q) ==
  /\ MayWrite(q)
  /\ q.room # Nobody => /\ room[q.room].project = q.project
                        /\ room[q.room].visibility = "private" => q.user \in crew[q.room]

Allowed(q) ==
  CASE q.op = "project" -> standing[q.user] # "none" /\ Manager(q)
    [] q.op = "project_member" -> MayAddToProject(q)
    [] q.op = "room" -> MayWrite(q)
    [] q.op = "room_member" -> MayAddToRoom(q)
    [] q.op = "document" -> MayCreateDocument(q)
    [] q.op = "update" -> /\ document[q.document].project # Nobody
                          /\ MayWrite([q EXCEPT !.project = document[q.document].project])

Check(r) ==
  /\ query[r].phase = "asked" /\ query[r].op # "snapshot"
  /\ IF Allowed(query[r]) THEN query' = [query EXCEPT ![r].phase = "allowed"] ELSE End(r)
  /\ UNCHANGED <<standing, team, room, crew, document, page>> /\ UNCHANGED requestVars

Due(r, op) == query[r].phase = "allowed" /\ query[r].op = op

\* createProject makes its author the lead of a new row.
CreateProject(r) ==
  /\ Due(r, "project")
  /\ \E j \in Projects : ~ProjectExists(j) /\ team' = [team EXCEPT ![j][query[r].user] = "lead"]
  /\ Commit(r) /\ UNCHANGED <<room, crew, document>>

\* addProjectMember takes the new role for somebody who has one.
AddProjectMember(r) ==
  /\ Due(r, "project_member")
  /\ team' = [team EXCEPT ![query[r].project][query[r].who] = query[r].role]
  /\ Commit(r) /\ UNCHANGED <<room, crew, document>>

CreateRoom(r) ==
  LET q == query[r]
  IN /\ Due(r, "room")
     /\ \E x \in Rooms :
          /\ room[x] = NoRoom
          /\ room' = [room EXCEPT ![x] = [project |-> q.project, visibility |-> q.visibility]]
          /\ crew' = [crew EXCEPT ![x] = {q.user}]
     /\ Commit(r) /\ UNCHANGED <<team, document>>

AddRoomMember(r) ==
  /\ Due(r, "room_member")
  /\ crew' = [crew EXCEPT ![query[r].room] = @ \union {query[r].who}]
  /\ Commit(r) /\ UNCHANGED <<team, room, document>>

CreateDocument(r) ==
  LET q == query[r]
  IN /\ Due(r, "document")
     /\ \E d \in Documents :
          /\ document[d] = NoDocument
          /\ document' = [document EXCEPT ![d] =
                            [project |-> q.project, room |-> q.room, status |-> "active"]]
     /\ Commit(r) /\ UNCHANGED <<team, room, crew>>

\* updateDocument asks for no room: project writers archive what they cannot list.
UpdateDocument(r) ==
  /\ Due(r, "update")
  /\ \E s \in {"active", "archived"} :
       document' = [document EXCEPT ![query[r].document].status = s]
  /\ Commit(r) /\ UNCHANGED <<team, room, crew>>

---------------------------------------------------------------------------
(* The snapshot.                                                           *)

Answer(r, what) ==
  /\ page' = [page EXCEPT ![query[r].user] = what]
  /\ End(r)

\* One list is read; a member who was suspended meanwhile is refused the snapshot.
Read(r, phase, next, read) ==
  /\ query[r].op = "snapshot" /\ query[r].phase = phase
  /\ IF standing[query[r].user] = "none"
     THEN Answer(r, [NoPage EXCEPT !.answer = "suspended"])
     ELSE query' = [query EXCEPT ![r] = [@ EXCEPT !.phase = next, !.read = read]] /\ UNCHANGED page
  /\ UNCHANGED <<standing, team, room, crew, document>> /\ UNCHANGED requestVars

ReadProjects(r) ==
  Read(r, "asked", "rooms", [query[r].read EXCEPT !.projects = ProjectsSeen(query[r])])

ReadRooms(r) ==
  Read(r, "rooms", "visible", [query[r].read EXCEPT !.rooms = RoomsSeen(query[r])])

\* listDocuments lists the rooms anew before the documents.
ReadVisibleRooms(r) ==
  /\ query[r].op = "snapshot" /\ query[r].phase = "visible"
  /\ IF standing[query[r].user] = "none"
     THEN Answer(r, [NoPage EXCEPT !.answer = "suspended"])
     ELSE /\ query' = [query EXCEPT ![r] = [@ EXCEPT !.phase = "documents", !.visible = RoomsSeen(query[r])]]
          /\ UNCHANGED page
  /\ UNCHANGED <<standing, team, room, crew, document>> /\ UNCHANGED requestVars

\* The documents, and then the actors, for which the membership is looked up again.
ReadDocuments(r) ==
  Read(r, "documents", "messages",
       [query[r].read EXCEPT !.documents = DocumentsSeen(query[r], query[r].visible)])

\* The messages of each listed room; listMessages refuses who is not a member of it,
\* and one refusal refuses the snapshot.
ReadMessages(r) ==
  LET q == query[r]
  IN /\ q.op = "snapshot" /\ q.phase = "messages"
     /\ IF \A x \in q.read.rooms : q.user \in crew[x]
        THEN Answer(r, [q.read EXCEPT !.messages = q.read.rooms, !.answer = "answered"])
        ELSE Answer(r, [NoPage EXCEPT !.answer = "refused"])
     /\ UNCHANGED <<standing, team, room, crew, document>> /\ UNCHANGED requestVars

\* The member pages change the workspace role of somebody, or suspend it.
ChangeStanding(p) ==
  /\ p # Owner
  /\ \E k \in (WorkspaceRoles \ {"owner"}) \union {"none"} :
       k # standing[p] /\ standing' = [standing EXCEPT ![p] = k]
  /\ UNCHANGED <<team, room, crew, document, query, page>> /\ UNCHANGED requestVars

---------------------------------------------------------------------------
Init ==
  /\ RequestsInit
  /\ standing \in {s \in [People -> WorkspaceRoles] : \A p \in People : s[p] = "owner" <=> p = Owner}
  /\ team = [j \in Projects |-> [p \in People |->
               IF j = FirstProject /\ p = Owner THEN "lead" ELSE "none"]]
  /\ room = [x \in Rooms |-> NoRoom]
  /\ crew = [x \in Rooms |-> {}]
  /\ document = [d \in Documents |-> NoDocument]
  /\ query = [r \in Requests |-> Free]
  /\ page = [p \in People |-> NoPage]

Proceed(r) ==
  \/ Check(r)
  \/ CreateProject(r) \/ AddProjectMember(r)
  \/ CreateRoom(r) \/ AddRoomMember(r)
  \/ CreateDocument(r) \/ UpdateDocument(r)
  \/ ReadProjects(r) \/ ReadRooms(r) \/ ReadVisibleRooms(r) \/ ReadDocuments(r) \/ ReadMessages(r)

Next ==
  \/ \E r \in Requests : Ask(r) \/ AskForSnapshot(r) \/ Proceed(r)
  \/ \E p \in People : ChangeStanding(p)

Spec == Init /\ [][Next]_vars

---------------------------------------------------------------------------
(* Properties.                                                             *)

Page ==
  [projects : SUBSET Projects, rooms : SUBSET Rooms, documents : SUBSET Documents,
   messages : SUBSET Rooms, due : SUBSET (Projects \union Rooms \union Documents),
   torn : BOOLEAN, answer : {"none", "answered", "refused", "suspended"}]

Query ==
  [phase : {"idle", "asked", "allowed", "rooms", "visible", "documents", "messages"},
   op : ProjectOps \union {"none"}, user : People \union {Nobody},
   as : WorkspaceRoles \union {"none"}, project : Projects \union {Nobody},
   room : Rooms \union {Nobody}, document : Documents \union {Nobody},
   who : People \union {Nobody}, role : ProjectRoles \union {"none"},
   visibility : Visibilities, visible : SUBSET Rooms, read : Page]

\* Every variable has its type.
TypeOK ==
  /\ RequestsTypeOK
  /\ standing \in [People -> WorkspaceRoles \union {"none"}]
  /\ team \in [Projects -> [People -> ProjectRoles \union {"none"}]]
  /\ room \in [Rooms -> [project : Projects \union {Nobody}, visibility : Visibilities]]
  /\ crew \in [Rooms -> SUBSET People]
  /\ document \in [Documents -> [project : Projects \union {Nobody}, room : Rooms \union {Nobody},
                                 status : {"none", "active", "archived"}]]
  /\ query \in [Requests -> Query]
  /\ page \in [People -> Page]

\* Who is in a room is in its project, and a document lies in a room of its own
\* project, however checks and writes of several requests interleave.
RoomsStayInTheirProject ==
  /\ \A x \in Rooms : \A p \in crew[x] : room[x].project # Nobody /\ team[room[x].project][p] # "none"
  /\ \A d \in Documents :
       document[d].room # Nobody => room[document[d].room].project = document[d].project

\* An answered snapshot shows no room, and no document of a room, that the person is
\* not in, and it misses nothing that the person could see when it asked.  Unless
\* something was committed while it was read, it is closed: the rooms and documents it
\* shows belong to projects and rooms that it shows.
SnapshotIsExact ==
  \A p \in People :
    page[p].answer = "answered"
      => /\ \A x \in page[p].rooms : p \in crew[x]
         /\ \A d \in page[p].documents :
              document[d].room = Nobody \/ room[document[d].room].visibility = "workspace"
                \/ p \in crew[document[d].room]
         /\ page[p].due \subseteq page[p].projects \union page[p].rooms \union page[p].documents
         /\ \/ page[p].torn
            \/ /\ \A x \in page[p].rooms : room[x].project \in page[p].projects
               /\ \A d \in page[p].documents :
                    /\ document[d].project \in page[p].projects
                    /\ document[d].room \in page[p].rooms \union {Nobody}

\* docs/zh-CN/roadmap.md:31, "workspace-visible rooms still require project membership",
\* and no more: an active member is not refused the snapshot.
MembersLoadTheirSnapshot == \A p \in People : page[p].answer # "refused"
=============================================================================
