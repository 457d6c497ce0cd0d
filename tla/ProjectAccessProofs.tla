------------------------- MODULE ProjectAccessProofs -------------------------
(***************************************************************************)
(* Type correctness of the projects, and the proof that checks which lock    *)
(* nothing are still good when the write comes: what they looked at never    *)
(* goes away.  A membership of a project is never taken back, and a room or   *)
(* document never moves to another project.  So what is visible only grows,  *)
(* and the lists of a snapshot, read one after the other, fit each other.     *)
(***************************************************************************)
EXTENDS ProjectAccess, TLAPS

Teams == [Projects -> [People -> ProjectRoles \union {"none"}]]
RoomRows == [Rooms -> [project : Projects \union {Nobody}, visibility : Visibilities]]
DocumentRows ==
  [Documents -> [project : Projects \union {Nobody}, room : Rooms \union {Nobody},
                 status : {"none", "active", "archived"}]]

\* The arguments of a request.
WellFormed(q) ==
  /\ q.op # "none" => q.user \in People
  /\ q.op \in {"project_member", "room", "document"} => q.project \in Projects
  /\ q.op \in {"project_member", "room_member"} => q.who \in People
  /\ q.op = "project_member" => q.role \in ProjectRoles
  /\ q.op = "room_member" => q.room \in Rooms
  /\ q.op = "update" => q.document \in Documents
  /\ q.phase # "idle" => q.op # "none"

\* What a check has found, of the teams t and the rooms m.
Granted(q, t, m) ==
  q.phase = "allowed" =>
    /\ q.op = "room" => t[q.project][q.user] # "none"
    /\ q.op = "room_member" =>
         m[q.room].project # Nobody /\ t[m[q.room].project][q.who] # "none"
    /\ q.op = "document" /\ q.room # Nobody => m[q.room].project = q.project

\* Nobody leaves a project, and no room its project.
Grown(t, m, t2, m2) ==
  /\ \A j \in Projects, p \in People : t[j][p] # "none" => t2[j][p] # "none"
  /\ \A x \in Rooms : m[x].project # Nobody => m2[x] = m[x]

RoomsOfDocuments ==
  \A d \in Documents : document[d].room # Nobody => document[d].project # Nobody

Inv ==
  /\ TypeOK /\ RoomsOfDocuments /\ RoomsStayInTheirProject
  /\ \A r \in Requests : WellFormed(query[r]) /\ Granted(query[r], team, room)

LEMMA FreeIsTyped == Free \in Query /\ NoPage \in Page /\ Free.op = "none" /\ Free.phase = "idle"
BY DEF Free, Query, NoPage, Page, ProjectOps, WorkspaceRoles, ProjectRoles, Visibilities

LEMMA GrantsLast ==
  ASSUME NEW q \in Query, WellFormed(q), NEW t \in Teams, NEW m \in RoomRows,
         NEW t2 \in Teams, NEW m2 \in RoomRows, Grown(t, m, t2, m2), Granted(q, t, m)
  PROVE  Granted(q, t2, m2)
<1> USE DEF WellFormed, Granted, Grown
<1>1. CASE q.op = "room"
  BY <1>1 DEF Query
<1>2. CASE q.op = "room_member"
  BY <1>2 DEF Query, RoomRows
<1>3. CASE q.op = "document"
  <2>1. q.room # Nobody => q.room \in Rooms
    BY DEF Query
  <2>2. q.project # Nobody
    BY <1>3, ProjectAssumption
  <2> QED BY <1>3, <2>1, <2>2
<1> QED BY <1>1, <1>2, <1>3

LEMMA InvStart == Init => Inv
<1> SUFFICES ASSUME Init PROVE Inv
  OBVIOUS
<1> USE DEF Init
<1>1. RequestsTypeOK
  BY RequestsAssumption DEF RequestsInit, RequestsTypeOK
<1>2. /\ standing \in [People -> WorkspaceRoles \union {"none"}]
      /\ team \in [Projects -> [People -> ProjectRoles \union {"none"}]]
  BY DEF WorkspaceRoles, ProjectRoles
<1>3. /\ room \in [Rooms -> [project : Projects \union {Nobody}, visibility : Visibilities]]
      /\ crew \in [Rooms -> SUBSET People]
      /\ document \in [Documents -> [project : Projects \union {Nobody}, room : Rooms \union {Nobody},
                                     status : {"none", "active", "archived"}]]
  BY DEF NoRoom, NoDocument, Visibilities
<1>4. query \in [Requests -> Query] /\ page \in [People -> Page]
  BY FreeIsTyped
<1>5. RoomsOfDocuments /\ RoomsStayInTheirProject
  BY DEF RoomsOfDocuments, RoomsStayInTheirProject, NoDocument
<1>6. WellFormed(Free) /\ Granted(Free, team, room)
  BY FreeIsTyped DEF WellFormed, Granted
<1> QED
  BY <1>1, <1>2, <1>3, <1>4, <1>5, <1>6 DEF Inv, TypeOK

\* The tables stay, and one request and one page change.
LEMMA Aside ==
  ASSUME Inv, UNCHANGED <<team, room, crew, document>>, RequestsTypeOK',
         standing' \in [People -> WorkspaceRoles \union {"none"}], page' \in [People -> Page],
         NEW r \in Requests, NEW q \in Query, WellFormed(q), Granted(q, team, room),
         query' = [query EXCEPT ![r] = q] \/ query' = query
  PROVE  Inv'
<1>1. TypeOK'
  BY DEF Inv, TypeOK
<1>2. RoomsOfDocuments' /\ RoomsStayInTheirProject'
  BY DEF Inv, RoomsOfDocuments, RoomsStayInTheirProject
<1>3. \A s \in Requests : query'[s] = q \/ query'[s] = query[s]
  BY DEF Inv, TypeOK
<1>4. \A s \in Requests : WellFormed(query'[s]) /\ Granted(query'[s], team', room')
  BY <1>3 DEF Inv
<1> QED
  BY <1>1, <1>2, <1>4 DEF Inv

LEMMA BeginStep ==
  ASSUME Inv, NEW r \in Requests, NEW q \in Query, q.op # "none", q.phase = "idle",
         WellFormed(q), Begin(r, q)
  PROVE  Inv'
<1> DEFINE asked == [q EXCEPT !.phase = "asked", !.as = standing[q.user]]
<1>1. q.user \in People
  BY DEF WellFormed
<1>2. standing[q.user] \in WorkspaceRoles \union {"none"}
  BY <1>1 DEF Inv, TypeOK
<1>3. asked \in Query
  BY <1>2 DEF Query
<1>4. WellFormed(asked) /\ Granted(asked, team, room)
  BY DEF WellFormed, Granted, Query
<1>5. query' = [query EXCEPT ![r] = asked]
      /\ UNCHANGED <<standing, team, room, crew, document, page>>
  BY DEF Begin
<1>6. RequestsTypeOK'
  BY RequestsAssumption DEF Begin, Made, Inv, TypeOK, RequestsTypeOK
<1> HIDE DEF asked
<1> QED
  BY <1>3, <1>4, <1>5, <1>6, Aside DEF Inv, TypeOK

LEMMA AskStep == ASSUME Inv, NEW r \in Requests, Ask(r) PROVE Inv'
<1> PICK p \in People :
      LET q == [Free EXCEPT !.user = p]
      IN \/ Begin(r, [q EXCEPT !.op = "project"])
         \/ \E j \in {i \in Projects : ProjectExists(i)} :
              \/ \E w \in People, k \in ProjectRoles :
                   Begin(r, [q EXCEPT !.op = "project_member", !.project = j, !.who = w, !.role = k])
              \/ \E v \in Visibilities :
                   Begin(r, [q EXCEPT !.op = "room", !.project = j, !.visibility = v])
              \/ \E x \in ExistingRooms \union {Nobody} :
                   Begin(r, [q EXCEPT !.op = "document", !.project = j, !.room = x])
         \/ \E x \in ExistingRooms, w \in People :
              Begin(r, [q EXCEPT !.op = "room_member", !.room = x, !.who = w])
         \/ \E d \in {e \in Documents : document[e] # NoDocument} :
              Begin(r, [q EXCEPT !.op = "update", !.document = d])
  BY DEF Ask
<1> DEFINE q == [Free EXCEPT !.user = p]
<1>1. q \in Query /\ q.phase = "idle" /\ q.op = "none" /\ q.user = p
  BY FreeIsTyped DEF Query
<1> HIDE DEF q
<1> USE <1>1
<1>2. ASSUME Begin(r, [q EXCEPT !.op = "project"]) PROVE Inv'
  <2> DEFINE c == [q EXCEPT !.op = "project"]
  <2>1. c \in Query /\ c.op # "none" /\ c.phase = "idle" /\ WellFormed(c)
    BY DEF Query, ProjectOps, WellFormed
  <2> HIDE DEF c
  <2> QED BY <1>2, <2>1, BeginStep DEF c
<1>3. ASSUME NEW j \in Projects, NEW w \in People, NEW k \in ProjectRoles,
             Begin(r, [q EXCEPT !.op = "project_member", !.project = j, !.who = w, !.role = k])
      PROVE  Inv'
  <2> DEFINE c == [q EXCEPT !.op = "project_member", !.project = j, !.who = w, !.role = k]
  <2>1. c \in Query /\ c.op # "none" /\ c.phase = "idle" /\ WellFormed(c)
    BY DEF Query, ProjectOps, WellFormed
  <2> HIDE DEF c
  <2> QED BY <1>3, <2>1, BeginStep DEF c
<1>4. ASSUME NEW j \in Projects, NEW v \in Visibilities,
             Begin(r, [q EXCEPT !.op = "room", !.project = j, !.visibility = v])
      PROVE  Inv'
  <2> DEFINE c == [q EXCEPT !.op = "room", !.project = j, !.visibility = v]
  <2>1. c \in Query /\ c.op # "none" /\ c.phase = "idle" /\ WellFormed(c)
    BY DEF Query, ProjectOps, WellFormed
  <2> HIDE DEF c
  <2> QED BY <1>4, <2>1, BeginStep DEF c
<1>5. ASSUME NEW j \in Projects, NEW x \in ExistingRooms \union {Nobody},
             Begin(r, [q EXCEPT !.op = "document", !.project = j, !.room = x])
      PROVE  Inv'
  <2> DEFINE c == [q EXCEPT !.op = "document", !.project = j, !.room = x]
  <2>1. c \in Query /\ c.op # "none" /\ c.phase = "idle" /\ WellFormed(c)
    BY DEF Query, ProjectOps, WellFormed, ExistingRooms
  <2> HIDE DEF c
  <2> QED BY <1>5, <2>1, BeginStep DEF c
<1>6. ASSUME NEW x \in ExistingRooms, NEW w \in People,
             Begin(r, [q EXCEPT !.op = "room_member", !.room = x, !.who = w])
      PROVE  Inv'
  <2> DEFINE c == [q EXCEPT !.op = "room_member", !.room = x, !.who = w]
  <2>1. c \in Query /\ c.op # "none" /\ c.phase = "idle" /\ WellFormed(c)
    BY DEF Query, ProjectOps, WellFormed, ExistingRooms
  <2> HIDE DEF c
  <2> QED BY <1>6, <2>1, BeginStep DEF c
<1>7. ASSUME NEW d \in Documents, Begin(r, [q EXCEPT !.op = "update", !.document = d])
      PROVE  Inv'
  <2> DEFINE c == [q EXCEPT !.op = "update", !.document = d]
  <2>1. c \in Query /\ c.op # "none" /\ c.phase = "idle" /\ WellFormed(c)
    BY DEF Query, ProjectOps, WellFormed
  <2> HIDE DEF c
  <2> QED BY <1>7, <2>1, BeginStep DEF c
<1> QED BY <1>2, <1>3, <1>4, <1>5, <1>6, <1>7 DEF q

LEMMA SnapshotStart == ASSUME Inv, NEW r \in Requests, AskForSnapshot(r) PROVE Inv'
<1> DEFINE q(p) == [Free EXCEPT !.op = "snapshot", !.user = p, !.as = standing[p]]
<1> DEFINE c(p) == [q(p) EXCEPT !.read.due = ProjectsSeen(q(p)) \union RoomsSeen(q(p))
                                             \union DocumentsSeen(q(p), RoomsSeen(q(p)))]
<1>1. PICK p \in People : Begin(r, c(p))
  BY DEF AskForSnapshot
<1>2. standing[p] \in WorkspaceRoles \union {"none"}
  BY DEF Inv, TypeOK
<1>3. q(p) \in Query /\ q(p).op = "snapshot" /\ q(p).phase = "idle" /\ q(p).user = p
  BY <1>2, FreeIsTyped DEF Query, ProjectOps
<1> HIDE DEF q
<1>4. ProjectsSeen(q(p)) \union RoomsSeen(q(p)) \union DocumentsSeen(q(p), RoomsSeen(q(p)))
        \in SUBSET (Projects \union Rooms \union Documents)
  BY DEF ProjectsSeen, RoomsSeen, DocumentsSeen
<1>5. c(p) \in Query /\ c(p).op = "snapshot" /\ c(p).phase = "idle" /\ c(p).user = p
  BY <1>3, <1>4 DEF Query, Page
<1>6. WellFormed(c(p))
  BY <1>5 DEF WellFormed
<1> HIDE DEF c
<1> QED BY <1>1, <1>5, <1>6, BeginStep

LEMMA CheckStep == ASSUME Inv, NEW r \in Requests, Check(r) PROVE Inv'
<1> USE DEF Inv
<1>1. UNCHANGED <<standing, team, room, crew, document, page>> /\ RequestsTypeOK'
  BY DEF Check, TypeOK, requestVars, RequestsTypeOK
<1>2. WellFormed(Free) /\ Granted(Free, team, room)
  BY FreeIsTyped DEF WellFormed, Granted
<1>3. CASE query' = [query EXCEPT ![r] = Free]
  BY <1>1, <1>2, <1>3, FreeIsTyped, Aside DEF TypeOK
<1>4. ASSUME Allowed(query[r]), query[r].phase = "asked", query[r].op # "snapshot",
             query' = [query EXCEPT ![r].phase = "allowed"]
      PROVE  Inv'
  <2> DEFINE q == query[r]
             c == [q EXCEPT !.phase = "allowed"]
  <2>1. q \in Query /\ WellFormed(q)
    BY DEF TypeOK
  <2>2. /\ c \in Query /\ c.op = q.op /\ c.user = q.user /\ c.project = q.project
        /\ c.room = q.room /\ c.who = q.who /\ c.role = q.role /\ c.document = q.document
    BY <2>1 DEF Query
  <2>3. query' = [query EXCEPT ![r] = c]
    BY <1>4
  <2> HIDE DEF c
  <2>4. WellFormed(c)
    BY <1>4, <2>1, <2>2 DEF WellFormed
  <2>5. ASSUME q.op = "room" PROVE team[q.project][q.user] # "none"
    BY <1>4, <2>5 DEF Allowed, MayWrite
  <2>6. ASSUME q.op = "room_member"
        PROVE  room[q.room].project # Nobody /\ team[room[q.room].project][q.who] # "none"
    BY <1>4, <2>6 DEF Allowed, MayAddToRoom, MayManage
  <2>7. ASSUME q.op = "document", q.room # Nobody PROVE room[q.room].project = q.project
    BY <1>4, <2>7 DEF Allowed, MayCreateDocument
  <2>8. Granted(c, team, room)
    BY <2>2, <2>5, <2>6, <2>7 DEF Granted
  <2> QED BY <1>1, <2>2, <2>3, <2>4, <2>8, Aside DEF TypeOK
<1> QED
  BY <1>3, <1>4 DEF Check, End

\* A commit: the tables grow, the request is done, and snapshots may be torn.
LEMMA CommitStep ==
  ASSUME Inv, NEW r \in Requests, Commit(r),
         team' \in Teams, room' \in RoomRows, crew' \in [Rooms -> SUBSET People],
         document' \in DocumentRows, Grown(team, room, team', room'),
         RoomsOfDocuments', RoomsStayInTheirProject'
  PROVE  Inv'
<1> USE DEF Inv
<1>1. RequestsTypeOK' /\ UNCHANGED <<standing, page>>
  BY DEF Commit, TypeOK, requestVars, RequestsTypeOK
<1>2. ASSUME NEW s \in Requests
      PROVE  /\ query'[s] \in Query /\ WellFormed(query'[s])
             /\ Granted(query'[s], team', room')
  <2>1. CASE s = r
    <3>1. query'[s] = Free
      BY <2>1 DEF Commit
    <3> QED BY <3>1, FreeIsTyped DEF WellFormed, Granted
  <2>2. CASE s # r
    <3> DEFINE q == query[s]
               read == [q.read EXCEPT !.torn = (q.op = "snapshot")]
               c == [q EXCEPT !.read = read]
    <3>1. query'[s] = c
      BY <2>2 DEF Commit
    <3>2. q \in Query /\ WellFormed(q) /\ Granted(q, team, room)
      BY DEF TypeOK
    <3>3. q.read \in Page /\ (q.op = "snapshot") \in BOOLEAN
      BY <3>2 DEF Query
    <3>4. read \in Page
      BY <3>3 DEF Page
    <3> HIDE DEF read
    <3>5. /\ c \in Query /\ c.op = q.op /\ c.user = q.user /\ c.project = q.project
          /\ c.room = q.room /\ c.who = q.who /\ c.role = q.role /\ c.document = q.document
          /\ c.phase = q.phase
      BY <3>2, <3>4 DEF Query
    <3> HIDE DEF c
    <3>6. Granted(q, team', room')
      BY <3>2, GrantsLast DEF TypeOK, Teams, RoomRows
    <3> QED BY <3>1, <3>2, <3>5, <3>6 DEF WellFormed, Granted
  <2> QED BY <2>1, <2>2
<1>3. query' \in [Requests -> Query]
  BY <1>2 DEF Commit
<1>4. TypeOK'
  BY <1>1, <1>3 DEF TypeOK, Teams, RoomRows, DocumentRows
<1> QED BY <1>2, <1>4

LEMMA CreateProjectStep == ASSUME Inv, NEW r \in Requests, CreateProject(r) PROVE Inv'
<1> USE DEF Inv
<1>1. PICK j \in Projects : team' = [team EXCEPT ![j][query[r].user] = "lead"]
  BY DEF CreateProject
<1>2. Commit(r) /\ UNCHANGED <<room, crew, document>>
  BY DEF CreateProject
<1>3. team' \in Teams /\ Grown(team, room, team', room')
  BY <1>1, <1>2 DEF TypeOK, Teams, Grown, ProjectRoles
<1>4. RoomsStayInTheirProject' /\ RoomsOfDocuments'
  BY <1>2, <1>3 DEF TypeOK, Grown, RoomsStayInTheirProject, RoomsOfDocuments
<1> QED BY <1>2, <1>3, <1>4, CommitStep DEF TypeOK, RoomRows, DocumentRows

LEMMA AddProjectMemberStep == ASSUME Inv, NEW r \in Requests, AddProjectMember(r) PROVE Inv'
<1> USE DEF Inv
<1>1. query[r].role \in ProjectRoles
  BY DEF WellFormed, AddProjectMember, Due
<1>2. /\ team' = [team EXCEPT ![query[r].project][query[r].who] = query[r].role]
      /\ Commit(r) /\ UNCHANGED <<room, crew, document>>
  BY DEF AddProjectMember
<1>3. team' \in Teams /\ Grown(team, room, team', room')
  BY <1>1, <1>2 DEF TypeOK, Teams, Grown, ProjectRoles
<1>4. RoomsStayInTheirProject' /\ RoomsOfDocuments'
  BY <1>2, <1>3 DEF TypeOK, Grown, RoomsStayInTheirProject, RoomsOfDocuments
<1> QED BY <1>2, <1>3, <1>4, CommitStep DEF TypeOK, RoomRows, DocumentRows

LEMMA CreateRoomStep == ASSUME Inv, NEW r \in Requests, CreateRoom(r) PROVE Inv'
<1> USE DEF Inv
<1> DEFINE q == query[r]
           new == [project |-> q.project, visibility |-> q.visibility]
<1>1. /\ q \in Query /\ q.user \in People /\ q.project \in Projects
      /\ team[q.project][q.user] # "none"
  BY DEF TypeOK, WellFormed, Granted, CreateRoom, Due
<1>2. PICK x \in Rooms :
        /\ room[x] = NoRoom /\ room' = [room EXCEPT ![x] = new]
        /\ crew' = [crew EXCEPT ![x] = {q.user}]
  BY DEF CreateRoom
<1>3. Commit(r) /\ UNCHANGED <<team, document>>
  BY DEF CreateRoom
<1>4. /\ new \in [project : Projects \union {Nobody}, visibility : Visibilities]
      /\ new.project = q.project
  BY <1>1 DEF Query
<1> HIDE DEF new, q
<1>5. /\ room' \in RoomRows /\ crew' \in [Rooms -> SUBSET People]
      /\ \A y \in Rooms : y # x => room'[y] = room[y] /\ crew'[y] = crew[y]
      /\ room'[x] = new /\ crew'[x] = {q.user}
  BY <1>1, <1>2, <1>4 DEF TypeOK, RoomRows
<1>6. room[x].project = Nobody /\ q.project # Nobody
  BY <1>1, <1>2, ProjectAssumption DEF NoRoom
<1>7. Grown(team, room, team', room')
  BY <1>3, <1>5, <1>6 DEF Grown
<1>8. RoomsOfDocuments'
  BY <1>3 DEF RoomsOfDocuments
<1>9. RoomsStayInTheirProject'
  <2>1. ASSUME NEW y \in Rooms, NEW p \in crew'[y]
        PROVE  room'[y].project # Nobody /\ team'[room'[y].project][p] # "none"
    BY <1>1, <1>3, <1>4, <1>5, <1>6, <2>1 DEF RoomsStayInTheirProject
  <2>2. ASSUME NEW d \in Documents, document'[d].room # Nobody
        PROVE  room'[document'[d].room].project = document'[d].project
    <3>1. document'[d] = document[d] /\ document[d].room \in Rooms
      BY <1>3, <2>2 DEF TypeOK
    <3>2. room[document[d].room].project = document[d].project /\ document[d].project # Nobody
      BY <2>2, <3>1 DEF RoomsStayInTheirProject, RoomsOfDocuments
    <3> QED BY <1>5, <1>6, <3>1, <3>2
  <2> QED BY <2>1, <2>2 DEF RoomsStayInTheirProject
<1> QED BY <1>3, <1>5, <1>7, <1>8, <1>9, CommitStep DEF TypeOK, Teams, DocumentRows

LEMMA AddRoomMemberStep == ASSUME Inv, NEW r \in Requests, AddRoomMember(r) PROVE Inv'
<1> USE DEF Inv
<1> DEFINE q == query[r]
<1>1. /\ q.who \in People /\ q.room \in Rooms
      /\ room[q.room].project # Nobody /\ team[room[q.room].project][q.who] # "none"
  BY DEF TypeOK, WellFormed, Granted, AddRoomMember, Due
<1>2. /\ crew' = [crew EXCEPT ![q.room] = crew[q.room] \union {q.who}]
      /\ Commit(r) /\ UNCHANGED <<team, room, document>>
  BY DEF AddRoomMember
<1>3. /\ crew' \in [Rooms -> SUBSET People]
      /\ \A x \in Rooms : \A p \in crew'[x] : p \in crew[x] \/ (x = q.room /\ p = q.who)
  BY <1>1, <1>2 DEF TypeOK
<1>4. Grown(team, room, team', room')
  BY <1>2 DEF Grown
<1>5. RoomsStayInTheirProject' /\ RoomsOfDocuments'
  BY <1>1, <1>2, <1>3 DEF RoomsStayInTheirProject, RoomsOfDocuments
<1> QED BY <1>2, <1>3, <1>4, <1>5, CommitStep DEF TypeOK, Teams, RoomRows, DocumentRows

LEMMA CreateDocumentStep == ASSUME Inv, NEW r \in Requests, CreateDocument(r) PROVE Inv'
<1> USE DEF Inv
<1> DEFINE q == query[r]
           new == [project |-> q.project, room |-> q.room, status |-> "active"]
<1>1. /\ q \in Query /\ q.project \in Projects
      /\ q.room # Nobody => room[q.room].project = q.project
  BY DEF TypeOK, WellFormed, Granted, CreateDocument, Due
<1>2. PICK d \in Documents : document' = [document EXCEPT ![d] = new]
  BY DEF CreateDocument
<1>3. Commit(r) /\ UNCHANGED <<team, room, crew>>
  BY DEF CreateDocument
<1>4. /\ new \in [project : Projects \union {Nobody}, room : Rooms \union {Nobody},
                  status : {"none", "active", "archived"}]
      /\ new.project = q.project /\ new.room = q.room
  BY <1>1 DEF Query
<1> HIDE DEF new, q
<1>5. /\ document' \in DocumentRows
      /\ \A e \in Documents : document'[e] = IF e = d THEN new ELSE document[e]
  BY <1>2, <1>4 DEF TypeOK, DocumentRows
<1>6. Grown(team, room, team', room')
  BY <1>3 DEF Grown
<1>7. RoomsOfDocuments'
  BY <1>1, <1>4, <1>5, ProjectAssumption DEF RoomsOfDocuments
<1>8. RoomsStayInTheirProject'
  BY <1>1, <1>3, <1>4, <1>5 DEF RoomsStayInTheirProject
<1> QED BY <1>3, <1>5, <1>6, <1>7, <1>8, CommitStep DEF TypeOK, Teams, RoomRows

LEMMA UpdateDocumentStep == ASSUME Inv, NEW r \in Requests, UpdateDocument(r) PROVE Inv'
<1> USE DEF Inv
<1> DEFINE o == query[r].document
<1>1. PICK s \in {"active", "archived"} :
        document' = [document EXCEPT ![o] = [document[o] EXCEPT !.status = s]]
  BY DEF UpdateDocument
<1>2. Commit(r) /\ UNCHANGED <<team, room, crew>> /\ o \in Documents
  BY DEF UpdateDocument, Due, WellFormed
<1> HIDE DEF o
<1>3. document' \in DocumentRows
  BY <1>1, <1>2 DEF TypeOK, DocumentRows
<1>4. \A d \in Documents : /\ document'[d].room = document[d].room
                           /\ document'[d].project = document[d].project
  BY <1>1, <1>2 DEF TypeOK
<1>5. Grown(team, room, team', room')
  BY <1>2 DEF Grown
<1>6. RoomsStayInTheirProject' /\ RoomsOfDocuments'
  BY <1>2, <1>4 DEF RoomsStayInTheirProject, RoomsOfDocuments
<1> QED BY <1>2, <1>3, <1>5, <1>6, CommitStep DEF TypeOK, Teams, RoomRows

\* Every list of a snapshot, and its answer, is within its type.
LEMMA SnapshotStep ==
  ASSUME Inv, NEW r \in Requests,
         \/ ReadProjects(r) \/ ReadRooms(r) \/ ReadVisibleRooms(r)
         \/ ReadDocuments(r) \/ ReadMessages(r)
  PROVE  Inv'
<1> USE DEF Inv
<1> DEFINE q == query[r]
<1>1. q \in Query /\ WellFormed(q) /\ q.user \in (People \union {Nobody}) /\ q.read \in Page
  BY DEF TypeOK, Query
<1>2. /\ q.op = "snapshot" /\ UNCHANGED <<standing, team, room, crew, document>>
      /\ RequestsTypeOK'
  BY DEF ReadProjects, ReadRooms, ReadVisibleRooms, ReadDocuments, ReadMessages, Read, TypeOK,
         requestVars, RequestsTypeOK
<1> HIDE DEF q
<1>3. ASSUME NEW what \in Page, Answer(r, what) PROVE Inv'
  <2>1. page' \in [People -> Page]
    BY <1>3 DEF Answer, TypeOK
  <2>2. query' = [query EXCEPT ![r] = Free] /\ WellFormed(Free) /\ Granted(Free, team, room)
    BY <1>3, FreeIsTyped DEF Answer, End, WellFormed, Granted
  <2> QED BY <1>2, <2>1, <2>2, FreeIsTyped, Aside DEF TypeOK
<1>4. ASSUME NEW phase \in {"rooms", "visible", "documents", "messages"}, NEW read \in Page,
             query' = [query EXCEPT ![r] = [query[r] EXCEPT !.phase = phase, !.read = read]],
             UNCHANGED page
      PROVE  Inv'
  <2> DEFINE c == [q EXCEPT !.phase = phase, !.read = read]
  <2>1. query' = [query EXCEPT ![r] = c]
    BY <1>4 DEF q
  <2>2. c \in Query /\ c.phase = phase /\ c.op = q.op /\ c.user = q.user
    <3> DEFINE c1 == [q EXCEPT !.phase = phase]
    <3>1. c1 \in Query /\ c1.phase = phase /\ c1.op = q.op /\ c1.user = q.user
      BY <1>1 DEF Query
    <3>2. c = [c1 EXCEPT !.read = read]
      OBVIOUS
    <3> HIDE DEF c, c1
    <3> QED BY <3>1, <3>2 DEF Query
  <2> HIDE DEF c
  <2>3. WellFormed(c) /\ Granted(c, team, room)
    BY <1>1, <1>2, <2>2 DEF WellFormed, Granted
  <2> QED BY <1>2, <1>4, <2>1, <2>2, <2>3, Aside DEF TypeOK
<1>5. [NoPage EXCEPT !.answer = "suspended"] \in Page /\ [NoPage EXCEPT !.answer = "refused"] \in Page
  BY DEF NoPage, Page
<1>6. ASSUME NEW next \in {"rooms", "visible", "documents", "messages"}, NEW read \in Page,
             NEW phase, Read(r, phase, next, read)
      PROVE  Inv'
  BY <1>3, <1>4, <1>5, <1>6 DEF Read
<1>7. CASE ReadProjects(r)
  <2>1. [q.read EXCEPT !.projects = ProjectsSeen(q)] \in Page
    BY <1>1 DEF ProjectsSeen, Page
  <2> QED BY <1>6, <1>7, <2>1 DEF ReadProjects, q
<1>8. CASE ReadRooms(r)
  <2>1. [q.read EXCEPT !.rooms = RoomsSeen(q)] \in Page
    BY <1>1 DEF RoomsSeen, Page
  <2> QED BY <1>6, <1>8, <2>1 DEF ReadRooms, q
<1>9. CASE ReadDocuments(r)
  <2>1. [q.read EXCEPT !.documents = DocumentsSeen(q, q.visible)] \in Page
    BY <1>1 DEF DocumentsSeen, Page
  <2> QED BY <1>6, <1>9, <2>1 DEF ReadDocuments, q
<1>10. CASE ReadVisibleRooms(r)
  <2> DEFINE c == [q EXCEPT !.phase = "documents", !.visible = RoomsSeen(q)]
  <2>1. RoomsSeen(q) \in SUBSET Rooms
    BY DEF RoomsSeen
  <2>2. c \in Query /\ c.op = q.op /\ c.phase = "documents" /\ c.user = q.user
    <3> DEFINE c1 == [q EXCEPT !.phase = "documents"]
    <3>1. c1 \in Query /\ c1.phase = "documents" /\ c1.op = q.op /\ c1.user = q.user
      BY <1>1 DEF Query
    <3>2. c = [c1 EXCEPT !.visible = RoomsSeen(q)]
      OBVIOUS
    <3> HIDE DEF c, c1
    <3> QED BY <2>1, <3>1, <3>2 DEF Query
  <2>3. CASE standing[q.user] = "none"
    BY <1>3, <1>5, <1>10, <2>3 DEF ReadVisibleRooms, q
  <2>4. CASE standing[q.user] # "none"
    <3>1. query' = [query EXCEPT ![r] = [query[r] EXCEPT !.phase = "documents", !.visible = RoomsSeen(q)]]
          /\ UNCHANGED page
      BY <1>10, <2>4 DEF ReadVisibleRooms, q
    <3>2. query' = [query EXCEPT ![r] = c]
      BY <3>1 DEF q
    <3> HIDE DEF c
    <3>3. WellFormed(c) /\ Granted(c, team, room)
      BY <1>1, <1>2, <2>2 DEF WellFormed, Granted
    <3> QED BY <1>2, <2>2, <3>1, <3>2, <3>3, Aside DEF TypeOK
  <2> QED BY <2>3, <2>4
<1>11. CASE ReadMessages(r)
  <2> DEFINE c1 == [q.read EXCEPT !.messages = q.read.rooms]
             c == [c1 EXCEPT !.answer = "answered"]
  <2>1. c1 \in Page
    BY <1>1 DEF Page
  <2>2. c \in Page
    <3> HIDE DEF c1
    <3> QED BY <2>1 DEF Page
  <2>3. CASE \A x \in q.read.rooms : q.user \in crew[x]
    <3>1. Answer(r, c)
      BY <1>11, <2>3 DEF ReadMessages, q
    <3> HIDE DEF c
    <3> QED BY <1>3, <2>2, <3>1
  <2>4. CASE ~ \A x \in q.read.rooms : q.user \in crew[x]
    BY <1>3, <1>5, <1>11, <2>4 DEF ReadMessages, q
  <2> QED BY <2>3, <2>4
<1> QED
  BY <1>7, <1>8, <1>9, <1>10, <1>11

LEMMA StandingStep == ASSUME Inv, NEW p \in People, ChangeStanding(p) PROVE Inv'
<1>1. standing' \in [People -> WorkspaceRoles \union {"none"}]
  BY DEF ChangeStanding, Inv, TypeOK
<1>2. UNCHANGED <<team, room, crew, document, query, page>> /\ RequestsTypeOK'
  BY DEF ChangeStanding, Inv, TypeOK, requestVars, RequestsTypeOK
<1> QED
  BY <1>1, <1>2 DEF Inv, TypeOK, RoomsOfDocuments, RoomsStayInTheirProject

LEMMA InvStep == Inv /\ [Next]_vars => Inv'
<1> SUFFICES ASSUME Inv, [Next]_vars PROVE Inv'
  OBVIOUS
<1>1. ASSUME NEW r \in Requests, Proceed(r) PROVE Inv'
  BY <1>1, CheckStep, CreateProjectStep, AddProjectMemberStep, CreateRoomStep, AddRoomMemberStep,
     CreateDocumentStep, UpdateDocumentStep, SnapshotStep
  DEF Proceed
<1>2. CASE UNCHANGED vars
  BY <1>2
  DEF vars, requestVars, projectVars, Inv, TypeOK, RequestsTypeOK, RoomsOfDocuments,
      RoomsStayInTheirProject
<1> QED
  BY <1>1, <1>2, AskStep, SnapshotStart, StandingStep DEF Next

\* Every variable has its type, for any number of people, rows and requests.
THEOREM TypeCorrect == Spec => []TypeOK
<1>1. Inv => TypeOK
  BY DEF Inv
<1> QED
  BY <1>1, InvStart, InvStep, PTL DEF Spec

\* Whoever is in a room is in its project, and a document lies in a room of its own
\* project, although the checks of collaboration-repository.ts lock nothing.
THEOREM RoomsAndDocumentsStay == Spec => []RoomsStayInTheirProject
<1>1. Inv => RoomsStayInTheirProject
  BY DEF Inv
<1> QED
  BY <1>1, InvStart, InvStep, PTL DEF Spec

---------------------------------------------------------------------------
(* The snapshot.  A list that is still to be read stands for what it would   *)
(* give now, so that reading it changes nothing.                             *)

ProjectsOf(q) == IF q.phase = "asked" THEN ProjectsSeen(q) ELSE q.read.projects
RoomsOf(q) == IF q.phase \in {"asked", "rooms"} THEN RoomsSeen(q) ELSE q.read.rooms
VisibleTo(q) == IF q.phase \in {"asked", "rooms", "visible"} THEN RoomsSeen(q) ELSE q.visible
DocumentsOf(q) ==
  IF q.phase = "messages" THEN q.read.documents ELSE DocumentsSeen(q, VisibleTo(q))

\* A snapshot holds what is due and nothing that cannot be seen; untorn, it is what is seen.
Gathered(q) ==
  q.op = "snapshot" =>
    /\ q.read.due \subseteq ProjectsOf(q) \union RoomsOf(q) \union DocumentsOf(q)
    /\ VisibleTo(q) \subseteq RoomsSeen(q)
    /\ DocumentsOf(q) \subseteq DocumentsSeen(q, VisibleTo(q))
    /\ \/ q.read.torn
       \/ /\ ProjectsOf(q) = ProjectsSeen(q)
          /\ RoomsOf(q) = RoomsSeen(q)
          /\ VisibleTo(q) = RoomsSeen(q)

\* SnapshotIsExact for one person; what is shown has been created.
Exact(p, w) ==
  w.answer = "answered"
    => /\ \A x \in w.rooms : p \in crew[x]
       /\ \A d \in w.documents :
            /\ document[d].project # Nobody
            /\ \/ document[d].room = Nobody \/ room[document[d].room].visibility = "workspace"
               \/ p \in crew[document[d].room]
       /\ w.due \subseteq w.projects \union w.rooms \union w.documents
       /\ \/ w.torn
          \/ /\ \A x \in w.rooms : room[x].project \in w.projects
             /\ \A d \in w.documents :
                  /\ document[d].project \in w.projects
                  /\ document[d].room \in w.rooms \union {Nobody}

SnapshotInv ==
  /\ \A r \in Requests : Gathered(query[r])
  /\ \A p \in People : Exact(p, page[p])

\* Rows and memberships only come.
Growing ==
  /\ Grown(team, room, team', room')
  /\ \A x \in Rooms : crew[x] \subseteq crew'[x]
  /\ \A d \in Documents :
       document[d].project # Nobody
         => /\ document'[d].project = document[d].project
            /\ document'[d].room = document[d].room

LEMMA SeenGrows ==
  ASSUME Inv, Inv', Growing, NEW q \in Query, q.user \in People
  PROVE  /\ ProjectsSeen(q) \subseteq ProjectsSeen(q)'
         /\ RoomsSeen(q) \subseteq RoomsSeen(q)'
         /\ \A v, v2 \in SUBSET Rooms : v \subseteq v2 => DocumentsSeen(q, v) \subseteq DocumentsSeen(q, v2)'
<1>1. ProjectsSeen(q) \subseteq ProjectsSeen(q)'
  BY DEF ProjectsSeen, ProjectExists, Manager, Growing, Grown
<1>2. RoomsSeen(q) \subseteq RoomsSeen(q)'
  <2> SUFFICES ASSUME NEW x \in RoomsSeen(q) PROVE x \in RoomsSeen(q)'
    OBVIOUS
  <2>1. x \in Rooms /\ room[x].project \in ProjectsSeen(q)
        /\ (room[x].visibility = "workspace" \/ q.user \in crew[x])
    BY DEF RoomsSeen
  <2>2. room[x].project # Nobody
    BY <2>1, ProjectAssumption DEF ProjectsSeen
  <2>3. room'[x] = room[x] /\ crew[x] \subseteq crew'[x]
    BY <2>1, <2>2 DEF Growing, Grown
  <2> QED BY <1>1, <2>1, <2>3 DEF RoomsSeen
<1>3. ASSUME NEW v \in SUBSET Rooms, NEW v2 \in SUBSET Rooms, v \subseteq v2,
             NEW d \in DocumentsSeen(q, v)
      PROVE  d \in DocumentsSeen(q, v2)'
  <2>1. d \in Documents /\ document[d].project \in ProjectsSeen(q)
        /\ document[d].room \in v \union {Nobody}
    BY DEF DocumentsSeen
  <2>2. document[d].project # Nobody
    BY <2>1, ProjectAssumption DEF ProjectsSeen
  <2> QED BY <1>1, <1>3, <2>1, <2>2 DEF DocumentsSeen, Growing
<1> QED BY <1>1, <1>2, <1>3

\* A commit tears a snapshot, which keeps what is due.
LEMMA TornStays ==
  ASSUME Inv, Inv', Growing, NEW q \in Query, WellFormed(q), Gathered(q),
         NEW c \in Query, q.op = "snapshot",
         c.op = q.op, c.phase = q.phase, c.user = q.user, c.as = q.as, c.visible = q.visible,
         c.read.projects = q.read.projects, c.read.rooms = q.read.rooms,
         c.read.documents = q.read.documents, c.read.due = q.read.due, c.read.torn
  PROVE  Gathered(c)'
<1>1. q.user \in People
  BY DEF WellFormed
<1>2. /\ ProjectsSeen(c)' = ProjectsSeen(q)' /\ RoomsSeen(c)' = RoomsSeen(q)'
  BY DEF ProjectsSeen, RoomsSeen, Manager
<1>3. VisibleTo(q) \in SUBSET Rooms
  BY DEF VisibleTo, RoomsSeen, Query
<1>4. VisibleTo(c)' \in SUBSET Rooms
  BY DEF VisibleTo, RoomsSeen, Query
<1>5. PICK v \in SUBSET Rooms : v = VisibleTo(c)'
  BY <1>4
<1>6. DocumentsSeen(c, VisibleTo(c))' = DocumentsSeen(q, v)'
  BY <1>2, <1>5 DEF DocumentsSeen
<1>7. /\ ProjectsOf(q) \subseteq ProjectsOf(c)' /\ RoomsOf(q) \subseteq RoomsOf(c)'
       /\ VisibleTo(q) \subseteq v
  BY <1>1, <1>2, <1>5, SeenGrows DEF ProjectsOf, RoomsOf, VisibleTo
<1>8. DocumentsSeen(q, VisibleTo(q)) \subseteq DocumentsSeen(c, VisibleTo(c))'
  BY <1>1, <1>3, <1>6, <1>7, SeenGrows
<1>9. DocumentsOf(c)' = IF q.phase = "messages" THEN q.read.documents
                         ELSE DocumentsSeen(c, VisibleTo(c))'
  BY DEF DocumentsOf
<1>10. DocumentsOf(q) \subseteq DocumentsOf(c)'
  BY <1>8, <1>9 DEF DocumentsOf
<1>11. VisibleTo(c)' \subseteq RoomsSeen(c)'
  BY <1>1, <1>2, SeenGrows DEF VisibleTo, Gathered
<1>12. DocumentsOf(c)' \subseteq DocumentsSeen(c, VisibleTo(c))'
  BY <1>8, <1>9 DEF DocumentsOf, Gathered
<1>13. q.read.due \subseteq ProjectsOf(q) \union RoomsOf(q) \union DocumentsOf(q)
  BY DEF Gathered
<1> QED BY <1>7, <1>10, <1>11, <1>12, <1>13 DEF Gathered

LEMMA ExactStays ==
  ASSUME Inv, Inv', Growing, NEW p \in People, NEW w \in Page, Exact(p, w)
  PROVE  Exact(p, w)'
<1> SUFFICES ASSUME w.answer = "answered" PROVE Exact(p, w)'
  BY DEF Exact
<1>1. w.rooms \in SUBSET Rooms /\ w.documents \in SUBSET Documents
  BY DEF Page
<1>2. ASSUME NEW x \in w.rooms PROVE p \in crew'[x] /\ room'[x] = room[x]
  <2>1. x \in Rooms /\ p \in crew[x]
    BY <1>1 DEF Exact
  <2> QED BY <2>1 DEF Inv, RoomsStayInTheirProject, Growing, Grown
<1>3. ASSUME NEW d \in w.documents
      PROVE  /\ document'[d].project = document[d].project
             /\ document'[d].room = document[d].room
             /\ document[d].project # Nobody
             /\ document[d].room # Nobody
                  => /\ room'[document[d].room] = room[document[d].room]
                     /\ crew[document[d].room] \subseteq crew'[document[d].room]
  <2>1. d \in Documents /\ document[d].project # Nobody
    BY <1>1 DEF Exact
  <2>2. document[d].room # Nobody => document[d].room \in Rooms
    BY <2>1 DEF Inv, TypeOK
  <2>3. document[d].room # Nobody => room[document[d].room].project # Nobody
    BY <2>1 DEF Inv, RoomsStayInTheirProject
  <2> QED BY <2>1, <2>2, <2>3 DEF Growing, Grown
<1> QED BY <1>2, <1>3 DEF Exact

LEMMA SameRequest ==
  ASSUME NEW q, NEW s, query'[s] = q, Gathered(q)'
  PROVE  Gathered(query[s])'
BY DEF Gathered, ProjectsOf, RoomsOf, VisibleTo, DocumentsOf, ProjectsSeen, RoomsSeen,
       DocumentsSeen, Manager

\* A step that leaves the tables alone keeps what was read and what was shown.
LEMMA QuietStep ==
  ASSUME Inv, SnapshotInv, UNCHANGED <<team, room, crew, document>>, NEW r \in Requests,
         NEW c \in Query, Gathered(c), query' = [query EXCEPT ![r] = c] \/ query' = query,
         \A p \in People : page'[p] = page[p] \/ Exact(p, page'[p])
  PROVE  SnapshotInv'
<1>1. ASSUME NEW q \in Query, Gathered(q) PROVE Gathered(q)'
  <2>1. ProjectsSeen(q)' = ProjectsSeen(q)
    BY DEF ProjectsSeen, ProjectExists, Manager
  <2>2. RoomsSeen(q)' = RoomsSeen(q)
    BY <2>1 DEF RoomsSeen
  <2>3. /\ ProjectsOf(q)' = ProjectsOf(q) /\ RoomsOf(q)' = RoomsOf(q)
        /\ VisibleTo(q)' = VisibleTo(q)
    BY <2>1, <2>2 DEF ProjectsOf, RoomsOf, VisibleTo
  <2>4. DocumentsSeen(q, VisibleTo(q))' = DocumentsSeen(q, VisibleTo(q))
    BY <2>1, <2>3 DEF DocumentsSeen
  <2>5. DocumentsOf(q)' = DocumentsOf(q)
    BY <2>4 DEF DocumentsOf
  <2> QED BY <1>1, <2>1, <2>2, <2>3, <2>4, <2>5 DEF Gathered
<1>2. \A s \in Requests : query'[s] = c \/ query'[s] = query[s]
  BY DEF Inv, TypeOK
<1>3. ASSUME NEW s \in Requests PROVE Gathered(query[s])'
  <2>1. PICK q \in Query : q = query'[s] /\ Gathered(q)
    BY <1>2 DEF SnapshotInv, Inv, TypeOK
  <2>2. Gathered(q)'
    BY <1>1, <2>1
  <2>3. query'[s] = q
    BY <2>1
  <2> QED BY <2>2, <2>3, SameRequest
<1>4. ASSUME NEW p \in People PROVE Exact(p, page[p])'
  BY DEF SnapshotInv, Exact
<1> QED BY <1>3, <1>4 DEF SnapshotInv

LEMMA TornCommit ==
  ASSUME Inv, Inv', SnapshotInv, NEW r \in Requests, Commit(r), Growing
  PROVE  SnapshotInv'
<1>1. ASSUME NEW s \in Requests PROVE Gathered(query[s])'
  <2>1. CASE s = r
    BY <2>1, FreeIsTyped DEF Commit, Gathered
  <2>2. CASE s # r
    <3> DEFINE q == query[s]
               t == q.op = "snapshot"
               w == [q.read EXCEPT !.torn = t]
               c == [q EXCEPT !.read = w]
    <3>1. q \in Query /\ WellFormed(q) /\ Gathered(q)
      BY DEF Inv, TypeOK, SnapshotInv
    <3>2. query'[s] = c
      BY <2>2 DEF Commit
    <3>3. t \in BOOLEAN
      OBVIOUS
    <3>4. q.read \in Page
      BY <3>1 DEF Query
    <3>5. /\ w \in Page /\ w.projects = q.read.projects /\ w.rooms = q.read.rooms
          /\ w.documents = q.read.documents /\ w.due = q.read.due /\ w.torn = t
      <4> HIDE DEF t
      <4> QED BY <3>3, <3>4 DEF Page
    <3> HIDE DEF w
    <3>6. /\ c \in Query /\ c.op = q.op /\ c.phase = q.phase /\ c.user = q.user /\ c.as = q.as
          /\ c.visible = q.visible /\ c.read = w
      BY <3>1, <3>5 DEF Query
    <3> HIDE DEF c
    <3>7. PICK k \in Query : k = c
      BY <3>6
    <3>8. PICK o \in Query : o = q
      BY <3>1
    <3>9. CASE q.op = "snapshot"
      <4>1. Gathered(o)
        BY <3>1, <3>8
      <4>2. Gathered(k)'
        <5> HIDE DEF q
        <5> QED BY <3>1, <3>5, <3>6, <3>7, <3>8, <3>9, <4>1, TornStays DEF t
      <4> QED BY <3>2, <3>7, <4>2, SameRequest
    <3>10. CASE q.op # "snapshot"
      BY <3>2, <3>6, <3>10 DEF Gathered
    <3> QED BY <3>9, <3>10
  <2> QED BY <2>1, <2>2
<1>2. ASSUME NEW p \in People PROVE Exact(p, page[p])'
  <2>1. PICK w \in Page : w = page[p]
    BY DEF Inv, TypeOK
  <2>2. Exact(p, w)'
    BY <2>1, ExactStays DEF SnapshotInv
  <2>3. page'[p] = w
    BY <2>1 DEF Commit
  <2> QED BY <2>2, <2>3 DEF Exact
<1> QED BY <1>1, <1>2 DEF SnapshotInv

LEMMA WritesGrow ==
  ASSUME Inv, NEW r \in Requests,
         \/ CreateProject(r) \/ AddProjectMember(r) \/ CreateRoom(r) \/ AddRoomMember(r)
         \/ CreateDocument(r) \/ UpdateDocument(r)
  PROVE  Growing /\ Commit(r)
<1> USE DEF Inv, Growing, Grown
<1>1. CASE CreateProject(r)
  BY <1>1 DEF CreateProject, TypeOK
<1>2. CASE AddProjectMember(r)
  <2>1. query[r].role \in ProjectRoles
    BY <1>2 DEF WellFormed, AddProjectMember, Due
  <2> QED BY <1>2, <2>1 DEF AddProjectMember, TypeOK, ProjectRoles
<1>3. CASE CreateRoom(r)
  <2>1. PICK x \in Rooms :
          /\ room[x] = NoRoom
          /\ room' = [room EXCEPT ![x] = [project |-> query[r].project, visibility |-> query[r].visibility]]
          /\ crew' = [crew EXCEPT ![x] = {query[r].user}]
    BY <1>3 DEF CreateRoom
  <2>2. Commit(r) /\ UNCHANGED <<team, document>>
    BY <1>3 DEF CreateRoom
  <2>3. crew[x] = {} /\ room[x].project = Nobody
    BY <2>1 DEF TypeOK, RoomsStayInTheirProject, NoRoom
  <2>4. \A y \in Rooms : crew[y] \subseteq crew'[y]
    BY <2>1, <2>3 DEF TypeOK
  <2>5. \A y \in Rooms : room[y].project # Nobody => room'[y] = room[y]
    BY <2>1, <2>3 DEF TypeOK
  <2> QED BY <2>2, <2>4, <2>5
<1>4. CASE AddRoomMember(r)
  BY <1>4 DEF AddRoomMember, TypeOK
<1>5. CASE CreateDocument(r)
  <2>1. PICK d \in Documents :
          /\ document[d] = NoDocument
          /\ document' = [document EXCEPT ![d] =
                            [project |-> query[r].project, room |-> query[r].room, status |-> "active"]]
    BY <1>5 DEF CreateDocument
  <2>2. Commit(r) /\ UNCHANGED <<team, room, crew>>
    BY <1>5 DEF CreateDocument
  <2>3. document[d].project = Nobody
    BY <2>1 DEF NoDocument
  <2>4. \A e \in Documents : document[e].project # Nobody => document'[e] = document[e]
    BY <2>1, <2>3 DEF TypeOK
  <2> QED BY <2>2, <2>4
<1>6. CASE UpdateDocument(r)
  <2> DEFINE o == query[r].document
  <2>1. PICK s \in {"active", "archived"} :
          document' = [document EXCEPT ![o] = [document[o] EXCEPT !.status = s]]
    BY <1>6 DEF UpdateDocument
  <2>2. Commit(r) /\ UNCHANGED <<team, room, crew>>
    BY <1>6 DEF UpdateDocument
  <2> HIDE DEF o
  <2>3. \A d \in Documents : /\ document'[d].room = document[d].room
                             /\ document'[d].project = document[d].project
    BY <2>1 DEF TypeOK
  <2> QED BY <2>2, <2>3
<1> QED BY <1>1, <1>2, <1>3, <1>4, <1>5, <1>6

LEMMA OtherRequest ==
  ASSUME Inv, SnapshotInv, NEW r \in Requests, NEW q \in Query, q.op \notin {"none", "snapshot"},
         q.phase = "idle", q.user \in People, Begin(r, q)
  PROVE  SnapshotInv'
<1> DEFINE c == [q EXCEPT !.phase = "asked", !.as = standing[q.user]]
<1>1. c \in Query /\ c.op # "snapshot"
  BY DEF Query, Inv, TypeOK
<1>2. query' = [query EXCEPT ![r] = c] /\ UNCHANGED <<team, room, crew, document, page>>
  BY DEF Begin
<1> HIDE DEF c
<1> QED BY <1>1, <1>2, QuietStep DEF Gathered

LEMMA AskAside == ASSUME Inv, SnapshotInv, NEW r \in Requests, Ask(r) PROVE SnapshotInv'
<1> PICK p \in People :
      LET q == [Free EXCEPT !.user = p]
      IN \/ Begin(r, [q EXCEPT !.op = "project"])
         \/ \E j \in {i \in Projects : ProjectExists(i)} :
              \/ \E w \in People, k \in ProjectRoles :
                   Begin(r, [q EXCEPT !.op = "project_member", !.project = j, !.who = w, !.role = k])
              \/ \E v \in Visibilities :
                   Begin(r, [q EXCEPT !.op = "room", !.project = j, !.visibility = v])
              \/ \E x \in ExistingRooms \union {Nobody} :
                   Begin(r, [q EXCEPT !.op = "document", !.project = j, !.room = x])
         \/ \E x \in ExistingRooms, w \in People :
              Begin(r, [q EXCEPT !.op = "room_member", !.room = x, !.who = w])
         \/ \E d \in {e \in Documents : document[e] # NoDocument} :
              Begin(r, [q EXCEPT !.op = "update", !.document = d])
  BY DEF Ask
<1> DEFINE q == [Free EXCEPT !.user = p]
<1>1. q \in Query /\ q.phase = "idle" /\ q.op = "none" /\ q.user = p
  BY FreeIsTyped DEF Query
<1> HIDE DEF q
<1>2. ASSUME NEW o \in ProjectOps \ {"snapshot"}, NEW j \in Projects \union {Nobody},
             NEW x \in Rooms \union {Nobody}, NEW d \in Documents \union {Nobody},
             NEW w \in People \union {Nobody}, NEW k \in ProjectRoles \union {"none"},
             NEW v \in Visibilities, NEW c,
             Begin(r, c),
             \/ c = [q EXCEPT !.op = o]
             \/ c = [q EXCEPT !.op = o, !.project = j, !.who = w, !.role = k]
             \/ c = [q EXCEPT !.op = o, !.project = j, !.visibility = v]
             \/ c = [q EXCEPT !.op = o, !.project = j, !.room = x]
             \/ c = [q EXCEPT !.op = o, !.room = x, !.who = w]
             \/ c = [q EXCEPT !.op = o, !.document = d]
      PROVE  SnapshotInv'
  <2>1. c \in Query
    <3> USE <1>1 DEF Query, ProjectOps
    <3>1. CASE c = [q EXCEPT !.op = o]
      BY <3>1
    <3>2. CASE c = [q EXCEPT !.op = o, !.project = j, !.who = w, !.role = k]
      BY <3>2
    <3>3. CASE c = [q EXCEPT !.op = o, !.project = j, !.visibility = v]
      BY <3>3
    <3>4. CASE c = [q EXCEPT !.op = o, !.project = j, !.room = x]
      BY <3>4
    <3>5. CASE c = [q EXCEPT !.op = o, !.room = x, !.who = w]
      BY <3>5
    <3>6. CASE c = [q EXCEPT !.op = o, !.document = d]
      BY <3>6
    <3> QED BY <1>2, <3>1, <3>2, <3>3, <3>4, <3>5, <3>6
  <2>2. c.op = o /\ c.phase = "idle" /\ c.user = p
    BY <1>1, <1>2 DEF Query
  <2> QED BY <1>2, <2>1, <2>2, OtherRequest DEF ProjectOps
<1>3. ASSUME NEW o \in ProjectOps \ {"snapshot"}, Begin(r, [q EXCEPT !.op = o]) PROVE SnapshotInv'
  BY <1>2, <1>3 DEF Visibilities
<1>4. {"project", "project_member", "room", "room_member", "document", "update"}
        = ProjectOps \ {"snapshot"}
  BY DEF ProjectOps
<1>5. ASSUME NEW j \in Projects, NEW w \in People, NEW k \in ProjectRoles,
             Begin(r, [q EXCEPT !.op = "project_member", !.project = j, !.who = w, !.role = k])
      PROVE  SnapshotInv'
  BY <1>2, <1>4, <1>5 DEF Visibilities
<1>6. ASSUME NEW j \in Projects, NEW v \in Visibilities,
             Begin(r, [q EXCEPT !.op = "room", !.project = j, !.visibility = v])
      PROVE  SnapshotInv'
  BY <1>2, <1>4, <1>6
<1>7. ASSUME NEW j \in Projects, NEW x \in ExistingRooms \union {Nobody},
             Begin(r, [q EXCEPT !.op = "document", !.project = j, !.room = x])
      PROVE  SnapshotInv'
  BY <1>2, <1>4, <1>7 DEF Visibilities, ExistingRooms
<1>8. ASSUME NEW x \in ExistingRooms, NEW w \in People,
             Begin(r, [q EXCEPT !.op = "room_member", !.room = x, !.who = w])
      PROVE  SnapshotInv'
  BY <1>2, <1>4, <1>8 DEF Visibilities, ExistingRooms
<1>9. ASSUME NEW d \in Documents, Begin(r, [q EXCEPT !.op = "update", !.document = d])
      PROVE  SnapshotInv'
  BY <1>2, <1>4, <1>9 DEF Visibilities
<1> QED BY <1>3, <1>4, <1>5, <1>6, <1>7, <1>8, <1>9 DEF q

LEMMA AskedIsTyped ==
  ASSUME NEW e \in Query, NEW a \in WorkspaceRoles \union {"none"}
  PROVE  [e EXCEPT !.phase = "asked", !.as = a] \in Query
BY DEF Query

LEMMA DueAtStart == ASSUME Inv, SnapshotInv, NEW r \in Requests, AskForSnapshot(r) PROVE SnapshotInv'
<1> DEFINE q(p) == [Free EXCEPT !.op = "snapshot", !.user = p, !.as = standing[p]]
           due(p) == ProjectsSeen(q(p)) \union RoomsSeen(q(p)) \union DocumentsSeen(q(p), RoomsSeen(q(p)))
           c(p) == [q(p) EXCEPT !.read.due = due(p)]
<1>1. PICK p \in People : Begin(r, c(p))
  BY DEF AskForSnapshot
<1>2. standing[p] \in WorkspaceRoles \union {"none"}
  BY DEF Inv, TypeOK
<1>3. q(p) \in Query /\ q(p).op = "snapshot" /\ q(p).user = p /\ q(p).as = standing[p]
  BY <1>2, FreeIsTyped DEF Query, ProjectOps
<1>4. PICK k \in Query : k = q(p)
  BY <1>3
<1> HIDE DEF q
<1>5. due(p) = ProjectsSeen(k) \union RoomsSeen(k) \union DocumentsSeen(k, RoomsSeen(k))
  BY <1>4
<1>6. due(p) \in SUBSET (Projects \union Rooms \union Documents)
  BY <1>5 DEF ProjectsSeen, RoomsSeen, DocumentsSeen
<1> HIDE DEF due
<1>7. c(p) \in Query /\ c(p).op = "snapshot" /\ c(p).user = p /\ c(p).as = standing[p]
      /\ c(p).read.due = due(p)
  BY <1>3, <1>6 DEF Query, Page
<1> HIDE DEF c
<1>8. PICK e \in Query : e = c(p)
  BY <1>7
<1>9. PICK b \in Query : b = [e EXCEPT !.phase = "asked", !.as = standing[e.user]]
  <2>1. standing[e.user] \in WorkspaceRoles \union {"none"}
    BY <1>2, <1>7, <1>8
  <2>2. PICK a \in WorkspaceRoles \union {"none"} : a = standing[e.user]
    BY <2>1
  <2>3. [e EXCEPT !.phase = "asked", !.as = a] \in Query
    BY AskedIsTyped
  <2> QED BY <2>2, <2>3
<1>10. /\ b.phase = "asked" /\ b.op = "snapshot" /\ b.user = k.user /\ b.as = k.as
       /\ b.read.due = due(p)
       /\ query' = [query EXCEPT ![r] = b] /\ UNCHANGED <<team, room, crew, document, page>>
  <2>1. b.phase = "asked" /\ b.op = "snapshot" /\ b.user = k.user /\ b.as = k.as
        /\ b.read.due = due(p)
    BY <1>3, <1>4, <1>7, <1>8, <1>9 DEF Query
  <2>2. query' = [query EXCEPT ![r] = b] /\ UNCHANGED <<team, room, crew, document, page>>
    BY <1>1, <1>8, <1>9 DEF Begin
  <2> QED BY <2>1, <2>2
<1>11. ProjectsSeen(k) = ProjectsSeen(b)
  BY <1>10 DEF ProjectsSeen, Manager
<1>12. RoomsSeen(k) = RoomsSeen(b)
  BY <1>10, <1>11 DEF RoomsSeen
<1>13. DocumentsSeen(k, RoomsSeen(k)) = DocumentsSeen(b, RoomsSeen(b))
  BY <1>11, <1>12 DEF DocumentsSeen
<1>14. ProjectsOf(b) = ProjectsSeen(b) /\ RoomsOf(b) = RoomsSeen(b) /\ VisibleTo(b) = RoomsSeen(b)
       /\ DocumentsOf(b) = DocumentsSeen(b, RoomsSeen(b))
  BY <1>10 DEF ProjectsOf, RoomsOf, VisibleTo, DocumentsOf
<1>15. Gathered(b)
  BY <1>5, <1>10, <1>11, <1>12, <1>13, <1>14 DEF Gathered
<1> QED BY <1>10, <1>15, QuietStep

\* To read a list makes it stay what it stood for.
LEMMA ReadingKeeps ==
  ASSUME Inv, NEW q \in Query, Gathered(q), q.op = "snapshot",
         NEW c \in Query, c.op = q.op, c.user = q.user, c.as = q.as,
         c.read.due = q.read.due, c.read.torn = q.read.torn,
         ProjectsOf(c) = ProjectsOf(q), RoomsOf(c) = RoomsOf(q), VisibleTo(c) = VisibleTo(q),
         DocumentsOf(c) = DocumentsOf(q)
  PROVE  Gathered(c)
<1>1. ProjectsSeen(c) = ProjectsSeen(q)
  BY DEF ProjectsSeen, Manager
<1>2. RoomsSeen(c) = RoomsSeen(q)
  BY <1>1 DEF RoomsSeen
<1>3. DocumentsSeen(c, VisibleTo(c)) = DocumentsSeen(q, VisibleTo(q))
  BY <1>1 DEF DocumentsSeen
<1> QED BY <1>1, <1>2, <1>3 DEF Gathered

LEMMA AnswerIsExact ==
  ASSUME Inv, NEW q \in Query, Gathered(q), q.op = "snapshot", q.phase = "messages",
         \A x \in q.read.rooms : q.user \in crew[x],
         NEW w \in Page, w.projects = q.read.projects, w.rooms = q.read.rooms,
         w.documents = q.read.documents, w.due = q.read.due, w.torn = q.read.torn
  PROVE  Exact(q.user, w)
<1>1. /\ ProjectsOf(q) = w.projects /\ RoomsOf(q) = w.rooms /\ VisibleTo(q) = q.visible
      /\ DocumentsOf(q) = w.documents
  BY DEF ProjectsOf, RoomsOf, VisibleTo, DocumentsOf
<1>2. w.due \subseteq w.projects \union w.rooms \union w.documents
  BY <1>1 DEF Gathered
<1>3. q.visible \subseteq RoomsSeen(q) /\ w.documents \subseteq DocumentsSeen(q, q.visible)
  BY <1>1 DEF Gathered
<1>4. w.torn \/ (w.projects = ProjectsSeen(q) /\ w.rooms = RoomsSeen(q) /\ q.visible = RoomsSeen(q))
  BY <1>1 DEF Gathered
<1>5. ASSUME NEW d \in w.documents
      PROVE  /\ document[d].project # Nobody
             /\ \/ document[d].room = Nobody \/ room[document[d].room].visibility = "workspace"
                \/ q.user \in crew[document[d].room]
  <2>1. document[d].project \in ProjectsSeen(q) /\ document[d].room \in q.visible \union {Nobody}
    BY <1>3 DEF DocumentsSeen
  <2>2. document[d].project # Nobody
    BY <2>1, ProjectAssumption DEF ProjectsSeen
  <2> QED BY <1>3, <2>1, <2>2 DEF RoomsSeen
<1>6. w.torn \/ /\ \A x \in w.rooms : room[x].project \in w.projects
                /\ \A d \in w.documents :
                     /\ document[d].project \in w.projects
                     /\ document[d].room \in w.rooms \union {Nobody}
  BY <1>3, <1>4 DEF RoomsSeen, DocumentsSeen
<1> QED BY <1>2, <1>5, <1>6 DEF Exact

LEMMA ReadStep ==
  ASSUME Inv, SnapshotInv, NEW r \in Requests,
         \/ ReadProjects(r) \/ ReadRooms(r) \/ ReadVisibleRooms(r)
         \/ ReadDocuments(r) \/ ReadMessages(r)
  PROVE  SnapshotInv'
<1>1. PICK q \in Query : q = query[r]
  BY DEF Inv, TypeOK
<1>2. WellFormed(q) /\ Gathered(q) /\ q.op = "snapshot" /\ q.user \in People /\ q.read \in Page
      /\ UNCHANGED <<team, room, crew, document>>
  BY <1>1 DEF Inv, SnapshotInv, WellFormed, Query, ReadProjects, ReadRooms, ReadVisibleRooms,
              ReadDocuments, ReadMessages, Read
<1>3. ASSUME NEW what \in Page, Answer(r, what), Exact(q.user, what) PROVE SnapshotInv'
  <2>1. query' = [query EXCEPT ![r] = Free] /\ Gathered(Free)
    BY <1>3, FreeIsTyped DEF Answer, End, Gathered
  <2>2. \A p \in People : page'[p] = page[p] \/ Exact(p, page'[p])
    BY <1>1, <1>3 DEF Answer, Inv, TypeOK
  <2> QED BY <1>2, <2>1, <2>2, FreeIsTyped, QuietStep
<1>4. ASSUME NEW answer \in {"suspended", "refused"}, Answer(r, [NoPage EXCEPT !.answer = answer])
      PROVE  SnapshotInv'
  <2>1. [NoPage EXCEPT !.answer = answer] \in Page
        /\ [NoPage EXCEPT !.answer = answer].answer # "answered"
    BY DEF NoPage, Page
  <2> QED BY <1>3, <1>4, <2>1 DEF Exact
\* A list was read: the request c stands for the same as q.
<1>5. ASSUME NEW phase \in {"rooms", "visible", "documents", "messages"}, NEW w \in Page,
             NEW v \in SUBSET Rooms, NEW c, c = [q EXCEPT !.phase = phase, !.read = w, !.visible = v],
             query' = [query EXCEPT ![r] = c], UNCHANGED page,
             w.due = q.read.due, w.torn = q.read.torn,
             ProjectsOf(q) = w.projects,
             RoomsOf(q) = IF phase = "rooms" THEN RoomsSeen(q) ELSE w.rooms,
             VisibleTo(q) = IF phase \in {"rooms", "visible"} THEN RoomsSeen(q) ELSE v,
             DocumentsOf(q) = IF phase = "messages" THEN w.documents
                              ELSE DocumentsSeen(q, VisibleTo(q))
      PROVE  SnapshotInv'
  <2>1. /\ c \in Query /\ c.op = q.op /\ c.user = q.user /\ c.as = q.as
        /\ c.phase = phase /\ c.read = w /\ c.visible = v
    BY <1>5 DEF Query
  <2>2. PICK d \in Query : d = c
    BY <2>1
  <2>3. ProjectsSeen(d) = ProjectsSeen(q) /\ RoomsSeen(d) = RoomsSeen(q)
    BY <2>1, <2>2 DEF ProjectsSeen, RoomsSeen, Manager
  <2>4. ProjectsOf(d) = ProjectsOf(q) /\ RoomsOf(d) = RoomsOf(q) /\ VisibleTo(d) = VisibleTo(q)
    BY <1>5, <2>1, <2>2, <2>3 DEF ProjectsOf, RoomsOf, VisibleTo
  <2>5. DocumentsSeen(d, VisibleTo(d)) = DocumentsSeen(q, VisibleTo(q))
    BY <2>3, <2>4 DEF DocumentsSeen
  <2>6. DocumentsOf(d) = DocumentsOf(q)
    BY <1>5, <2>1, <2>2, <2>5 DEF DocumentsOf
  <2>7. Gathered(d)
    BY <1>2, <1>5, <2>1, <2>2, <2>4, <2>6, ReadingKeeps
  <2> QED BY <1>2, <1>5, <2>2, <2>7, QuietStep
<1>6. /\ ProjectsSeen(q) \in SUBSET Projects /\ RoomsSeen(q) \in SUBSET Rooms
      /\ DocumentsSeen(q, q.visible) \in SUBSET Documents /\ q.visible \in SUBSET Rooms
  BY DEF ProjectsSeen, RoomsSeen, DocumentsSeen, Query
<1>7. CASE ReadProjects(r)
  <2> DEFINE w == [q.read EXCEPT !.projects = ProjectsSeen(q)]
             c == [q EXCEPT !.phase = "rooms", !.read = w]
  <2>1. w \in Page /\ w.projects = ProjectsSeen(q) /\ w.due = q.read.due /\ w.torn = q.read.torn
    BY <1>2, <1>6 DEF Page
  <2>2. q.phase = "asked"
    BY <1>1, <1>7 DEF ReadProjects, Read
  <2>3. CASE standing[q.user] = "none"
    BY <1>1, <1>4, <1>7, <2>3 DEF ReadProjects, Read
  <2>4. CASE standing[q.user] # "none"
    <3>1. query' = [query EXCEPT ![r] = c] /\ UNCHANGED page
      BY <1>1, <1>7, <2>4 DEF ReadProjects, Read
    <3> HIDE DEF w
    <3>2. c = [q EXCEPT !.phase = "rooms", !.read = w, !.visible = q.visible]
      BY DEF Query
    <3> HIDE DEF c
    <3>3. ProjectsOf(q) = w.projects /\ RoomsOf(q) = RoomsSeen(q) /\ VisibleTo(q) = RoomsSeen(q)
          /\ DocumentsOf(q) = DocumentsSeen(q, VisibleTo(q))
      BY <2>1, <2>2 DEF ProjectsOf, RoomsOf, VisibleTo, DocumentsOf
    <3> QED BY <1>5, <1>6, <2>1, <3>1, <3>2, <3>3
  <2> QED BY <2>3, <2>4
<1>8. CASE ReadRooms(r)
  <2> DEFINE w == [q.read EXCEPT !.rooms = RoomsSeen(q)]
             c == [q EXCEPT !.phase = "visible", !.read = w]
  <2>1. w \in Page /\ w.rooms = RoomsSeen(q) /\ w.projects = q.read.projects
        /\ w.due = q.read.due /\ w.torn = q.read.torn
    BY <1>2, <1>6 DEF Page
  <2>2. q.phase = "rooms"
    BY <1>1, <1>8 DEF ReadRooms, Read
  <2>3. CASE standing[q.user] = "none"
    BY <1>1, <1>4, <1>8, <2>3 DEF ReadRooms, Read
  <2>4. CASE standing[q.user] # "none"
    <3>1. query' = [query EXCEPT ![r] = c] /\ UNCHANGED page
      BY <1>1, <1>8, <2>4 DEF ReadRooms, Read
    <3> HIDE DEF w
    <3>2. c = [q EXCEPT !.phase = "visible", !.read = w, !.visible = q.visible]
      BY DEF Query
    <3> HIDE DEF c
    <3>3. ProjectsOf(q) = w.projects /\ RoomsOf(q) = w.rooms /\ VisibleTo(q) = RoomsSeen(q)
          /\ DocumentsOf(q) = DocumentsSeen(q, VisibleTo(q))
      BY <2>1, <2>2 DEF ProjectsOf, RoomsOf, VisibleTo, DocumentsOf
    <3> QED BY <1>5, <1>6, <2>1, <3>1, <3>2, <3>3
  <2> QED BY <2>3, <2>4
<1>9. CASE ReadVisibleRooms(r)
  <2> DEFINE c == [q EXCEPT !.phase = "documents", !.visible = RoomsSeen(q)]
  <2>1. q.phase = "visible"
    BY <1>1, <1>9 DEF ReadVisibleRooms
  <2>2. CASE standing[q.user] = "none"
    BY <1>1, <1>4, <1>9, <2>2 DEF ReadVisibleRooms
  <2>3. CASE standing[q.user] # "none"
    <3>1. query' = [query EXCEPT ![r] = c] /\ UNCHANGED page
      BY <1>1, <1>9, <2>3 DEF ReadVisibleRooms
    <3>2. c = [q EXCEPT !.phase = "documents", !.read = q.read, !.visible = RoomsSeen(q)]
      BY DEF Query
    <3> HIDE DEF c
    <3>3. ProjectsOf(q) = q.read.projects /\ RoomsOf(q) = q.read.rooms /\ VisibleTo(q) = RoomsSeen(q)
          /\ DocumentsOf(q) = DocumentsSeen(q, VisibleTo(q))
      BY <2>1 DEF ProjectsOf, RoomsOf, VisibleTo, DocumentsOf
    <3> QED BY <1>2, <1>5, <1>6, <3>1, <3>2, <3>3
  <2> QED BY <2>2, <2>3
<1>10. CASE ReadDocuments(r)
  <2> DEFINE w == [q.read EXCEPT !.documents = DocumentsSeen(q, q.visible)]
             c == [q EXCEPT !.phase = "messages", !.read = w]
  <2>1. w \in Page /\ w.documents = DocumentsSeen(q, q.visible) /\ w.projects = q.read.projects
        /\ w.rooms = q.read.rooms /\ w.due = q.read.due /\ w.torn = q.read.torn
    BY <1>2, <1>6 DEF Page
  <2>2. q.phase = "documents"
    BY <1>1, <1>10 DEF ReadDocuments, Read
  <2>3. CASE standing[q.user] = "none"
    BY <1>1, <1>4, <1>10, <2>3 DEF ReadDocuments, Read
  <2>4. CASE standing[q.user] # "none"
    <3>1. query' = [query EXCEPT ![r] = c] /\ UNCHANGED page
      BY <1>1, <1>10, <2>4 DEF ReadDocuments, Read
    <3> HIDE DEF w
    <3>2. c = [q EXCEPT !.phase = "messages", !.read = w, !.visible = q.visible]
      BY DEF Query
    <3> HIDE DEF c
    <3>3. ProjectsOf(q) = w.projects /\ RoomsOf(q) = w.rooms /\ VisibleTo(q) = q.visible
          /\ DocumentsOf(q) = w.documents
      BY <2>1, <2>2 DEF ProjectsOf, RoomsOf, VisibleTo, DocumentsOf
    <3> QED BY <1>5, <1>6, <2>1, <3>1, <3>2, <3>3
  <2> QED BY <2>3, <2>4
<1>11. CASE ReadMessages(r)
  <2> DEFINE w == [q.read EXCEPT !.messages = q.read.rooms, !.answer = "answered"]
  <2>1. /\ w \in Page /\ w.projects = q.read.projects /\ w.rooms = q.read.rooms
        /\ w.documents = q.read.documents /\ w.due = q.read.due /\ w.torn = q.read.torn
    BY <1>2 DEF Page
  <2>2. q.phase = "messages"
    BY <1>1, <1>11 DEF ReadMessages
  <2>3. CASE \A x \in q.read.rooms : q.user \in crew[x]
    <3>1. Answer(r, w)
      BY <1>1, <1>11, <2>3 DEF ReadMessages
    <3> HIDE DEF w
    <3>2. Exact(q.user, w)
      BY <1>2, <2>1, <2>2, <2>3, AnswerIsExact
    <3> QED BY <1>3, <2>1, <3>1, <3>2
  <2>4. CASE ~ \A x \in q.read.rooms : q.user \in crew[x]
    BY <1>1, <1>4, <1>11, <2>4 DEF ReadMessages
  <2> QED BY <2>3, <2>4
<1> QED BY <1>7, <1>8, <1>9, <1>10, <1>11

LEMMA SnapshotInvStart == Init => SnapshotInv
BY FreeIsTyped DEF Init, SnapshotInv, Gathered, Exact, NoPage

LEMMA SnapshotInvStep == Inv /\ SnapshotInv /\ [Next]_vars => SnapshotInv'
<1> SUFFICES ASSUME Inv, SnapshotInv, [Next]_vars PROVE SnapshotInv'
  OBVIOUS
<1>1. Inv'
  BY InvStep
<1>2. ASSUME NEW r \in Requests, Check(r) PROVE SnapshotInv'
  <2>1. UNCHANGED <<team, room, crew, document, page>>
    BY <1>2 DEF Check
  <2>2. CASE query' = [query EXCEPT ![r] = Free]
    BY <2>1, <2>2, FreeIsTyped, QuietStep DEF Gathered
  <2>3. CASE query' = [query EXCEPT ![r].phase = "allowed"]
    <3>1. [query[r] EXCEPT !.phase = "allowed"] \in Query
          /\ [query[r] EXCEPT !.phase = "allowed"].op # "snapshot"
      BY <1>2 DEF Check, Inv, TypeOK, Query
    <3>2. PICK c \in Query : c = [query[r] EXCEPT !.phase = "allowed"]
      BY <3>1
    <3> QED BY <2>1, <2>3, <3>1, <3>2, QuietStep DEF Gathered
  <2> QED BY <1>2, <2>2, <2>3 DEF Check, End
<1>3. ASSUME NEW r \in Requests, Proceed(r) PROVE SnapshotInv'
  BY <1>1, <1>2, <1>3, WritesGrow, TornCommit, ReadStep DEF Proceed
<1>4. CASE UNCHANGED <<team, room, crew, document, query, page>>
  <2>1. ASSUME NEW s \in Requests PROVE Gathered(query[s])'
    <3>1. PICK c \in Query : c = query[s] /\ Gathered(c)
      BY DEF SnapshotInv, Inv, TypeOK
    <3>2. SnapshotInv'
      BY <1>4, <3>1, QuietStep
    <3> QED BY <3>2 DEF SnapshotInv
  <2>2. ASSUME NEW p \in People PROVE Exact(p, page[p])'
    BY <1>4 DEF SnapshotInv, Exact
  <2> QED BY <2>1, <2>2 DEF SnapshotInv
<1>5. ASSUME NEW p \in People, ChangeStanding(p) PROVE SnapshotInv'
  BY <1>4, <1>5 DEF ChangeStanding
<1>6. CASE UNCHANGED vars
  BY <1>4, <1>6 DEF vars, projectVars
<1> QED
  BY <1>3, <1>5, <1>6, AskAside, DueAtStart DEF Next

\* An answered snapshot shows nothing that its reader cannot see, misses nothing that was
\* visible when it was asked for, and is closed unless something was committed meanwhile,
\* although the lists of routes/collaboration.ts are read one after the other.
THEOREM SnapshotsAreExact == Spec => []SnapshotIsExact
<1>1. SnapshotInv => SnapshotIsExact
  BY DEF SnapshotInv, Exact, SnapshotIsExact
<1> QED
  BY <1>1, InvStart, InvStep, SnapshotInvStart, SnapshotInvStep, PTL DEF Spec
=============================================================================
