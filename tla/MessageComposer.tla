---------------------------- MODULE MessageComposer ----------------------------
(***************************************************************************)
(* The collaboration page in the browser (session-gate.tsx,                  *)
(* halo-workspace.tsx, use-workspace-entities.ts) on top of the log that a    *)
(* room promises (MessageLog, which RoomMessages implements).                 *)
(*                                                                         *)
(* Each member has one page open.  It shows the rooms and messages of a       *)
(* snapshot read when it was loaded, and what the member added since.  There  *)
(* is one text box for all rooms.  Its text is sent to the room that is open, *)
(* with a mutation id drawn at that moment; box and rooms stay usable         *)
(* meanwhile.  A request may be stored long after the browser has given it    *)
(* up, and its reply may never come.                                        *)
(***************************************************************************)
EXTENDS Naturals, Sequences

CONSTANTS
  Actors,        \* members with the page open
  Rooms,         \* rooms, all of one project everybody is in
  First,         \* the room that is there from the start
  MaxTexts,      \* bound: texts each member writes
  MaxSends,      \* bound: times each member presses send
  MaxTurns,      \* bound: times each member loads the page or changes its language
  Mutations      \* the n-th id drawn by a member

ASSUME ComposerAssumption ==
  /\ {MaxTexts, MaxSends, MaxTurns} \subseteq [Actors -> Nat]
  /\ Mutations \subseteq Nat /\ \A a \in Actors : 1..MaxSends[a] \subseteq Mutations
  /\ First \in Rooms

NoText == 0

VARIABLES
  log,           \* per room: its messages, as MessageLog has them
  rooms,         \* the rooms, oldest first
  page,          \* per member: what the page holds
  request,       \* per member and mutation: the message on its way
  creation,      \* per member: the room creation on its way
  bounds,        \* per member: texts, sends and turns so far
  confirmed      \* history, per member: messages confirmed since the last turn

composerVars == <<log, rooms, page, request, creation, bounds, confirmed>>

\* A room that takes messages: no handler of the API closes one.
Room(r) == INSTANCE MessageLog WITH log <- log[r], open <- TRUE

NoRequest == [state |-> "gone", room |-> First, text |-> NoText]
NoCreation == [state |-> "none", room |-> First]

\* Faulty: positions from zero on.
PositionFromZero(r, a, k) == (CHOOSE i \in DOMAIN log[r] : log[r][i] = <<a, k>>) - 1

Position(r, a, k) == CHOOSE i \in DOMAIN log[r] : log[r][i] = <<a, k>>

Elements(s) == {s[i] : i \in DOMAIN s}

\* The snapshot: every room there is, with its messages.
Listed(seen, r) == \E i \in DOMAIN seen : seen[i] = r
Snapshot ==
  [rooms |-> rooms,
   shown |-> [r \in Rooms |-> IF Listed(rooms, r) THEN [i \in DOMAIN log[r] |-> <<r, i>>] ELSE <<>>]]

\* groupMessages and the states it fills; the first room is opened.
Filled(p, snapshot) ==
  [p EXCEPT !.loaded = snapshot, !.rooms = snapshot.rooms, !.shown = snapshot.shown,
            !.active = snapshot.rooms[1]]

---------------------------------------------------------------------------
ComposerInit ==
  /\ log = [r \in Rooms |-> <<>>]
  /\ rooms = <<First>>
  /\ page = [a \in Actors |-> [loaded |-> Snapshot, rooms |-> <<First>>, shown |-> Snapshot.shown,
                               active |-> First, draft |-> NoText, pending |-> {}]]
  /\ request = [a \in Actors |-> [k \in Mutations |-> NoRequest]]
  /\ creation = [a \in Actors |-> NoCreation]
  /\ bounds = [a \in Actors |-> [texts |-> 0, sends |-> 0, loads |-> 0, switches |-> 0]]
  /\ confirmed = [a \in Actors |-> {}]

\* onInputChange: a new text replaces what is in the box, a send under way or not.
Type(a) ==
  /\ bounds[a].texts < MaxTexts[a]
  /\ bounds' = [bounds EXCEPT ![a].texts = @ + 1]
  /\ page' = [page EXCEPT ![a].draft = bounds[a].texts + 1]
  /\ UNCHANGED <<log, rooms, request, creation, confirmed>>

\* selectRoom, openRoomDocument.
OpenRoom(a, r) ==
  /\ Listed(page[a].rooms, r) /\ r # page[a].active
  /\ page' = [page EXCEPT ![a].active = r]
  /\ UNCHANGED <<log, rooms, request, creation, bounds, confirmed>>

\* Faulty: no isStreaming guard.
MaySubmitAnyTime(a) == page[a].draft # NoText

MaySubmit(a) == page[a].draft # NoText /\ page[a].pending = {}

\* submitMessage up to its await.
SubmitMessage(a) ==
  /\ MaySubmit(a)
  /\ bounds[a].sends < MaxSends[a]
  /\ LET k == bounds[a].sends + 1
     IN /\ bounds' = [bounds EXCEPT ![a].sends = k]
        /\ page' = [page EXCEPT ![a].pending = @ \union {k}]
        /\ request' = [request EXCEPT ![a][k] =
                         [state |-> "sent", room |-> page[a].active, text |-> page[a].draft]]
  /\ UNCHANGED <<log, rooms, creation, confirmed>>

\* The room takes the message, however late the request arrives.
Store(a, k) ==
  LET r == request[a][k].room
  IN /\ request[a][k].state = "sent" /\ ~Room(r)!Stored(a, k)
     /\ log' = [log EXCEPT ![r] = Append(@, <<a, k>>)]
     /\ request' = [request EXCEPT ![a][k].state = "stored"]
     /\ UNCHANGED <<rooms, page, creation, bounds, confirmed>>

\* A room that is closed, or a member turned away.
Refuse(a, k) ==
  /\ request[a][k].state = "sent"
  /\ request' = [request EXCEPT ![a][k].state = "refused"]
  /\ UNCHANGED <<log, rooms, page, creation, bounds, confirmed>>

\* updateRoomMessages: unless the page has it, the message goes to the end of its room.
ShownWith(shown, r, i) ==
  IF <<r, i>> \in Elements(shown[r]) THEN shown ELSE [shown EXCEPT ![r] = Append(@, <<r, i>>)]

\* Faulty: the room that is open when the reply comes.
RoomNow(a, k) == page[a].active

\* roomId was read before the await.
RoomOfReply(a, k) == request[a][k].room

\* The reply comes: the message is shown and the box is emptied.
Confirm(a, k) ==
  LET i == Position(request[a][k].room, a, k)
  IN /\ k \in page[a].pending
     /\ request[a][k].state = "stored"
     /\ page' = [page EXCEPT ![a].shown = ShownWith(@, RoomOfReply(a, k), i),
                             ![a].draft = NoText, ![a].pending = @ \ {k}]
     /\ request' = [request EXCEPT ![a][k].state = "gone"]
     /\ confirmed' = [confirmed EXCEPT ![a] = @ \union {<<request[a][k].room, i>>}]
     /\ UNCHANGED <<log, rooms, creation, bounds>>

\* Faulty: the box is emptied in the finally block.
EmptiedOnError(a) == NoText

DraftOnError(a) == page[a].draft

\* An error comes, or no reply does: the text stays in the box. A request that
\* was not answered may still be on its way.
FailMessage(a, k) ==
  /\ k \in page[a].pending
  /\ request' = [request EXCEPT ![a][k].state = IF @ = "sent" THEN @ ELSE "gone"]
  /\ page' = [page EXCEPT ![a].draft = DraftOnError(a), ![a].pending = @ \ {k}]
  /\ UNCHANGED <<log, rooms, creation, bounds, confirmed>>

\* A request on its way is lost before it reaches the API.
Vanish(a, k) ==
  /\ request[a][k].state = "sent"
  /\ request' = [request EXCEPT ![a][k].state = "gone"]
  /\ UNCHANGED <<log, rooms, page, creation, bounds, confirmed>>

---------------------------------------------------------------------------
(* Rooms.  The dialog can be closed while the room is being made.            *)

AskForRoom(a) ==
  /\ creation[a].state = "none"
  /\ creation' = [creation EXCEPT ![a].state = "sent"]
  /\ UNCHANGED <<log, rooms, page, request, bounds, confirmed>>

MakeRoom(a, r) ==
  /\ creation[a].state = "sent" /\ ~Listed(rooms, r)
  /\ rooms' = Append(rooms, r)
  /\ creation' = [creation EXCEPT ![a] = [state |-> "made", room |-> r]]
  /\ UNCHANGED <<log, page, request, bounds, confirmed>>

\* The reply: the room is listed, empty, and open, whatever the member does by then.
RoomMade(a) ==
  LET r == creation[a].room
  IN /\ creation[a].state = "made"
     /\ page' = [page EXCEPT ![a].rooms = Append(@, r), ![a].shown[r] = <<>>, ![a].active = r]
     /\ creation' = [creation EXCEPT ![a] = NoCreation]
     /\ UNCHANGED <<log, rooms, request, bounds, confirmed>>

\* An error, or no reply.
RoomRefused(a) ==
  /\ creation[a].state # "none"
  /\ creation' = [creation EXCEPT ![a] = NoCreation]
  /\ UNCHANGED <<log, rooms, page, request, bounds, confirmed>>

---------------------------------------------------------------------------
(* The page is filled from a snapshot again.                                 *)

MayTurn(a) == bounds[a].loads + bounds[a].switches < MaxTurns[a]

\* The page is loaded again, or its workspace left and entered: it has no text, and
\* waits for nothing.
LoadPage(a) ==
  /\ MayTurn(a) /\ bounds' = [bounds EXCEPT ![a].loads = @ + 1]
  /\ page' = [page EXCEPT ![a] = [Filled(@, Snapshot) EXCEPT !.draft = NoText, !.pending = {}]]
  /\ creation' = [creation EXCEPT ![a] = NoCreation]
  /\ confirmed' = [confirmed EXCEPT ![a] = {}]
  /\ UNCHANGED <<log, rooms, request>>

\* The effect on the locale fills the page from the snapshot it was loaded with.
SwitchLanguage(a) ==
  /\ MayTurn(a) /\ bounds' = [bounds EXCEPT ![a].switches = @ + 1]
  /\ page' = [page EXCEPT ![a] = Filled(@, page[a].loaded)]
  /\ confirmed' = [confirmed EXCEPT ![a] = {}]
  /\ UNCHANGED <<log, rooms, request, creation>>

ComposerNext ==
  \E a \in Actors :
       \/ Type(a) \/ SubmitMessage(a) \/ LoadPage(a) \/ SwitchLanguage(a)
       \/ AskForRoom(a) \/ RoomMade(a) \/ RoomRefused(a)
       \/ \E r \in Rooms : OpenRoom(a, r) \/ MakeRoom(a, r)
       \/ \E k \in Mutations :
            Store(a, k) \/ Refuse(a, k) \/ Vanish(a, k) \/ Confirm(a, k) \/ FailMessage(a, k)

ComposerSpec == ComposerInit /\ [][ComposerNext]_composerVars

---------------------------------------------------------------------------
(* Properties.                                                             *)

\* However replies, late requests, room changes and turns interleave, a page shows
\* each message once, in its room and in the order of the room; and the room that is
\* open is one of those it lists.
ShownInServerOrder ==
  \A a \in Actors :
    /\ \A r \in Rooms :
         LET shown == page[a].shown[r]
         IN /\ Elements(shown) \subseteq {r} \X DOMAIN log[r]
            /\ \A i, j \in DOMAIN shown : i < j => shown[i][2] < shown[j][2]
    /\ Listed(page[a].rooms, page[a].active)

\* What the page held when it was loaded, and every message it was told is stored,
\* stay on it, until it is loaded again or its language is changed.
ConfirmedStaysShown ==
  \A a \in Actors :
    /\ \A c \in confirmed[a] : c \in Elements(page[a].shown[c[1]])
    /\ \A r \in Rooms : Elements(page[a].loaded.shown[r]) \subseteq Elements(page[a].shown[r])

\* docs/en-US/realtime-collaboration.md:87, failures "preserve the draft", and
\* docs/en-US/internationalization.md:53, changing language must not "clear a draft": but
\* for a reload, the box goes empty only on a message the room has stored.
BoxEmptiedByStoredMessage ==
  [][\A a \in Actors :
       page[a].draft # NoText /\ page'[a].draft = NoText
         => \/ bounds'[a].loads # bounds[a].loads
            \/ \E k \in page[a].pending : /\ k \notin page'[a].pending
                                          /\ Room(request[a][k].room)!Stored(a, k)]_composerVars

\* docs/en-US/realtime-collaboration.md:15, "Client retries are idempotent and cannot
\* create duplicate messages": a text that is sent again is stored once.
TextStoredOnce ==
  \A r \in Rooms, i, j \in Mutations :
    LET TextAt(p) == request[log[r][p][1]][log[r][p][2]].text
    IN i < j /\ j <= Len(log[r]) /\ log[r][i][1] = log[r][j][1] => TextAt(i) # TextAt(j)
=============================================================================
