----------------------------- MODULE RoomMessages -----------------------------
(***************************************************************************)
(* The messages of one room: CollaborationRepository.appendMessage and     *)
(* listMessages, each in a read-committed PostgreSQL transaction.          *)
(*                                                                         *)
(* An append checks the author's room membership, then locks the room row, *)
(* and only then looks for a message of the same mutation id and allocates *)
(* the next sequence.  Every SELECT sees what was committed when it ran.   *)
(* A connection may be lost before COMMIT, which undoes the transaction,   *)
(* and a reply may be lost after it, so that a client asks again.          *)
(* Validation of the message parts and tenant isolation are left out.      *)
(***************************************************************************)
EXTENDS Naturals, Sequences, FiniteSets

CONSTANTS
  Actors,         \* authors and readers
  Mutations,      \* client mutation ids
  Requests,       \* requests in flight
  Nobody,         \* no request, no actor and no mutation
  Ops,            \* bound: what the clients ask for
  Sends,          \* bound: the mutation ids that each author draws
  Readers,        \* bound: who pages through the room
  Statuses,       \* bound: the statuses an administrator gives the room
  PageLimit       \* the page size a reader asks for, once clamped to 1..100

RoomStatus == {"active", "waiting", "completed", "archived"}

ASSUME RoomAssumption ==
  /\ Nobody \notin Actors \union Mutations \union Requests
  /\ Ops \subseteq {"append", "list"}
  /\ Statuses \subseteq RoomStatus
  /\ PageLimit \in Nat \ {0}

MembershipStatus == {"active", "left"}
Errors == {"none", "access_denied", "conflict", "unique_violation"}
Phases == {"idle", "member", "lock", "check", "write", "commit", "page", "ended"}

Message == [sequence : Nat \ {0}, author : Actors, mutation : Mutations]

VARIABLES
  room,           \* the committed rooms row: status and lastSequence
  roomMembership, \* committed room_memberships of the room
  messages,       \* committed messages of the room
  lock,           \* the request whose transaction holds the room row, or Nobody
  req,            \* per request: its phase, arguments, local variables, error
  answers,        \* the messages that appends were answered with
  reader          \* per actor: how far it has paged back through the room

vars == <<room, roomMembership, messages, lock, req, answers, reader>>
stored == <<room, roomMembership, messages>>
clients == <<answers, reader>>

---------------------------------------------------------------------------
IdleRequest ==
  [phase |-> "idle", op |-> "none", author |-> Nobody, mutation |-> Nobody, before |-> 0,
   sequence |-> 0, rows |-> {}, more |-> FALSE, error |-> "none"]

AskAppend(a, k) ==
  [IdleRequest EXCEPT !.phase = "member", !.op = "append", !.author = a, !.mutation = k]

AskList(a) ==
  [IdleRequest EXCEPT !.phase = "member", !.op = "list", !.author = a,
                      !.before = reader[a].cursor]

\* Faulty: the author is not part of the key.
SameMutationOfAnyone(m, q) == m.mutation = q.mutation

\* The idempotency key, within one room.
SameMutation(m, q) == m.author = q.author /\ m.mutation = q.mutation

\* Faulty: only archived rooms are closed.
ClosedWhenArchived(status) == status = "archived"

Closed(status) == status \in {"archived", "completed"}

\* Faulty: SELECT without FOR UPDATE.
PlainSelect(r) == UNCHANGED lock

\* FOR UPDATE returns once no other transaction holds the row.
ForUpdate(r) == lock \in {r, Nobody} /\ lock' = r

\* Faulty: the last sequence instead of the one after it.
LastSequence == room.lastSequence

NextSequence == room.lastSequence + 1

\* The unique indexes of messages, and the message an append inserts.
NewMessage(q) == [sequence |-> q.sequence, author |-> q.author, mutation |-> q.mutation]

BreaksIndex(m) == \E n \in messages : n.sequence = m.sequence \/ SameMutation(n, m)

\* Faulty: the sequence is taken before the idempotency check.
SequenceAfterRetry(q) == q.sequence

\* A retry takes no sequence.
SequenceAfter(q) == IF q.rows \subseteq messages THEN room.lastSequence ELSE q.sequence

---------------------------------------------------------------------------
(* Pages.                                                                  *)

\* Faulty: the cursor is part of the next page.
InRangeInclusive(m, before) == before = 0 \/ m.sequence <= before

\* A page holds the messages before the cursor; zero stands for none given.
InRange(m, before) == before = 0 \/ m.sequence < before

\* The newest PageLimit of them.
Page(before) ==
  LET older == {m \in messages : InRange(m, before)}
  IN {m \in older : Cardinality({n \in older : n.sequence > m.sequence}) < PageLimit}

HasMore(before) == Cardinality({m \in messages : InRange(m, before)}) > PageLimit

Oldest(rows) == CHOOSE s \in {m.sequence : m \in rows} : \A m \in rows : s <= m.sequence

---------------------------------------------------------------------------
(* Steps of a request.                                                     *)

Init ==
  /\ room = [status |-> "active", lastSequence |-> 0]
  /\ roomMembership \in [Actors -> MembershipStatus]
  /\ messages = {}
  /\ lock = Nobody
  /\ req = [r \in Requests |-> IdleRequest]
  /\ answers = {}
  /\ reader = [a \in Actors |-> [cursor |-> 0, pages |-> <<>>, done |-> FALSE]]

\* A session user appends a message, possibly with a mutation id used before.
BeginAppend(r) ==
  /\ "append" \in Ops
  /\ req[r].phase = "idle"
  /\ \E a \in Actors, k \in Mutations :
       /\ <<a, k>> \in Sends
       /\ req' = [req EXCEPT ![r] = AskAppend(a, k)]
  /\ UNCHANGED <<stored, lock, clients>>

\* A reader asks for one page at a time until a page says it was the last.
BeginList(r) ==
  /\ "list" \in Ops
  /\ req[r].phase = "idle"
  /\ \E a \in Actors :
       /\ a \in Readers /\ ~reader[a].done
       /\ \A s \in Requests : ~(req[s].op = "list" /\ req[s].author = a)
       /\ req' = [req EXCEPT ![r] = AskList(a)]
  /\ UNCHANGED <<stored, lock, clients>>

\* Faulty: a refused append leaves its transaction open.
StillLocked(r) == lock

Unlocked(r) == IF lock = r THEN Nobody ELSE lock

\* The transaction ends without a trace.
Rollback(r, error) ==
  /\ req' = [req EXCEPT ![r].phase = "ended", ![r].error = error]
  /\ lock' = Unlocked(r)
  /\ UNCHANGED <<stored, clients>>

\* requireActiveRoomMember
CheckMember(r) ==
  /\ req[r].phase = "member"
  /\ IF roomMembership[req[r].author] # "active"
     THEN Rollback(r, "access_denied")
     ELSE /\ req' = [req EXCEPT ![r].phase = IF req[r].op = "list" THEN "page" ELSE "lock"]
          /\ UNCHANGED <<stored, lock, clients>>

\* The room row is locked and read as last committed.
LockRoom(r) ==
  /\ req[r].phase = "lock"
  /\ ForUpdate(r)
  /\ req' = [req EXCEPT ![r].phase = "check", ![r].sequence = NextSequence]
  /\ UNCHANGED <<stored, clients>>

\* Unless the room is closed, a message of the same mutation is the answer,
\* and where there is none one is written.
FindExisting(r) ==
  /\ req[r].phase = "check"
  /\ LET existing == {m \in messages : SameMutation(m, req[r])}
     IN IF Closed(room.status)
        THEN Rollback(r, "conflict")
        ELSE /\ req' = [req EXCEPT ![r].rows = existing,
                                   ![r].phase = IF existing = {} THEN "write" ELSE "commit"]
             /\ UNCHANGED <<stored, lock, clients>>

\* UPDATE rooms (which needs the row lock), then INSERT INTO messages.
Write(r) ==
  /\ req[r].phase = "write"
  /\ lock \in {r, Nobody}
  /\ IF BreaksIndex(NewMessage(req[r]))
     THEN Rollback(r, "unique_violation")
     ELSE /\ lock' = r
          /\ req' = [req EXCEPT ![r].phase = "commit", ![r].rows = {NewMessage(req[r])}]
          /\ UNCHANGED <<stored, clients>>

Commit(r) ==
  /\ req[r].phase = "commit"
  /\ messages' = messages \union req[r].rows
  /\ room' = [room EXCEPT !.lastSequence = SequenceAfter(req[r])]
  /\ lock' = Unlocked(r)
  /\ req' = [req EXCEPT ![r].phase = "ended"]
  /\ UNCHANGED <<roomMembership, clients>>

\* listMessages reads one page more one row.
ReadPage(r) ==
  /\ req[r].phase = "page"
  /\ req' = [req EXCEPT ![r].phase = "ended", ![r].rows = Page(req[r].before),
                        ![r].more = HasMore(req[r].before)]
  /\ UNCHANGED <<stored, lock, clients>>

\* The connection or the process is lost before COMMIT.
Crash(r) ==
  /\ req[r].phase \notin {"idle", "ended"}
  /\ req' = [req EXCEPT ![r] = IdleRequest]
  /\ lock' = Unlocked(r)
  /\ UNCHANGED <<stored, clients>>

---------------------------------------------------------------------------
(* Replies.                                                                *)

Answer(q) == {[author |-> q.author, mutation |-> q.mutation, message |-> m] : m \in q.rows}

\* The reader puts the page before what it has; a page without a cursor is the last.
Turned(reading, q) ==
  [cursor |-> IF q.rows = {} THEN reading.cursor ELSE Oldest(q.rows),
   pages |-> <<q.rows>> \o reading.pages,
   done |-> ~q.more]

Deliver(r) ==
  /\ req[r].phase = "ended"
  /\ answers' = IF req[r].op = "append" /\ req[r].error = "none"
                THEN answers \union Answer(req[r]) ELSE answers
  /\ reader' = IF req[r].op = "list" /\ req[r].error = "none"
               THEN [reader EXCEPT ![req[r].author] = Turned(@, req[r])] ELSE reader
  /\ req' = [req EXCEPT ![r] = IdleRequest]
  /\ UNCHANGED <<stored, lock>>

\* The reply is lost; the client does not know what happened.
Lose(r) ==
  /\ req[r].phase = "ended"
  /\ req' = [req EXCEPT ![r] = IdleRequest]
  /\ UNCHANGED <<stored, lock, clients>>

---------------------------------------------------------------------------
(* Rows of the room that others change.                                    *)

\* addRoomMember, or an administrator's update: memberships change without the room lock.
ChangeMembership(a) ==
  /\ \E s \in MembershipStatus : roomMembership' = [roomMembership EXCEPT ![a] = s]
  /\ UNCHANGED <<room, messages, lock, req, clients>>

\* An administrator's update of the status, which needs the row lock.
ChangeStatus ==
  /\ lock = Nobody
  /\ \E s \in Statuses : room' = [room EXCEPT !.status = s]
  /\ UNCHANGED <<roomMembership, messages, lock, req, clients>>

Proceed(r) ==
  CheckMember(r) \/ LockRoom(r) \/ FindExisting(r) \/ Write(r) \/ Commit(r) \/ ReadPage(r)

Next ==
  \/ \E r \in Requests :
       BeginAppend(r) \/ BeginList(r) \/ Proceed(r) \/ Crash(r) \/ Deliver(r) \/ Lose(r)
  \/ \E a \in Actors : ChangeMembership(a)
  \/ ChangeStatus

Spec == Init /\ [][Next]_vars

\* PostgreSQL queues the waiters of a row lock, so none waits for ever.
FairSpec ==
  /\ Spec
  /\ \A r \in Requests : WF_vars(Proceed(r)) /\ SF_vars(LockRoom(r))

---------------------------------------------------------------------------
(* Properties.                                                             *)

Request ==
  [phase : Phases, op : {"none", "append", "list"}, author : Actors \union {Nobody},
   mutation : Mutations \union {Nobody}, before : Nat, sequence : Nat,
   rows : SUBSET Message, more : BOOLEAN, error : Errors]

\* Every variable has its type; a stored sequence is positive.
TypeOK ==
  /\ room \in [status : RoomStatus, lastSequence : Nat]
  /\ roomMembership \in [Actors -> MembershipStatus]
  /\ messages \subseteq Message
  /\ lock \in Requests \union {Nobody}
  /\ req \in [Requests -> Request]
  /\ answers \subseteq [author : Actors, mutation : Mutations, message : Message]
  /\ reader \in [Actors -> [cursor : Nat, pages : Seq(SUBSET Message), done : BOOLEAN]]

CommittedSequences == {m.sequence : m \in messages}

\* Whatever appends, retries and crashes interleave, the committed sequences are
\* 1 to lastSequence: none is skipped and none is given twice.
SequencesGapFree ==
  /\ CommittedSequences = 1..room.lastSequence
  /\ Cardinality(messages) = room.lastSequence

\* An append that was answered stays stored, and every answer to one mutation
\* of an author, retries included, names the same message.
AnswersNameTheMessage ==
  /\ \A x \in answers :
       /\ x.message \in messages
       /\ x.message.author = x.author
       /\ x.message.mutation = x.mutation
  /\ \A x, y \in answers :
       x.author = y.author /\ x.mutation = y.mutation => x.message = y.message

\* Concurrent appends of one mutation never meet the unique indexes: the room
\* lock has the later one find the message of the earlier.
IndexesNeverRefuse == \A r \in Requests : req[r].error # "unique_violation"

\* The messages a reader has collected.
Seen(a) == UNION {reader[a].pages[i] : i \in DOMAIN reader[a].pages}

\* While others append, the pages a reader collects follow one another: no message
\* comes twice or out of order, none between two of them is missing, and once it is
\* told that there is no further page it has every message from the first one on.
PagesAreContiguous ==
  \A a \in Actors :
    /\ \A i, j \in DOMAIN reader[a].pages :
         i < j => \A m \in reader[a].pages[i], n \in reader[a].pages[j] :
                    m.sequence < n.sequence
    /\ \A m, n \in Seen(a), l \in messages :
         m.sequence <= l.sequence /\ l.sequence <= n.sequence => l \in Seen(a)
    /\ reader[a].done =>
         \A n \in Seen(a), l \in messages : l.sequence <= n.sequence => l \in Seen(a)

\* The committed rows as an abstract log.
Entry(i) == LET m == CHOOSE n \in messages : n.sequence = i IN <<m.author, m.mutation>>
Entries == [i \in 1..room.lastSequence |-> Entry(i)]
Open == room.status \in {"active", "waiting"}

\* The transactions implement a log that takes one message at a time, each mutation
\* once, and none while the room is closed.
Log == INSTANCE MessageLog WITH log <- Entries, open <- Open
ImplementsLog == Log!Spec

\* Every request is answered, turned away or lost with its connection.
RequestsEnd ==
  \A r \in Requests :
    req[r].phase \notin {"idle", "ended"} ~> req[r].phase \in {"idle", "ended"}

\* docs/en-US/realtime-collaboration.md:81, the unique constraint "returns the existing
\* message for retries": a retry by a member of what is stored is not refused.
RetryReturnsStoredMessage ==
  \A r \in Requests :
    req[r].op = "append" /\ req[r].error = "conflict"
      => ~\E m \in messages : SameMutation(m, req[r])
=============================================================================
