--------------------------- MODULE RoomMessagesProofs ---------------------------
(***************************************************************************)
(* For any authors, mutation ids, requests and page size: sequences have no *)
(* gap, every answer names the stored message, the unique indexes are never *)
(* met, the transactions implement MessageLog, and pages fit together.      *)
(*                                                                         *)
(* The argument: from LockRoom to its end an append holds the room row, so   *)
(* lastSequence and the messages stay what it has read until it commits.    *)
(***************************************************************************)
EXTENDS RoomMessages, FiniteSetTheorems, SequenceTheorems, WellFoundedInduction, TLAPS

\* What a request is about, in each phase.
CallOK(q) ==
  /\ q.phase = "idle" => q.op = "none"
  /\ q.phase # "idle" => q.op \in {"append", "list"} /\ q.author \in Actors
  /\ q.phase # "idle" /\ q.op = "append" => q.mutation \in Mutations
  /\ q.phase \in {"lock", "check", "write", "commit"} => q.op = "append"
  /\ q.phase = "page" => q.op = "list"

CallsOK == \A r \in Requests : CallOK(req[r])

LockHeld == \A r \in Requests : req[r].phase \in {"check", "write", "commit"} => lock = r

Unknown(q) == \A m \in messages : ~SameMutation(m, q)

FoundIn(q) == \E m \in messages : q.rows = {m} /\ SameMutation(m, q)

\* What an append has read still holds.
ReadOK(q) ==
  /\ q.phase \in {"check", "write"} => q.sequence = room.lastSequence + 1
  /\ q.phase = "write" => Unknown(q)
  /\ q.phase = "commit" =>
       \/ FoundIn(q)
       \/ q.sequence = room.lastSequence + 1 /\ q.rows = {NewMessage(q)} /\ Unknown(q)
  /\ q.phase = "ended" /\ q.op = "append" /\ q.error = "none" => FoundIn(q)
  /\ q.phase \in {"write", "commit"} => ~Closed(room.status)

ReadsOK == \A r \in Requests : ReadOK(req[r])

Numbered ==
  /\ IsFiniteSet(messages)
  /\ SequencesGapFree
  /\ \A m, n \in messages : m.sequence = n.sequence \/ SameMutation(m, n) => m = n

AnswersOK ==
  \A x \in answers : /\ x.message \in messages
                     /\ x.message.author = x.author
                     /\ x.message.mutation = x.mutation

IInv ==
  /\ TypeOK
  /\ CallsOK
  /\ LockHeld
  /\ ReadsOK
  /\ Numbered
  /\ AnswersOK
  /\ IndexesNeverRefuse

---------------------------------------------------------------------------
(* Pages as sets of messages.                                              *)

LEMMA OldestExists ==
  ASSUME NEW rows \in SUBSET Message, rows # {}
  PROVE  /\ Oldest(rows) \in Nat
         /\ \E m \in rows : m.sequence = Oldest(rows)
         /\ \A m \in rows : Oldest(rows) <= m.sequence
<1> DEFINE T == {m.sequence : m \in rows}
<1>1. T \subseteq Nat /\ T # {}
  BY DEF Message
<1>2. PICK x \in T : \A y \in T : ~ (<<y, x>> \in OpToRel(<, Nat))
  BY <1>1, NatLessThanWellFounded, WFMin
<1>3. \A y \in T : ~ (y < x)
  BY <1>1, <1>2 DEF OpToRel
<1>4. \E s \in T : \A m \in rows : s <= m.sequence
  <2>1. \A m \in rows : m.sequence \in T /\ x <= m.sequence
    BY <1>1, <1>3
  <2> QED BY <2>1
<1>5. Oldest(rows) \in T /\ \A m \in rows : Oldest(rows) <= m.sequence
  BY <1>4 DEF Oldest
<1> QED BY <1>1, <1>5

LEMMA TurnedType ==
  ASSUME NEW q \in Request,
         NEW reading \in [cursor : Nat, pages : Seq(SUBSET Message), done : BOOLEAN]
  PROVE  Turned(reading, q) \in [cursor : Nat, pages : Seq(SUBSET Message), done : BOOLEAN]
<1>1. q.rows \in SUBSET Message /\ q.more \in BOOLEAN
  BY DEF Request
<1>2. q.rows # {} => Oldest(q.rows) \in Nat
  BY <1>1, OldestExists
<1>3. <<q.rows>> \o reading.pages \in Seq(SUBSET Message)
  BY <1>1, ConcatProperties
<1> QED BY <1>1, <1>2, <1>3 DEF Turned

---------------------------------------------------------------------------
(* The initial states.                                                     *)

THEOREM InitIInv == Init => IInv
<1> SUFFICES ASSUME Init PROVE IInv
  OBVIOUS
<1> USE DEF Init
<1>1. IdleRequest \in Request
  BY DEF IdleRequest, Request, Phases, Errors
<1>2. TypeOK
  BY <1>1 DEF TypeOK, RoomStatus
<1>3. CallsOK /\ LockHeld /\ ReadsOK /\ IndexesNeverRefuse
  BY DEF CallsOK, CallOK, LockHeld, ReadsOK, ReadOK, IdleRequest, IndexesNeverRefuse
<1>4. Numbered
  <2>1. CommittedSequences = 1..room.lastSequence
    BY DEF CommittedSequences
  <2> QED BY <2>1, FS_EmptySet DEF Numbered, SequencesGapFree
<1>5. AnswersOK
  BY DEF AnswersOK
<1> QED BY <1>2, <1>3, <1>4, <1>5 DEF IInv

---------------------------------------------------------------------------
(* Steps that write nothing: they change one request and may free the row. *)

LEMMA StoredKept ==
  ASSUME IInv, UNCHANGED <<messages, room, answers>>
  PROVE  Numbered' /\ AnswersOK'
BY DEF IInv, Numbered, SequencesGapFree, CommittedSequences, SameMutation, AnswersOK

\* A request that reads may move on as long as it stays right itself.
LEMMA QuietStep ==
  ASSUME IInv, NEW r \in Requests, NEW q \in Request,
         UNCHANGED <<stored, answers>>,
         req' = [req EXCEPT ![r] = q],
         lock' \in {lock, Unlocked(r), r} /\ lock' \in Requests \union {Nobody},
         lock' = r => lock \in {r, Nobody},
         reader' \in [Actors -> [cursor : Nat, pages : Seq(SUBSET Message), done : BOOLEAN]],
         CallOK(q), ReadOK(q), q.error # "unique_violation",
         q.phase \in {"check", "write", "commit"} => lock' = r
  PROVE  IInv'
<1> USE DEF IInv
<1>1. UNCHANGED <<room, roomMembership, messages, answers>>
  BY DEF stored
<1>2. TypeOK'
  BY <1>1 DEF TypeOK
<1>3. CallsOK'
  BY DEF CallsOK, TypeOK, CallOK
<1>4. LockHeld'
  BY RoomAssumption DEF LockHeld, TypeOK, Unlocked
<1>5. ReadsOK'
  <2> SUFFICES ASSUME NEW s \in Requests PROVE ReadOK(req[s])'
    BY DEF ReadsOK
  <2>1. req'[s] = IF s = r THEN q ELSE req[s]
    BY DEF TypeOK
  <2>2. ReadOK(req'[s])
    BY <2>1 DEF ReadsOK
  <2> QED BY <2>2, <1>1 DEF ReadOK, Unknown, FoundIn, SameMutation, NewMessage
<1>6. Numbered' /\ AnswersOK'
  BY <1>1, StoredKept
<1>7. IndexesNeverRefuse'
  BY DEF IndexesNeverRefuse, TypeOK
<1> QED BY <1>2, <1>3, <1>4, <1>5, <1>6, <1>7

LEMMA RequestField ==
  ASSUME IInv, NEW r \in Requests
  PROVE  /\ req[r] \in Request /\ CallOK(req[r]) /\ ReadOK(req[r])
         /\ req[r].error # "unique_violation"
         /\ Nobody \notin Requests
BY RoomAssumption DEF IInv, TypeOK, CallsOK, ReadsOK, IndexesNeverRefuse

LEMMA Begins ==
  ASSUME IInv, NEW r \in Requests, BeginAppend(r) \/ BeginList(r)
  PROVE  IInv'
<1>0. UNCHANGED <<stored, lock, answers, reader>> /\ req[r].phase = "idle"
  BY DEF BeginAppend, BeginList, clients
<1>1. PICK q \in Request : req' = [req EXCEPT ![r] = q] /\ q.phase = "member" /\ CallOK(q)
                          /\ q.error = "none"
  <2>1. CASE BeginAppend(r)
    <3>1. PICK a \in Actors, k \in Mutations : req' = [req EXCEPT ![r] = AskAppend(a, k)]
      BY <2>1 DEF BeginAppend
    <3>2. AskAppend(a, k) \in Request /\ CallOK(AskAppend(a, k))
      BY DEF AskAppend, IdleRequest, Request, Phases, Errors, CallOK
    <3> QED BY <3>1, <3>2 DEF AskAppend, IdleRequest
  <2>2. CASE BeginList(r)
    <3>1. PICK a \in Actors : req' = [req EXCEPT ![r] = AskList(a)]
      BY <2>2 DEF BeginList
    <3>2. reader[a].cursor \in Nat
      BY DEF IInv, TypeOK
    <3>3. AskList(a) \in Request /\ CallOK(AskList(a))
      BY <3>2 DEF AskList, IdleRequest, Request, Phases, Errors, CallOK
    <3> QED BY <3>1, <3>3 DEF AskList, IdleRequest
  <2> QED BY <2>1, <2>2
<1>2. ReadOK(q)
  BY <1>1 DEF ReadOK
<1>3. lock' \in Requests \union {Nobody} /\ (lock' = r => lock \in {r, Nobody})
      /\ reader' \in [Actors -> [cursor : Nat, pages : Seq(SUBSET Message), done : BOOLEAN]]
  BY <1>0 DEF IInv, TypeOK
<1> QED BY <1>0, <1>1, <1>2, <1>3, QuietStep

LEMMA Ends ==
  ASSUME IInv, NEW r \in Requests, req[r].phase # "idle",
         \/ \E error \in Errors \ {"none", "unique_violation"} : Rollback(r, error)
         \/ Crash(r)
         \/ Lose(r)
  PROVE  IInv'
<1>0. UNCHANGED <<stored, answers, reader>> /\ lock' \in {lock, Unlocked(r)}
  BY DEF Rollback, Crash, Lose, clients
<1>1. PICK q \in Request : /\ req' = [req EXCEPT ![r] = q]
                          /\ CallOK(q) /\ ReadOK(q) /\ q.error # "unique_violation"
                          /\ q.phase \in {"idle", "ended"}
  <2>1. CASE \E error \in Errors \ {"none", "unique_violation"} : Rollback(r, error)
    <3>1. PICK error \in Errors \ {"none", "unique_violation"} : Rollback(r, error)
      BY <2>1
    <3> DEFINE q == [req[r] EXCEPT !.phase = "ended", !.error = error]
    <3>2. req' = [req EXCEPT ![r] = q]
      BY <3>1 DEF Rollback, IInv, TypeOK
    <3>3. q \in Request /\ q.phase = "ended" /\ q.error = error /\ q.op = req[r].op
          /\ q.author = req[r].author /\ q.mutation = req[r].mutation
      BY RequestField DEF Request, Phases
    <3>4. CallOK(q) /\ ReadOK(q)
      BY <3>3, RequestField DEF CallOK, ReadOK
    <3> QED BY <3>2, <3>3, <3>4
  <2>2. CASE Crash(r) \/ Lose(r)
    <3>1. req' = [req EXCEPT ![r] = IdleRequest]
      BY <2>2 DEF Crash, Lose
    <3>2. IdleRequest \in Request /\ CallOK(IdleRequest) /\ ReadOK(IdleRequest)
      BY DEF IdleRequest, Request, Phases, Errors, CallOK, ReadOK
    <3> QED BY <3>1, <3>2 DEF IdleRequest
  <2> QED BY <2>1, <2>2
<1>3. lock' \in Requests \union {Nobody} /\ (lock' = r => lock \in {r, Nobody})
      /\ reader' \in [Actors -> [cursor : Nat, pages : Seq(SUBSET Message), done : BOOLEAN]]
  BY <1>0, RequestField DEF IInv, TypeOK, Unlocked
<1> QED BY <1>0, <1>1, <1>3, QuietStep

LEMMA Moves ==
  ASSUME IInv, NEW r \in Requests, NEW q \in Request,
         UNCHANGED <<stored, clients>>, req' = [req EXCEPT ![r] = q],
         q.op = req[r].op, q.author = req[r].author, q.mutation = req[r].mutation,
         q.error = req[r].error, req[r].phase # "idle", q.phase # "idle",
         q.phase \in {"lock", "check", "write", "commit"} => q.op = "append",
         q.phase = "page" => q.op = "list",
         ReadOK(q),
         \/ lock' = lock /\ (q.phase \in {"check", "write", "commit"} => lock = r)
         \/ lock' = r /\ lock \in {r, Nobody}
  PROVE  IInv'
<1>1. CallOK(q) /\ q.error # "unique_violation"
  BY RequestField DEF CallOK
<1>2. lock' \in Requests \union {Nobody} /\ (lock' = r => lock \in {r, Nobody})
      /\ reader' \in [Actors -> [cursor : Nat, pages : Seq(SUBSET Message), done : BOOLEAN]]
      /\ UNCHANGED answers
  BY RequestField DEF IInv, TypeOK, clients
<1> QED BY <1>1, <1>2, QuietStep

LEMMA CheckMemberKeeps ==
  ASSUME IInv, NEW r \in Requests, CheckMember(r)
  PROVE  IInv'
<1>1. CASE roomMembership[req[r].author] # "active"
  <2>1. Rollback(r, "access_denied") /\ req[r].phase # "idle"
    BY <1>1 DEF CheckMember
  <2> QED BY <2>1, Ends DEF Errors
<1>2. CASE roomMembership[req[r].author] = "active"
  <2> DEFINE q == [req[r] EXCEPT !.phase = IF req[r].op = "list" THEN "page" ELSE "lock"]
  <2>1. req' = [req EXCEPT ![r] = q] /\ UNCHANGED <<stored, lock, clients>>
        /\ req[r].phase = "member"
    BY <1>2 DEF CheckMember, IInv, TypeOK
  <2>2. q \in Request /\ q.op = req[r].op /\ q.author = req[r].author
        /\ q.mutation = req[r].mutation /\ q.error = req[r].error
        /\ q.phase \in {"page", "lock"} /\ (q.phase = "page" <=> q.op = "list")
    BY RequestField DEF Request, Phases
  <2>3. req[r].op \in {"append", "list"} /\ ReadOK(q)
    BY <2>1, <2>2, RequestField DEF CallOK, ReadOK
  <2> QED BY <2>1, <2>2, <2>3, Moves
<1> QED BY <1>1, <1>2

LEMMA LockRoomKeeps ==
  ASSUME IInv, NEW r \in Requests, LockRoom(r)
  PROVE  IInv'
<1> DEFINE q == [req[r] EXCEPT !.phase = "check", !.sequence = NextSequence]
<1>1. req' = [req EXCEPT ![r] = q] /\ UNCHANGED <<stored, clients>>
      /\ req[r].phase = "lock" /\ lock' = r /\ lock \in {r, Nobody}
  BY DEF LockRoom, ForUpdate, IInv, TypeOK
<1>2. NextSequence = room.lastSequence + 1 /\ NextSequence \in Nat
  BY DEF NextSequence, IInv, TypeOK
<1>3. q \in Request /\ q.op = req[r].op /\ q.author = req[r].author
      /\ q.mutation = req[r].mutation /\ q.error = req[r].error
      /\ q.phase = "check" /\ q.sequence = NextSequence
  BY <1>2, RequestField DEF Request, Phases
<1>4. ReadOK(q) /\ q.op = "append"
  BY <1>1, <1>2, <1>3, RequestField DEF ReadOK, CallOK
<1> QED BY <1>1, <1>3, <1>4, Moves

LEMMA FindExistingKeeps ==
  ASSUME IInv, NEW r \in Requests, FindExisting(r)
  PROVE  IInv'
<1> DEFINE existing == {m \in messages : SameMutation(m, req[r])}
           q == [req[r] EXCEPT !.rows = existing,
                               !.phase = IF existing = {} THEN "write" ELSE "commit"]
<1>1. CASE Closed(room.status)
  <2>1. Rollback(r, "conflict") /\ req[r].phase # "idle"
    BY <1>1 DEF FindExisting
  <2> QED BY <2>1, Ends DEF Errors
<1>2. CASE ~Closed(room.status)
  <2>1. req' = [req EXCEPT ![r] = q] /\ UNCHANGED <<stored, lock, clients>>
        /\ req[r].phase = "check" /\ lock = r
    BY <1>2 DEF FindExisting, IInv, TypeOK, LockHeld
  <2>2. existing \in SUBSET Message
    BY DEF IInv, TypeOK
  <2>3. q \in Request /\ q.op = req[r].op /\ q.author = req[r].author
        /\ q.mutation = req[r].mutation /\ q.error = req[r].error
        /\ q.sequence = req[r].sequence
        /\ q.rows = existing /\ q.phase = IF existing = {} THEN "write" ELSE "commit"
    BY <2>2, RequestField DEF Request, Phases
  <2>4. q.op = "append" /\ q.sequence = room.lastSequence + 1
    BY <2>1, <2>3, RequestField DEF ReadOK, CallOK
  <2>5. existing # {} => FoundIn(q)
    <3> SUFFICES ASSUME NEW m \in existing PROVE FoundIn(q)
      OBVIOUS
    <3>1. \A n \in existing : n = m
      BY DEF IInv, Numbered, SameMutation
    <3>2. existing = {m} /\ m \in messages
      BY <3>1
    <3> QED BY <2>3, <3>2 DEF FoundIn, SameMutation
  <2>6. existing = {} => Unknown(q)
    BY <2>3 DEF Unknown, SameMutation
  <2> HIDE DEF q, existing
  <2>7. ReadOK(q)
    <3>1. CASE existing = {}
      BY <1>2, <2>3, <2>4, <2>6, <3>1 DEF ReadOK
    <3>2. CASE existing # {}
      BY <1>2, <2>3, <2>5, <3>2 DEF ReadOK
    <3> QED BY <3>1, <3>2
  <2>8. q.phase \in {"write", "commit"}
    BY <2>3
  <2> QED BY <2>1, <2>3, <2>4, <2>7, <2>8, Moves
<1> QED BY <1>1, <1>2

LEMMA WriteKeeps ==
  ASSUME IInv, NEW r \in Requests, Write(r)
  PROVE  IInv'
<1> DEFINE new == NewMessage(req[r])
           q == [req[r] EXCEPT !.phase = "commit", !.rows = {new}]
<1>1. /\ req[r].phase = "write" /\ req[r].op = "append" /\ lock = r /\ ~Closed(room.status)
      /\ req[r].sequence = room.lastSequence + 1 /\ Unknown(req[r])
      /\ req[r].author \in Actors /\ req[r].mutation \in Mutations
  BY RequestField DEF Write, IInv, LockHeld, ReadOK, CallOK
<1>2. room.lastSequence \in Nat /\ new.sequence = room.lastSequence + 1
      /\ new.author = req[r].author /\ new.mutation = req[r].mutation /\ new \in Message
  BY <1>1 DEF NewMessage, Message, IInv, TypeOK
<1>3. \A n \in messages : n.sequence \in 1..room.lastSequence
  BY DEF IInv, Numbered, SequencesGapFree, CommittedSequences
<1>4. ~BreaksIndex(new)
  BY <1>1, <1>2, <1>3 DEF BreaksIndex, Unknown, SameMutation
<1>5. req' = [req EXCEPT ![r] = q] /\ UNCHANGED <<stored, clients>> /\ lock' = r
  BY <1>4 DEF Write, IInv, TypeOK
<1>6. q \in Request /\ q.op = req[r].op /\ q.author = req[r].author
      /\ q.mutation = req[r].mutation /\ q.error = req[r].error
      /\ q.sequence = req[r].sequence /\ q.rows = {new} /\ q.phase = "commit"
  BY <1>2, RequestField DEF Request, Phases
<1>7. NewMessage(q) = new /\ Unknown(q)
  BY <1>1, <1>6 DEF NewMessage, Unknown, SameMutation
<1>8. ReadOK(q)
  BY <1>1, <1>6, <1>7 DEF ReadOK
<1> QED BY <1>1, <1>5, <1>6, <1>8, Moves

LEMMA ReadPageKeeps ==
  ASSUME IInv, NEW r \in Requests, ReadPage(r)
  PROVE  IInv'
<1> DEFINE q == [req[r] EXCEPT !.phase = "ended", !.rows = Page(req[r].before),
                               !.more = HasMore(req[r].before)]
<1>1. req' = [req EXCEPT ![r] = q] /\ UNCHANGED <<stored, lock, clients>>
      /\ req[r].phase = "page" /\ req[r].op = "list"
  BY RequestField DEF ReadPage, IInv, TypeOK, CallOK
<1>2. Page(req[r].before) \in SUBSET Message /\ HasMore(req[r].before) \in BOOLEAN
  BY DEF Page, HasMore, IInv, TypeOK
<1>3. q \in Request /\ q.op = req[r].op /\ q.author = req[r].author
      /\ q.mutation = req[r].mutation /\ q.error = req[r].error /\ q.phase = "ended"
  BY <1>2, RequestField DEF Request, Phases
<1>4. ReadOK(q)
  BY <1>1, <1>3 DEF ReadOK
<1> QED BY <1>1, <1>3, <1>4, Moves

---------------------------------------------------------------------------
(* Steps that change what is stored or answered.                           *)

\* What a commit does: either nothing is new, or the message after all others is.
LEMMA Committed ==
  ASSUME IInv, NEW r \in Requests, Commit(r)
  PROVE  \/ UNCHANGED <<messages, room>> /\ FoundIn(req[r])
         \/ LET new == NewMessage(req[r]) IN
            /\ new \in Message /\ new.sequence = room.lastSequence + 1
            /\ new.author = req[r].author /\ new.mutation = req[r].mutation
            /\ req[r].rows = {new} /\ Unknown(req[r])
            /\ messages' = messages \union {new}
            /\ room' = [room EXCEPT !.lastSequence = room.lastSequence + 1]
<1>1. room \in [status : RoomStatus, lastSequence : Nat] /\ messages \subseteq Message
  BY DEF IInv, TypeOK
<1>2. req[r].phase = "commit" /\ req[r].op = "append"
      /\ req[r].author \in Actors /\ req[r].mutation \in Mutations
  BY RequestField DEF Commit, CallOK
<1>3. messages' = messages \union req[r].rows
      /\ room' = [room EXCEPT !.lastSequence = SequenceAfter(req[r])]
  BY DEF Commit
<1>4. CASE FoundIn(req[r])
  <2>1. req[r].rows \subseteq messages
    BY <1>4 DEF FoundIn
  <2>2. SequenceAfter(req[r]) = room.lastSequence
    BY <2>1 DEF SequenceAfter
  <2> QED BY <1>1, <1>3, <1>4, <2>1, <2>2
<1>5. CASE /\ req[r].sequence = room.lastSequence + 1
           /\ req[r].rows = {NewMessage(req[r])} /\ Unknown(req[r])
  <2> DEFINE new == NewMessage(req[r])
  <2>1. new \in Message /\ new.sequence = room.lastSequence + 1
        /\ new.author = req[r].author /\ new.mutation = req[r].mutation
    BY <1>1, <1>2, <1>5 DEF NewMessage, Message
  <2>2. new \notin messages
    BY <1>5, <2>1 DEF Unknown, SameMutation
  <2>3. SequenceAfter(req[r]) = room.lastSequence + 1
    BY <1>5, <2>2 DEF SequenceAfter
  <2> QED BY <1>3, <1>5, <2>1, <2>3
<1> QED BY <1>2, <1>4, <1>5, RequestField DEF ReadOK

LEMMA CommitKeeps ==
  ASSUME IInv, NEW r \in Requests, Commit(r)
  PROVE  IInv'
<1> DEFINE q == [req[r] EXCEPT !.phase = "ended"]
           new == NewMessage(req[r])
<1>1. req' = [req EXCEPT ![r] = q] /\ UNCHANGED <<roomMembership, answers, reader>>
      /\ lock = r /\ lock' = Nobody /\ req[r].phase = "commit" /\ req[r].op = "append"
  BY RequestField DEF Commit, IInv, TypeOK, LockHeld, clients, Unlocked, CallOK
<1>2. q \in Request /\ q.op = req[r].op /\ q.author = req[r].author
      /\ q.mutation = req[r].mutation /\ q.error = req[r].error /\ q.rows = req[r].rows
      /\ q.phase = "ended"
  BY RequestField DEF Request, Phases
<1>3. CASE UNCHANGED <<messages, room>> /\ FoundIn(req[r])
  <2>1. ReadOK(q)
    BY <1>2, <1>3 DEF ReadOK, FoundIn, SameMutation
  <2>2. CallOK(q) /\ q.error # "unique_violation"
    BY <1>1, <1>2, RequestField DEF CallOK
  <2>3. UNCHANGED <<stored, answers>> /\ lock' \in {lock, Unlocked(r), r}
        /\ lock' \in Requests \union {Nobody} /\ lock' # r
    BY <1>1, <1>3, RequestField DEF stored, Unlocked
  <2>4. reader' \in [Actors -> [cursor : Nat, pages : Seq(SUBSET Message), done : BOOLEAN]]
    BY <1>1 DEF IInv, TypeOK
  <2> QED BY <1>1, <1>2, <2>1, <2>2, <2>3, <2>4, QuietStep
<1>4. CASE /\ new \in Message /\ new.sequence = room.lastSequence + 1
           /\ new.author = req[r].author /\ new.mutation = req[r].mutation
           /\ req[r].rows = {new} /\ Unknown(req[r])
           /\ messages' = messages \union {new}
           /\ room' = [room EXCEPT !.lastSequence = room.lastSequence + 1]
  <2> HIDE DEF q, new
  <2>0. room \in [status : RoomStatus, lastSequence : Nat] /\ messages \subseteq Message
        /\ req \in [Requests -> Request]
    BY DEF IInv, TypeOK
  <2>1. room'.lastSequence = room.lastSequence + 1 /\ room'.status = room.status
        /\ room' \in [status : RoomStatus, lastSequence : Nat]
    BY <1>4, <2>0
  <2>2. TypeOK'
    BY <1>1, <1>2, <1>4, <2>0, <2>1, RequestField DEF IInv, TypeOK
  <2>3. \A s \in Requests : req'[s] = IF s = r THEN q ELSE req[s]
    BY <1>1, <2>0
  <2>4. CallsOK'
    BY <1>1, <1>2, <2>3, RequestField DEF IInv, CallsOK, CallOK
  <2>5. \A s \in Requests : req'[s].phase \notin {"check", "write", "commit"}
    BY <1>1, <1>2, <2>3 DEF IInv, LockHeld
  <2>6. LockHeld'
    BY <2>5 DEF LockHeld
  <2>7. ReadsOK'
    <3> SUFFICES ASSUME NEW s \in Requests PROVE ReadOK(req[s])'
      BY DEF ReadsOK
    <3>1. CASE s = r
      <4>1. new \in messages' /\ q.rows = {new} /\ new.author = q.author
            /\ new.mutation = q.mutation /\ q.phase = "ended"
        BY <1>2, <1>4
      <4>2. req'[s] = q
        BY <2>3, <3>1
      <4> QED BY <4>1, <4>2 DEF ReadOK, FoundIn, SameMutation
    <3>2. CASE s # r
      <4>1. ReadOK(req[s]) /\ req'[s] = req[s] /\ messages \subseteq messages'
        BY <1>4, <2>3, <3>2 DEF IInv, ReadsOK
      <4> QED BY <2>5, <4>1 DEF ReadOK, FoundIn, SameMutation
    <3> QED BY <3>1, <3>2
  <2>8. Numbered'
    <3>1. CommittedSequences = 1..room.lastSequence /\ IsFiniteSet(messages)
          /\ Cardinality(messages) = room.lastSequence
      BY DEF IInv, Numbered, SequencesGapFree
    <3>2. \A m \in messages : m.sequence \in 1..room.lastSequence
      BY <3>1 DEF CommittedSequences
    <3>3. new \notin messages
      BY <1>4, <2>0, <3>2
    <3>4. IsFiniteSet(messages') /\ Cardinality(messages') = room'.lastSequence
      BY <1>4, <2>1, <3>1, <3>3, FS_AddElement
    <3>5. CommittedSequences' = CommittedSequences \union {new.sequence}
      BY <1>4 DEF CommittedSequences
    <3>6. CommittedSequences' = 1..room'.lastSequence
      BY <1>4, <2>0, <2>1, <3>1, <3>5
    <3>7. \A m \in messages : m.sequence # new.sequence
                              /\ ~SameMutation(m, new) /\ ~SameMutation(new, m)
      BY <1>4, <2>0, <3>2 DEF Unknown, SameMutation
    <3>8. \A m, n \in messages' : m.sequence = n.sequence \/ SameMutation(m, n) => m = n
      BY <1>4, <3>7 DEF IInv, Numbered
    <3> QED BY <3>4, <3>6, <3>8 DEF Numbered, SequencesGapFree, SameMutation
  <2>9. AnswersOK'
    BY <1>1, <1>4 DEF IInv, AnswersOK
  <2>10. IndexesNeverRefuse'
    BY <1>2, <2>3 DEF IInv, IndexesNeverRefuse
  <2> QED BY <2>2, <2>4, <2>6, <2>7, <2>8, <2>9, <2>10 DEF IInv
<1> QED BY <1>3, <1>4, Committed

LEMMA DeliverKeeps ==
  ASSUME IInv, NEW r \in Requests, Deliver(r)
  PROVE  IInv'
<1> DEFINE q == req[r]
<1>1. /\ q.phase = "ended" /\ q.op \in {"append", "list"} /\ q.author \in Actors
      /\ q.op = "append" => q.mutation \in Mutations
      /\ req' = [req EXCEPT ![r] = IdleRequest] /\ UNCHANGED <<stored, lock>>
  BY RequestField DEF Deliver, CallOK
<1>2. UNCHANGED <<room, roomMembership, messages, lock>>
  BY <1>1 DEF stored
<1>3. IdleRequest \in Request /\ CallOK(IdleRequest) /\ ReadOK(IdleRequest)
      /\ IdleRequest.error = "none" /\ IdleRequest.phase = "idle"
  BY DEF IdleRequest, Request, Phases, Errors, CallOK, ReadOK
<1>4. reader' \in [Actors -> [cursor : Nat, pages : Seq(SUBSET Message), done : BOOLEAN]]
  <2>1. Turned(reader[q.author], q)
          \in [cursor : Nat, pages : Seq(SUBSET Message), done : BOOLEAN]
    BY <1>1, RequestField, TurnedType DEF IInv, TypeOK
  <2> QED BY <1>1, <2>1 DEF Deliver, IInv, TypeOK
<1>5. answers' \in SUBSET [author : Actors, mutation : Mutations, message : Message]
      /\ AnswersOK'
  <2>1. CASE q.op = "append" /\ q.error = "none"
    <3>1. PICK m \in messages : q.rows = {m} /\ SameMutation(m, q)
      BY <1>1, <2>1, RequestField DEF ReadOK, FoundIn
    <3>2. answers' = answers
            \union {[author |-> q.author, mutation |-> q.mutation, message |-> m]}
      BY <2>1, <3>1 DEF Deliver, Answer
    <3>3. m \in Message
      BY DEF IInv, TypeOK
    <3>4. answers \subseteq [author : Actors, mutation : Mutations, message : Message]
      BY DEF IInv, TypeOK
    <3>5. \A x \in answers' : x \in [author : Actors, mutation : Mutations, message : Message]
                             /\ x.message \in messages /\ x.message.author = x.author
                             /\ x.message.mutation = x.mutation
      BY <1>1, <2>1, <3>1, <3>2, <3>3, <3>4 DEF IInv, AnswersOK, SameMutation
    <3> QED BY <1>2, <3>5 DEF AnswersOK
  <2>2. CASE ~(q.op = "append" /\ q.error = "none")
    <3>1. answers' = answers
      BY <2>2 DEF Deliver
    <3> QED BY <1>2, <3>1 DEF IInv, TypeOK, AnswersOK
  <2> QED BY <2>1, <2>2
<1>6. TypeOK'
  BY <1>1, <1>2, <1>3, <1>4, <1>5 DEF IInv, TypeOK
<1>7. \A s \in Requests : req'[s] = IF s = r THEN IdleRequest ELSE req[s]
  BY <1>1 DEF IInv, TypeOK
<1>8. CallsOK' /\ LockHeld' /\ IndexesNeverRefuse'
  BY <1>2, <1>3, <1>7 DEF IInv, CallsOK, CallOK, LockHeld, IndexesNeverRefuse
<1>9. ReadsOK'
  <2> SUFFICES ASSUME NEW s \in Requests PROVE ReadOK(req[s])'
    BY DEF ReadsOK
  <2>1. ReadOK(req'[s])
    BY <1>3, <1>7 DEF IInv, ReadsOK
  <2> QED BY <1>2, <2>1 DEF ReadOK, Unknown, FoundIn, SameMutation, NewMessage
<1>10. Numbered'
  BY <1>2 DEF IInv, Numbered, SequencesGapFree, CommittedSequences, SameMutation
<1> QED BY <1>5, <1>6, <1>8, <1>9, <1>10 DEF IInv

LEMMA AdministrationKeeps ==
  ASSUME IInv, ChangeStatus \/ \E a \in Actors : ChangeMembership(a)
  PROVE  IInv'
<1>1. UNCHANGED <<messages, lock, req, answers, reader>>
  BY DEF ChangeStatus, ChangeMembership, clients
<1>2. room'.lastSequence = room.lastSequence
      /\ room' \in [status : RoomStatus, lastSequence : Nat]
  BY RoomAssumption DEF ChangeStatus, ChangeMembership, IInv, TypeOK
<1>3. roomMembership' \in [Actors -> MembershipStatus]
  BY DEF ChangeStatus, ChangeMembership, IInv, TypeOK
<1>4. TypeOK'
  BY <1>1, <1>2, <1>3 DEF IInv, TypeOK
<1>5. CallsOK' /\ LockHeld' /\ IndexesNeverRefuse' /\ AnswersOK'
  BY <1>1 DEF IInv, CallsOK, CallOK, LockHeld, IndexesNeverRefuse, AnswersOK
<1>6. ReadsOK'
  <2>1. room' = room \/ \A r \in Requests : req[r].phase \notin {"check", "write", "commit"}
    BY RoomAssumption DEF ChangeStatus, ChangeMembership, IInv, LockHeld
  <2> SUFFICES ASSUME NEW r \in Requests PROVE ReadOK(req[r])'
    BY DEF ReadsOK
  <2>2. ReadOK(req[r])
    BY RequestField
  <2> QED BY <1>1, <1>2, <2>1, <2>2 DEF ReadOK, Unknown, FoundIn, SameMutation, NewMessage
<1>7. Numbered'
  BY <1>1, <1>2 DEF IInv, Numbered, SequencesGapFree, CommittedSequences, SameMutation
<1> QED BY <1>4, <1>5, <1>6, <1>7 DEF IInv

THEOREM NextIInv == IInv /\ [Next]_vars => IInv'
<1> SUFFICES ASSUME IInv, [Next]_vars PROVE IInv'
  OBVIOUS
<1>1. CASE UNCHANGED vars
  <2>1. UNCHANGED <<room, roomMembership, messages, lock, req, answers, reader>>
    BY <1>1 DEF vars
  <2>2. TypeOK' /\ CallsOK' /\ LockHeld' /\ AnswersOK' /\ IndexesNeverRefuse'
    BY <2>1 DEF IInv, TypeOK, CallsOK, CallOK, LockHeld, AnswersOK, IndexesNeverRefuse
  <2>3. ReadsOK'
    BY <2>1 DEF IInv, ReadsOK, ReadOK, Unknown, FoundIn, SameMutation, NewMessage
  <2>4. Numbered'
    BY <2>1 DEF IInv, Numbered, SequencesGapFree, CommittedSequences, SameMutation
  <2> QED BY <2>2, <2>3, <2>4 DEF IInv
<1>2. ASSUME NEW r \in Requests, BeginAppend(r) \/ BeginList(r) PROVE IInv'
  BY <1>2, Begins
<1>3. ASSUME NEW r \in Requests, Proceed(r) PROVE IInv'
  BY <1>3, CheckMemberKeeps, LockRoomKeeps, FindExistingKeeps, WriteKeeps, CommitKeeps,
     ReadPageKeeps DEF Proceed
<1>4. ASSUME NEW r \in Requests, Crash(r) \/ Lose(r) PROVE IInv'
  BY <1>4, Ends DEF Crash, Lose
<1>5. ASSUME NEW r \in Requests, Deliver(r) PROVE IInv'
  BY <1>5, DeliverKeeps
<1>6. CASE ChangeStatus \/ \E a \in Actors : ChangeMembership(a)
  BY <1>6, AdministrationKeeps
<1> QED BY <1>1, <1>2, <1>3, <1>4, <1>5, <1>6 DEF Next

THEOREM Invariant == Spec => []IInv
BY InitIInv, NextIInv, PTL DEF Spec

\* Every variable keeps its type.
THEOREM TypeCorrect == Spec => []TypeOK
<1>1. IInv => TypeOK
  BY DEF IInv
<1> QED BY Invariant, <1>1, PTL

\* appendMessage: the committed sequences are 1 to lastSequence in every state.
THEOREM GapFree == Spec => []SequencesGapFree
<1>1. IInv => SequencesGapFree
  BY DEF IInv, Numbered
<1> QED BY Invariant, <1>1, PTL

\* appendMessage: what was answered is stored, and all answers to one mutation agree.
THEOREM AnswersAgree == Spec => []AnswersNameTheMessage
<1>1. IInv => AnswersNameTheMessage
  BY DEF IInv, AnswersOK, Numbered, SameMutation, AnswersNameTheMessage
<1> QED BY Invariant, <1>1, PTL

\* appendMessage: under the room lock no insert meets a unique index.
THEOREM NoIndexError == Spec => []IndexesNeverRefuse
<1>1. IInv => IndexesNeverRefuse
  BY DEF IInv
<1> QED BY Invariant, <1>1, PTL

---------------------------------------------------------------------------
(* The refinement of MessageLog.                                           *)

LEMMA EntriesAreMessages ==
  ASSUME IInv
  PROVE  /\ room.lastSequence \in Nat
         /\ \A m \in messages : /\ m.sequence \in 1..room.lastSequence
                               /\ Entry(m.sequence) = <<m.author, m.mutation>>
         /\ \A i \in 1..room.lastSequence : \E m \in messages : m.sequence = i
<1>1. \A m, n \in messages : m.sequence = n.sequence => m = n
  BY DEF IInv, Numbered
<1>2. \A m \in messages : (CHOOSE n \in messages : n.sequence = m.sequence) = m
  BY <1>1
<1> QED BY <1>2 DEF IInv, TypeOK, Numbered, SequencesGapFree, CommittedSequences, Entry

LEMMA InitRefinesLog == Init => Log!Init
BY DEF Init, Log!Init, Entries, Open

LEMMA AppendToFunction ==
  ASSUME NEW n \in Nat, NEW F(_), NEW e
  PROVE  Append([i \in 1..n |-> F(i)], e)
           = [i \in 1..(n + 1) |-> IF i = n + 1 THEN e ELSE F(i)]
OBVIOUS

LEMMA CommitRefinesLog ==
  ASSUME IInv, IInv', NEW r \in Requests, Commit(r)
  PROVE  Log!Next \/ UNCHANGED <<Entries, Open>>
<1> DEFINE new == NewMessage(req[r])
<1>1. CASE UNCHANGED <<messages, room>>
  BY <1>1 DEF Entries, Entry, Open
<1>2. CASE /\ new \in Message /\ new.sequence = room.lastSequence + 1
           /\ new.author = req[r].author /\ new.mutation = req[r].mutation
           /\ req[r].rows = {new} /\ Unknown(req[r])
           /\ messages' = messages \union {new}
           /\ room' = [room EXCEPT !.lastSequence = room.lastSequence + 1]
  <2> DEFINE n == room.lastSequence
             a == req[r].author
             k == req[r].mutation
  <2> HIDE DEF new
  <2>0. n \in Nat /\ room \in [status : RoomStatus, lastSequence : Nat]
        /\ messages \subseteq Message
    BY DEF IInv, TypeOK
  <2>1. room'.lastSequence = n + 1 /\ room'.status = room.status
    BY <1>2, <2>0
  <2>2. a \in Actors /\ k \in Mutations /\ Open
    <3>1. req[r].phase = "commit" /\ ~Closed(room.status)
      BY RequestField DEF Commit, ReadOK
    <3> QED BY <2>0, <3>1, RequestField DEF CallOK, Closed, Open, RoomStatus
  <2>3. \A i \in 1..n : Entries[i] # <<a, k>>
    <3> SUFFICES ASSUME NEW i \in 1..n PROVE Entries[i] # <<a, k>>
      OBVIOUS
    <3>1. PICK m \in messages : m.sequence = i /\ Entry(i) = <<m.author, m.mutation>>
      BY EntriesAreMessages
    <3> QED BY <1>2, <3>1 DEF Entries, Unknown, SameMutation
  <2>4. ~Log!Stored(a, k)
    BY <2>3 DEF Log!Stored, Entries
  <2>5. \A i \in 1..n : Entry(i)' = Entry(i)
    <3> SUFFICES ASSUME NEW i \in 1..n PROVE Entry(i)' = Entry(i)
      OBVIOUS
    <3>1. PICK m \in messages : m.sequence = i /\ Entry(i) = <<m.author, m.mutation>>
      BY EntriesAreMessages
    <3>2. m \in messages' /\ \A l, o \in messages' : l.sequence = o.sequence => l = o
      BY <1>2 DEF IInv, Numbered
    <3>3. (CHOOSE l \in messages' : l.sequence = i) = m
      BY <3>1, <3>2
    <3> QED BY <3>1, <3>3 DEF Entry
  <2>6. ASSUME NEW i \in {n + 1} PROVE Entry(i)' = <<a, k>>
    <3>1. new \in messages' /\ \A l, o \in messages' : l.sequence = o.sequence => l = o
      BY <1>2 DEF IInv, Numbered
    <3>2. (CHOOSE l \in messages' : l.sequence = i) = new
      BY <1>2, <2>6, <3>1
    <3> QED BY <1>2, <3>2 DEF Entry
  <2>7. Entries' = Append(Entries, <<a, k>>)
    <3>1. Entries' = [i \in 1..(n + 1) |-> IF i = n + 1 THEN <<a, k>> ELSE Entry(i)]
      <4>1. Entries' = [i \in 1..(n + 1) |-> Entry(i)']
        <5>1. Entries' = [i \in 1..room'.lastSequence |-> Entry(i)']
          BY DEF Entries
        <5>2. room'.lastSequence = n + 1
          BY <2>1
        <5> QED BY <5>1, <5>2
      <4>2. \A i \in 1..(n + 1) : Entry(i)' = IF i = n + 1 THEN <<a, k>> ELSE Entry(i)
        BY <2>0, <2>5, <2>6
      <4> QED BY <4>1, <4>2
    <3>2. Entries = [i \in 1..n |-> Entry(i)]
      BY DEF Entries
    <3>3. Append([i \in 1..n |-> Entry(i)], <<a, k>>)
            = [i \in 1..(n + 1) |-> IF i = n + 1 THEN <<a, k>> ELSE Entry(i)]
      BY <2>0, AppendToFunction
    <3> QED BY <3>1, <3>2, <3>3
  <2>8. Open' = Open
    BY <2>1 DEF Open
  <2>9. Log!Store(a, k)
    BY <2>2, <2>4, <2>7, <2>8 DEF Log!Store
  <2> QED BY <2>2, <2>9 DEF Log!Next
<1> QED BY <1>1, <1>2, Committed

LEMMA NextRefinesLog ==
  ASSUME IInv, IInv', [Next]_vars
  PROVE  [Log!Next]_<<Entries, Open>>
<1>1. CASE UNCHANGED <<messages, room>>
  BY <1>1 DEF Entries, Entry, Open
<1>2. ASSUME NEW r \in Requests, Commit(r) PROVE [Log!Next]_<<Entries, Open>>
  BY <1>2, CommitRefinesLog
<1>3. CASE ChangeStatus
  <2>1. messages' = messages /\ room'.lastSequence = room.lastSequence
    BY <1>3 DEF ChangeStatus, IInv, TypeOK
  <2>2. Entries' = Entries
    BY <2>1 DEF Entries, Entry
  <2>3. Open' = Open \/ Open' = ~Open
    BY DEF Open
  <2> QED BY <2>2, <2>3 DEF Log!Next, Log!Turn
<1>4. ASSUME NEW r \in Requests,
             \/ BeginAppend(r) \/ BeginList(r) \/ Crash(r) \/ Deliver(r) \/ Lose(r)
             \/ CheckMember(r) \/ LockRoom(r) \/ FindExisting(r) \/ Write(r) \/ ReadPage(r)
      PROVE  UNCHANGED <<messages, room>>
  BY <1>4 DEF BeginAppend, BeginList, Crash, Deliver, Lose, CheckMember, LockRoom,
              FindExisting, Write, ReadPage, Rollback, stored
<1>5. ASSUME NEW a \in Actors, ChangeMembership(a) PROVE UNCHANGED <<messages, room>>
  BY <1>5 DEF ChangeMembership
<1>6. CASE UNCHANGED vars
  BY <1>1, <1>6 DEF vars
<1> QED BY <1>1, <1>2, <1>3, <1>4, <1>5, <1>6 DEF Next, Proceed

\* Whatever interleaves, the transactions are one log that grows at its end.
THEOREM LogImplemented == Spec => ImplementsLog
<1>1. Init => Log!Init
  BY InitRefinesLog
<1>2. IInv /\ IInv' /\ [Next]_vars => [Log!Next]_<<Entries, Open>>
  BY NextRefinesLog
<1> QED BY <1>1, <1>2, Invariant, PTL DEF Spec, ImplementsLog, Log!Spec

---------------------------------------------------------------------------
(* Pages that follow one another.  A page that was read stays right, since   *)
(* every later message comes after all that are stored.                     *)

Collected(pages) == UNION {pages[i] : i \in DOMAIN pages}

\* What a reader has, of the messages ms: everything from its cursor on up to the newest
\* message it has seen.
Reading(g, ms, last) ==
  /\ g.cursor <= last
  /\ g.cursor = 0 => Collected(g.pages) = {}
  /\ Collected(g.pages) \subseteq ms
  /\ \A m \in Collected(g.pages) : g.cursor <= m.sequence
  /\ \A n \in Collected(g.pages), l \in ms :
       g.cursor <= l.sequence /\ l.sequence <= n.sequence => l \in Collected(g.pages)
  /\ g.done => \A n \in Collected(g.pages), l \in ms :
                 l.sequence <= n.sequence => l \in Collected(g.pages)
  /\ \A i, j \in DOMAIN g.pages :
       i < j => \A m \in g.pages[i], n \in g.pages[j] : m.sequence < n.sequence

\* Older than the page's cursor, or not newer than the page.
Within(l, rows, before) == l.sequence < before \/ \E n \in rows : l.sequence <= n.sequence

\* The rows of a page have no gap, and when there is no more nothing before them.
Fitting(rows, more, before, ms) ==
  /\ rows \subseteq ms
  /\ \A m \in rows : InRange(m, before)
  /\ \A m \in rows, l \in ms :
       m.sequence <= l.sequence /\ Within(l, rows, before) => l \in rows
  /\ ~more => \A l \in ms : Within(l, rows, before) => l \in rows

Fetched(q, cursor, ms) ==
  q.op = "list" =>
    /\ q.before = cursor
    /\ q.phase = "ended" /\ q.error = "none" => Fitting(q.rows, q.more, q.before, ms)

OneListEach ==
  \A r, s \in Requests :
    req[r].op = "list" /\ req[s].op = "list" /\ req[r].author = req[s].author => r = s

PagesInv ==
  /\ OneListEach
  /\ \A a \in Actors : Reading(reader[a], messages, room.lastSequence)
  /\ \A r \in Requests : Fetched(req[r], reader[req[r].author].cursor, messages)

\* The newest rows before the cursor fit.
LEMMA PageFits ==
  ASSUME NEW before \in Nat, IsFiniteSet(messages), messages \subseteq Message
  PROVE  Fitting(Page(before), HasMore(before), before, messages)
<1> DEFINE older == {m \in messages : InRange(m, before)}
           newer(m) == {n \in older : n.sequence > m.sequence}
<1>1. older \subseteq messages /\ IsFiniteSet(older) /\ Cardinality(older) \in Nat
  BY FS_Subset, FS_CardinalityType
<1>2. \A m \in messages : m.sequence \in Nat
  BY DEF Message
<1>3. ASSUME NEW m \in messages
      PROVE  newer(m) \in SUBSET older /\ IsFiniteSet(newer(m)) /\ Cardinality(newer(m)) \in Nat
  <2>1. newer(m) \in SUBSET older
    OBVIOUS
  <2> QED BY <1>1, <2>1, FS_Subset, FS_CardinalityType
<1>4. Page(before) = {m \in older : Cardinality(newer(m)) < PageLimit}
  BY DEF Page
<1>5. PageLimit \in Nat \ {0}
  BY RoomAssumption
<1>6. \A l \in messages : Within(l, Page(before), before) => l \in older
  <2> SUFFICES ASSUME NEW l \in messages, Within(l, Page(before), before), before # 0
               PROVE  l.sequence < before
    BY DEF InRange
  <2>1. \A n \in Page(before) : n \in messages /\ n.sequence < before
    BY <1>4 DEF InRange
  <2> QED BY <1>2, <2>1 DEF Within
<1>7. ASSUME NEW m \in Page(before), NEW l \in older, m.sequence <= l.sequence
      PROVE  l \in Page(before)
  <2>1. newer(l) \in SUBSET newer(m)
    BY <1>1, <1>2, <1>4, <1>7
  <2>2. m \in messages /\ Cardinality(newer(m)) < PageLimit
    BY <1>1, <1>4
  <2>3. IsFiniteSet(newer(m)) /\ Cardinality(newer(m)) \in Nat
    BY <1>3, <2>2
  <2>4. Cardinality(newer(l)) <= Cardinality(newer(m)) /\ Cardinality(newer(l)) \in Nat
    BY <1>1, <1>3, <2>1, <2>3, FS_Subset
  <2>5. Cardinality(newer(l)) < PageLimit
    BY <1>5, <2>2, <2>3, <2>4
  <2> QED BY <1>4, <2>5
<1>8. ASSUME ~HasMore(before), NEW l \in older PROVE l \in Page(before)
  <2>1. Cardinality(older) <= PageLimit
    BY <1>1, <1>5, <1>8 DEF HasMore
  <2>2. newer(l) \in SUBSET (older \ {l})
    BY <1>1, <1>2
  <2>3. IsFiniteSet(older \ {l}) /\ Cardinality(older \ {l}) = Cardinality(older) - 1
    BY <1>1, FS_RemoveElement
  <2>4. Cardinality(newer(l)) <= Cardinality(older \ {l}) /\ Cardinality(newer(l)) \in Nat
    BY <1>1, <1>3, <2>2, <2>3, FS_Subset
  <2>5. Cardinality(newer(l)) < PageLimit
    BY <1>1, <1>5, <2>1, <2>3, <2>4
  <2> QED BY <1>4, <2>5
<1> HIDE DEF older, newer
<1>9. Page(before) \subseteq messages /\ \A m \in Page(before) : InRange(m, before)
  BY DEF Page
<1> QED BY <1>6, <1>7, <1>8, <1>9 DEF Fitting

\* A page that fits is put before the others.
LEMMA TurnedReads ==
  ASSUME NEW q \in Request,
         NEW g \in [cursor : Nat, pages : Seq(SUBSET Message), done : BOOLEAN],
         NEW last \in Nat, NEW ms \in SUBSET Message,
         \A m \in ms : m.sequence <= last,
         Reading(g, ms, last), q.before = g.cursor, Fitting(q.rows, q.more, q.before, ms)
  PROVE  Reading(Turned(g, q), ms, last)
<1> DEFINE t == Turned(g, q)
           had == Collected(g.pages)
           has == Collected(t.pages)
<1>1. q.rows \in SUBSET Message /\ q.more \in BOOLEAN /\ q.before \in Nat
  BY DEF Request
<1>2. \A m \in ms : m.sequence \in Nat \ {0}
  BY DEF Message
<1>3. /\ t.pages = <<q.rows>> \o g.pages /\ t.done = ~q.more
      /\ t.cursor = IF q.rows = {} THEN g.cursor ELSE Oldest(q.rows)
  BY DEF Turned
<1>4. /\ DOMAIN t.pages = 1..(Len(g.pages) + 1) /\ DOMAIN g.pages = 1..Len(g.pages)
      /\ Len(g.pages) \in Nat /\ t.pages[1] = q.rows
      /\ \A i \in DOMAIN t.pages : i # 1 => i - 1 \in DOMAIN g.pages /\ t.pages[i] = g.pages[i - 1]
      /\ \A i \in DOMAIN g.pages : i + 1 \in DOMAIN t.pages /\ t.pages[i + 1] = g.pages[i]
  BY <1>1, <1>3
<1>5. has = q.rows \union had
  <2>1. \A i \in DOMAIN t.pages : t.pages[i] \subseteq q.rows \union had
    BY <1>4 DEF Collected
  <2>2. \A i \in DOMAIN g.pages : g.pages[i] \subseteq has
    BY <1>4 DEF Collected
  <2>3. q.rows \subseteq has
    BY <1>4 DEF Collected
  <2> QED BY <2>1, <2>2, <2>3 DEF Collected
<1>6. /\ had \subseteq ms /\ q.rows \subseteq ms /\ has \subseteq ms
      /\ \A m \in had : g.cursor <= m.sequence /\ g.cursor # 0
      /\ \A m \in q.rows : g.cursor = 0 \/ m.sequence < g.cursor
  BY <1>5 DEF Reading, Fitting, InRange
<1>7. \A m \in q.rows, n \in had : m.sequence < n.sequence
  BY <1>2, <1>6
<1>8. /\ t.cursor \in Nat /\ t.cursor <= last /\ (t.cursor = 0 => has = {})
      /\ \A m \in has : t.cursor <= m.sequence
  <2>1. CASE q.rows = {}
    BY <1>3, <1>5, <2>1 DEF Reading
  <2>2. CASE q.rows # {}
    <3>1. /\ t.cursor \in Nat /\ \A m \in q.rows : t.cursor <= m.sequence
          /\ \E m \in q.rows : m.sequence = t.cursor
      BY <1>1, <1>3, <2>2, OldestExists
    <3> QED BY <1>2, <1>5, <1>6, <1>7, <3>1
  <2> QED BY <2>1, <2>2
<1>9. ASSUME NEW n \in has, NEW l \in ms, l.sequence <= n.sequence,
             l.sequence < g.cursor \/ n \in q.rows
      PROVE  Within(l, q.rows, q.before)
  BY <1>9 DEF Within
<1>10. ASSUME NEW n \in has, NEW l \in ms, l.sequence <= n.sequence
       PROVE  \/ Within(l, q.rows, q.before)
              \/ n \in had /\ g.cursor <= l.sequence /\ l \in had
  <2>1. CASE n \in q.rows \/ l.sequence < g.cursor
    BY <1>9, <1>10, <2>1
  <2>2. CASE n \notin q.rows /\ ~(l.sequence < g.cursor)
    BY <1>2, <1>5, <1>10, <2>2 DEF Reading
  <2> QED BY <2>1, <2>2
<1>11. ASSUME NEW n \in has, NEW l \in ms, t.cursor <= l.sequence, l.sequence <= n.sequence
       PROVE  l \in has
  <2>1. CASE q.rows = {}
    BY <1>3, <1>5, <1>11, <2>1 DEF Reading
  <2>2. CASE q.rows # {}
    <3>1. PICK m \in q.rows : m.sequence = t.cursor
      BY <1>1, <1>3, <2>2, OldestExists
    <3>2. Within(l, q.rows, q.before) => l \in q.rows
      BY <1>11, <3>1 DEF Fitting
    <3> QED BY <1>5, <1>10, <1>11, <3>2
  <2> QED BY <2>1, <2>2
<1>12. ASSUME t.done, NEW n \in has, NEW l \in ms, l.sequence <= n.sequence
       PROVE  l \in has
  <2>1. Within(l, q.rows, q.before) => l \in q.rows
    BY <1>3, <1>12 DEF Fitting
  <2> QED BY <1>5, <1>10, <1>12, <2>1
<1>13. ASSUME NEW i \in DOMAIN t.pages, NEW j \in DOMAIN t.pages, i < j,
              NEW m \in t.pages[i], NEW n \in t.pages[j]
       PROVE  m.sequence < n.sequence
  <2>1. j # 1 /\ j - 1 \in DOMAIN g.pages /\ n \in g.pages[j - 1]
    BY <1>4, <1>13
  <2>2. CASE i = 1
    BY <1>4, <1>7, <2>1, <2>2 DEF Collected
  <2>3. CASE i # 1
    <3>1. i - 1 \in DOMAIN g.pages /\ m \in g.pages[i - 1] /\ i - 1 < j - 1
      BY <1>4, <1>13, <2>3
    <3> QED BY <2>1, <3>1 DEF Reading
  <2> QED BY <2>2, <2>3
<1>14. Reading(t, ms, last)
  <2> HIDE DEF t
  <2> QED BY <1>6, <1>8, <1>11, <1>12, <1>13 DEF Reading
<1> QED BY <1>14

\* A message after all others makes nothing that was read wrong.
LEMMA LaterMessages ==
  ASSUME NEW ms \in SUBSET Message, NEW last \in Nat, \A m \in ms : m.sequence <= last,
         NEW new \in Message, new.sequence = last + 1
  PROVE  /\ \A g \in [cursor : Nat, pages : Seq(SUBSET Message), done : BOOLEAN] :
              Reading(g, ms, last) => Reading(g, ms \union {new}, last + 1)
         /\ \A rows, more : \A before \in Nat :
              before <= last /\ Fitting(rows, more, before, ms)
                => Fitting(rows, more, before, ms \union {new})
<1>1. \A m \in ms : m.sequence \in Nat
  BY DEF Message
<1>2. ASSUME NEW g \in [cursor : Nat, pages : Seq(SUBSET Message), done : BOOLEAN],
             Reading(g, ms, last)
      PROVE  Reading(g, ms \union {new}, last + 1)
  <2> DEFINE had == Collected(g.pages)
  <2>1. had \subseteq ms /\ \A n \in had : ~(new.sequence <= n.sequence)
    BY <1>1, <1>2 DEF Reading
  <2> QED BY <1>2, <2>1 DEF Reading
<1>3. ASSUME NEW rows, NEW more, NEW before \in Nat, before <= last,
             Fitting(rows, more, before, ms)
      PROVE  Fitting(rows, more, before, ms \union {new})
  <2>1. rows \subseteq ms
    BY <1>3 DEF Fitting
  <2>2. ~Within(new, rows, before)
    BY <1>1, <1>3, <2>1 DEF Within
  <2> QED BY <1>3, <2>2 DEF Fitting
<1> QED BY <1>2, <1>3

LEMMA PagesStart == Init => PagesInv
<1> SUFFICES ASSUME Init PROVE PagesInv
  OBVIOUS
<1>1. \A r \in Requests : req[r].op = "none"
  BY DEF Init, IdleRequest
<1>2. ASSUME NEW a \in Actors PROVE Reading(reader[a], messages, room.lastSequence)
  <2>1. reader[a] = [cursor |-> 0, pages |-> <<>>, done |-> FALSE]
        /\ messages = {} /\ room.lastSequence = 0
    BY DEF Init
  <2>2. DOMAIN reader[a].pages = {} /\ Collected(reader[a].pages) = {}
    BY <2>1 DEF Collected
  <2> QED BY <2>1, <2>2 DEF Reading
<1> QED BY <1>1, <1>2 DEF PagesInv, OneListEach, Fetched

\* What a stored message's number is.
LEMMA StoredBelow ==
  ASSUME IInv
  PROVE  /\ messages \subseteq Message /\ IsFiniteSet(messages) /\ room.lastSequence \in Nat
         /\ \A m \in messages : m.sequence <= room.lastSequence
BY DEF IInv, TypeOK, Numbered, SequencesGapFree, CommittedSequences

\* One request changes, and neither readers nor messages do.
LEMMA PagesOfOthers ==
  ASSUME IInv, PagesInv, NEW r \in Requests, NEW q, req' = [req EXCEPT ![r] = q],
         UNCHANGED <<room, messages, reader>>,
         q.op = "list" =>
           \A s \in Requests \ {r} : ~(req[s].op = "list" /\ req[s].author = q.author),
         Fetched(q, reader[q.author].cursor, messages)
  PROVE  PagesInv'
<1>1. \A s \in Requests : req'[s] = IF s = r THEN q ELSE req[s]
  BY DEF IInv, TypeOK
<1>2. OneListEach'
  BY <1>1 DEF PagesInv, OneListEach
<1>3. ASSUME NEW s \in Requests
      PROVE  Fetched(req[s], reader[req[s].author].cursor, messages)'
  <2>1. Fetched(req'[s], reader[req'[s].author].cursor, messages)
    BY <1>1 DEF PagesInv
  <2> QED BY <2>1
<1> QED BY <1>2, <1>3 DEF PagesInv

\* The request goes on with the same page in view.
LEMMA PagesOfSame ==
  ASSUME IInv, PagesInv, NEW r \in Requests, NEW q, req' = [req EXCEPT ![r] = q],
         UNCHANGED <<room, messages, reader>>,
         q.op = req[r].op, q.author = req[r].author, q.before = req[r].before,
         q.op = "list" /\ q.phase = "ended" /\ q.error = "none" =>
           Fitting(q.rows, q.more, q.before, messages)
  PROVE  PagesInv'
<1>1. q.op = "list" =>
        \A s \in Requests \ {r} : ~(req[s].op = "list" /\ req[s].author = q.author)
  BY DEF PagesInv, OneListEach
<1>2. Fetched(q, reader[q.author].cursor, messages)
  BY DEF PagesInv, Fetched
<1> QED BY <1>1, <1>2, PagesOfOthers

LEMMA QuietPages ==
  ASSUME IInv, PagesInv, NEW r \in Requests,
         \/ BeginAppend(r) \/ BeginList(r) \/ Crash(r) \/ Lose(r)
         \/ CheckMember(r) \/ LockRoom(r) \/ FindExisting(r) \/ Write(r) \/ ReadPage(r)
  PROVE  PagesInv'
<1>0. req[r] \in Request /\ CallOK(req[r]) /\ req \in [Requests -> Request]
  BY RequestField DEF IInv, TypeOK
<1>1. CASE BeginAppend(r)
  <2>1. PICK a \in Actors, k \in Mutations : req' = [req EXCEPT ![r] = AskAppend(a, k)]
    BY <1>1 DEF BeginAppend
  <2>2. AskAppend(a, k).op = "append" /\ UNCHANGED <<room, messages, reader>>
    BY <1>1 DEF AskAppend, IdleRequest, BeginAppend, stored, clients
  <2> QED BY <2>1, <2>2, PagesOfOthers DEF Fetched
<1>2. CASE BeginList(r)
  <2>1. PICK a \in Actors : /\ req' = [req EXCEPT ![r] = AskList(a)]
                            /\ \A s \in Requests : ~(req[s].op = "list" /\ req[s].author = a)
    BY <1>2 DEF BeginList
  <2>2. /\ AskList(a).author = a /\ AskList(a).phase = "member"
        /\ AskList(a).before = reader[a].cursor /\ UNCHANGED <<room, messages, reader>>
    BY <1>2 DEF AskList, IdleRequest, BeginList, stored, clients
  <2> QED BY <2>1, <2>2, PagesOfOthers DEF Fetched
<1>3. CASE Crash(r) \/ Lose(r)
  <2>1. req' = [req EXCEPT ![r] = IdleRequest] /\ UNCHANGED <<room, messages, reader>>
        /\ IdleRequest.op = "none"
    BY <1>3 DEF Crash, Lose, stored, clients, IdleRequest
  <2> QED BY <2>1, PagesOfOthers DEF Fetched
<1>4. ASSUME NEW error \in Errors \ {"none"}, Rollback(r, error) PROVE PagesInv'
  <2> DEFINE q == [req[r] EXCEPT !.phase = "ended", !.error = error]
  <2>1. req' = [req EXCEPT ![r] = q] /\ UNCHANGED <<room, messages, reader>>
    BY <1>0, <1>4 DEF Rollback, stored, clients
  <2>2. q.op = req[r].op /\ q.author = req[r].author /\ q.before = req[r].before
        /\ q.error # "none"
    BY <1>0 DEF Request
  <2> HIDE DEF q
  <2> QED BY <2>1, <2>2, PagesOfSame
<1>5. ASSUME NEW phase, req' = [req EXCEPT ![r] = [req[r] EXCEPT !.phase = phase]],
             phase # "ended", UNCHANGED <<room, messages, reader>>
      PROVE  PagesInv'
  <2> DEFINE q == [req[r] EXCEPT !.phase = phase]
  <2>1. q.op = req[r].op /\ q.author = req[r].author /\ q.before = req[r].before
        /\ q.phase # "ended"
    BY <1>0, <1>5 DEF Request
  <2> HIDE DEF q
  <2>2. req' = [req EXCEPT ![r] = q]
    BY <1>5 DEF q
  <2> QED BY <1>5, <2>1, <2>2, PagesOfSame
<1>6. CASE CheckMember(r)
  <2>1. CASE roomMembership[req[r].author] # "active"
    BY <1>4, <1>6, <2>1 DEF CheckMember, Errors
  <2>2. CASE roomMembership[req[r].author] = "active"
    <3> DEFINE phase == IF req[r].op = "list" THEN "page" ELSE "lock"
    <3>1. req' = [req EXCEPT ![r] = [req[r] EXCEPT !.phase = phase]]
          /\ UNCHANGED <<room, messages, reader>>
      BY <1>0, <1>6, <2>2 DEF CheckMember, stored, clients
    <3>2. phase # "ended"
      OBVIOUS
    <3> HIDE DEF phase
    <3> QED BY <1>5, <3>1, <3>2
  <2> QED BY <2>1, <2>2
<1>7. ASSUME NEW q, req' = [req EXCEPT ![r] = q], q.op = "append",
             UNCHANGED <<room, messages, reader>>
      PROVE  PagesInv'
  BY <1>7, PagesOfOthers DEF Fetched
<1>8. CASE LockRoom(r)
  <2> DEFINE q == [req[r] EXCEPT !.phase = "check", !.sequence = NextSequence]
  <2>1. req' = [req EXCEPT ![r] = q] /\ UNCHANGED <<room, messages, reader>>
    BY <1>0, <1>8 DEF LockRoom, stored, clients
  <2>2. q.op = "append"
    BY <1>0, <1>8 DEF LockRoom, Request, CallOK
  <2> HIDE DEF q
  <2> QED BY <1>7, <2>1, <2>2
<1>9. CASE FindExisting(r)
  <2>1. CASE Closed(room.status)
    BY <1>4, <1>9, <2>1 DEF FindExisting, Errors
  <2>2. CASE ~Closed(room.status)
    <3> DEFINE existing == {m \in messages : SameMutation(m, req[r])}
               q == [req[r] EXCEPT !.rows = existing,
                                   !.phase = IF existing = {} THEN "write" ELSE "commit"]
    <3>1. req' = [req EXCEPT ![r] = q] /\ UNCHANGED <<room, messages, reader>>
      BY <1>0, <1>9, <2>2 DEF FindExisting, stored, clients
    <3>2. q.op = "append"
      BY <1>0, <1>9 DEF FindExisting, Request, CallOK
    <3> HIDE DEF q
    <3> QED BY <1>7, <3>1, <3>2
  <2> QED BY <2>1, <2>2
<1>10. CASE Write(r)
  <2>1. CASE BreaksIndex(NewMessage(req[r]))
    BY <1>4, <1>10, <2>1 DEF Write, Errors
  <2>2. CASE ~BreaksIndex(NewMessage(req[r]))
    <3> DEFINE q == [req[r] EXCEPT !.phase = "commit", !.rows = {NewMessage(req[r])}]
    <3>1. req' = [req EXCEPT ![r] = q] /\ UNCHANGED <<room, messages, reader>>
      BY <1>0, <1>10, <2>2 DEF Write, stored, clients
    <3>2. q.op = "append"
      BY <1>0, <1>10 DEF Write, Request, CallOK
    <3> HIDE DEF q
    <3> QED BY <1>7, <3>1, <3>2
  <2> QED BY <2>1, <2>2
<1>11. CASE ReadPage(r)
  <2> DEFINE q == [req[r] EXCEPT !.phase = "ended", !.rows = Page(req[r].before),
                                 !.more = HasMore(req[r].before)]
  <2>1. req' = [req EXCEPT ![r] = q] /\ UNCHANGED <<room, messages, reader>>
    BY <1>0, <1>11 DEF ReadPage, stored, clients
  <2>2. /\ q.op = req[r].op /\ q.author = req[r].author /\ q.before = req[r].before
        /\ q.rows = Page(q.before) /\ q.more = HasMore(q.before) /\ q.before \in Nat
    BY <1>0 DEF Request
  <2> HIDE DEF q
  <2>3. Fitting(q.rows, q.more, q.before, messages)
    BY <2>2, StoredBelow, PageFits
  <2> QED BY <2>1, <2>2, <2>3, PagesOfSame
<1> QED BY <1>1, <1>2, <1>3, <1>6, <1>8, <1>9, <1>10, <1>11

LEMMA CommitPages ==
  ASSUME IInv, PagesInv, NEW r \in Requests, Commit(r)
  PROVE  PagesInv'
<1> DEFINE q == [req[r] EXCEPT !.phase = "ended"]
           new == NewMessage(req[r])
<1>0. req[r] \in Request /\ CallOK(req[r]) /\ req \in [Requests -> Request]
      /\ room \in [status : RoomStatus, lastSequence : Nat]
      /\ reader \in [Actors -> [cursor : Nat, pages : Seq(SUBSET Message), done : BOOLEAN]]
  BY RequestField DEF IInv, TypeOK
<1>1. req' = [req EXCEPT ![r] = q] /\ reader' = reader /\ q.op = "append"
  BY <1>0 DEF Commit, clients, Request, CallOK
<1>2. CASE UNCHANGED <<messages, room>>
  <2> HIDE DEF q
  <2> QED BY <1>1, <1>2, PagesOfOthers DEF Fetched
<1>3. CASE /\ new \in Message /\ new.sequence = room.lastSequence + 1
           /\ messages' = messages \union {new}
           /\ room' = [room EXCEPT !.lastSequence = room.lastSequence + 1]
  <2> HIDE DEF q, new
  <2>1. room'.lastSequence = room.lastSequence + 1 /\ room.lastSequence \in Nat
    BY <1>0, <1>3
  <2>2. \A s \in Requests : req'[s] = IF s = r THEN q ELSE req[s]
    BY <1>0, <1>1
  <2>3. OneListEach'
    BY <1>1, <2>2 DEF PagesInv, OneListEach
  <2>4. ASSUME NEW a \in Actors PROVE Reading(reader[a], messages, room.lastSequence)'
    <3>1. Reading(reader[a], messages', room'.lastSequence)
      BY <1>0, <1>3, <2>1, StoredBelow, LaterMessages DEF PagesInv
    <3> QED BY <1>1, <3>1
  <2>5. ASSUME NEW s \in Requests
        PROVE  Fetched(req[s], reader[req[s].author].cursor, messages)'
    <3>1. CASE req'[s].op # "list"
      BY <3>1 DEF Fetched
    <3>2. CASE req'[s].op = "list"
      <4>1. req'[s] = req[s] /\ req[s].op = "list" /\ req[s] \in Request
        BY <1>0, <1>1, <2>2, <3>2
      <4>2. req[s].author \in Actors
        BY <4>1, RequestField DEF CallOK
      <4>3. req[s].before \in Nat /\ req[s].before <= room.lastSequence
            /\ req[s].before = reader[req[s].author].cursor
        BY <4>1, <4>2 DEF PagesInv, Reading, Fetched, Request
      <4>4. \A rows, more : Fitting(rows, more, req[s].before, messages)
                              => Fitting(rows, more, req[s].before, messages')
        BY <1>3, <2>1, <4>3, StoredBelow, LaterMessages
      <4>5. Fetched(req[s], reader[req[s].author].cursor, messages')
        BY <4>4 DEF PagesInv, Fetched
      <4> QED BY <1>1, <4>1, <4>5
    <3> QED BY <3>1, <3>2
  <2> QED BY <2>3, <2>4, <2>5 DEF PagesInv
<1> QED BY <1>2, <1>3, Committed

LEMMA DeliverPages ==
  ASSUME IInv, PagesInv, NEW r \in Requests, Deliver(r)
  PROVE  PagesInv'
<1> DEFINE q == req[r]
<1>0. /\ q \in Request /\ q.author \in Actors /\ q.phase = "ended" /\ req \in [Requests -> Request]
      /\ reader \in [Actors -> [cursor : Nat, pages : Seq(SUBSET Message), done : BOOLEAN]]
  BY RequestField DEF Deliver, CallOK, IInv, TypeOK
<1>1. /\ req' = [req EXCEPT ![r] = IdleRequest] /\ UNCHANGED <<room, messages>>
      /\ IdleRequest.op = "none"
  BY DEF Deliver, stored, IdleRequest
<1>2. CASE ~(q.op = "list" /\ q.error = "none")
  <2>1. reader' = reader
    BY <1>2 DEF Deliver
  <2> QED BY <1>1, <2>1, PagesOfOthers DEF Fetched
<1>3. CASE q.op = "list" /\ q.error = "none"
  <2>1. reader' = [reader EXCEPT ![q.author] = Turned(reader[q.author], q)]
    BY <1>0, <1>3 DEF Deliver
  <2>2. \A s \in Requests : req'[s] = IF s = r THEN IdleRequest ELSE req[s]
    BY <1>0, <1>1
  <2>3. OneListEach'
    BY <1>1, <2>2 DEF PagesInv, OneListEach
  <2>4. Reading(Turned(reader[q.author], q), messages, room.lastSequence)
    <3>1. q.before = reader[q.author].cursor /\ Fitting(q.rows, q.more, q.before, messages)
          /\ Reading(reader[q.author], messages, room.lastSequence)
      BY <1>0, <1>3 DEF PagesInv, Fetched
    <3> HIDE DEF q
    <3> QED BY <1>0, <3>1, StoredBelow, TurnedReads
  <2>5. ASSUME NEW a \in Actors PROVE Reading(reader[a], messages, room.lastSequence)'
    <3>1. reader'[a] = IF a = q.author THEN Turned(reader[q.author], q) ELSE reader[a]
      BY <1>0, <2>1
    <3>2. Reading(reader'[a], messages, room.lastSequence)
      BY <2>4, <3>1 DEF PagesInv
    <3> QED BY <1>1, <3>2
  <2>6. ASSUME NEW s \in Requests
        PROVE  Fetched(req[s], reader[req[s].author].cursor, messages)'
    <3>1. CASE s = r \/ req[s].op # "list"
      BY <1>1, <2>2, <3>1 DEF Fetched
    <3>2. CASE s # r /\ req[s].op = "list"
      <4>1. req'[s] = req[s] /\ req[s].author # q.author
        BY <1>3, <2>2, <3>2 DEF PagesInv, OneListEach
      <4>2. reader'[req[s].author] = reader[req[s].author]
        BY <1>0, <2>1, <4>1
      <4>3. Fetched(req[s], reader[req[s].author].cursor, messages)
        BY DEF PagesInv
      <4> QED BY <1>1, <4>1, <4>2, <4>3
    <3> QED BY <3>1, <3>2
  <2> QED BY <2>3, <2>5, <2>6 DEF PagesInv
<1> QED BY <1>2, <1>3

LEMMA PagesStep == IInv /\ PagesInv /\ [Next]_vars => PagesInv'
<1> SUFFICES ASSUME IInv, PagesInv, [Next]_vars PROVE PagesInv'
  OBVIOUS
<1>1. ASSUME UNCHANGED <<messages, req, reader>>, room'.lastSequence = room.lastSequence
      PROVE  PagesInv'
  BY <1>1 DEF PagesInv, OneListEach
<1>2. CASE ChangeStatus \/ \E a \in Actors : ChangeMembership(a)
  <2>1. UNCHANGED <<messages, req, reader>> /\ room'.lastSequence = room.lastSequence
    BY <1>2 DEF ChangeStatus, ChangeMembership, clients, IInv, TypeOK
  <2> QED BY <1>1, <2>1
<1>3. CASE UNCHANGED vars
  BY <1>1, <1>3 DEF vars
<1>4. ASSUME NEW r \in Requests,
             BeginAppend(r) \/ BeginList(r) \/ Proceed(r) \/ Crash(r) \/ Deliver(r) \/ Lose(r)
      PROVE  PagesInv'
  BY <1>4, QuietPages, CommitPages, DeliverPages DEF Proceed
<1> QED BY <1>2, <1>3, <1>4 DEF Next

\* However many messages come between two pages, the pages of a reader follow one another
\* without holes or repeats (listMessages and the cursor it returns).
THEOREM PagesFollow == Spec => []PagesAreContiguous
<1>1. IInv /\ PagesInv => PagesAreContiguous
  <2> SUFFICES ASSUME IInv, PagesInv, NEW a \in Actors
               PROVE  /\ \A i, j \in DOMAIN reader[a].pages :
                           i < j => \A m \in reader[a].pages[i], n \in reader[a].pages[j] :
                                      m.sequence < n.sequence
                      /\ \A m, n \in Seen(a), l \in messages :
                           m.sequence <= l.sequence /\ l.sequence <= n.sequence => l \in Seen(a)
                      /\ reader[a].done =>
                           \A n \in Seen(a), l \in messages :
                             l.sequence <= n.sequence => l \in Seen(a)
    BY DEF PagesAreContiguous
  <2>1. Reading(reader[a], messages, room.lastSequence) /\ Seen(a) = Collected(reader[a].pages)
    BY DEF PagesInv, Seen, Collected
  <2>2. reader[a].cursor \in Nat /\ \A m \in messages : m.sequence \in Nat
    BY DEF IInv, TypeOK, Message
  <2>3. ASSUME NEW m \in Seen(a), NEW l \in messages, m.sequence <= l.sequence
        PROVE  reader[a].cursor <= l.sequence
    <3>1. m \in messages /\ reader[a].cursor <= m.sequence
      BY <2>1 DEF Reading
    <3> QED BY <2>2, <2>3, <3>1
  <2> QED BY <2>1, <2>3 DEF Reading
<1> QED BY <1>1, Invariant, PagesStart, PagesStep, PTL DEF Spec
=============================================================================
