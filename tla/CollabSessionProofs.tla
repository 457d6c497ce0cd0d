------------------------- MODULE CollabSessionProofs -------------------------
(* The limit of the document, the ownership of client ids and the access   *)
(* of writers hold for any number of connections, actors, client ids,      *)
(* authorization versions and any size limit.                              *)
(*                                                                         *)
(* What makes the first two inductive is that a message past the lock is   *)
(* the only one: it holds the lock until it has been applied, so what was  *)
(* measured or compared when it entered still holds when it is applied.    *)
EXTENDS CollabSession, FiniteSetTheorems, TLAPS

\* A message, at any phase.
Handling ==
  [phase : Phases, kind : {"none", "update", "token", "presence", "absence"},
   client : Clients \union {0}]

\* The parts of TypeOK the steps need, in the form the provers read.
Typed ==
  /\ state \in [Connections -> ConnectionStates]
  /\ message \in [Connections -> Handling]
  /\ queue \in Seq(Connections)
  /\ size \in Nat
  /\ clients \in [Connections -> SUBSET (Clients \union {0})]
  /\ readOnly \subseteq Connections

Entered(c) == message[c].phase \in {"locked", "checked"}

\* A message past the lock holds it.
EnteredHoldsLock == \A c \in Connections : Entered(c) => Holder(c)

\* What was measured still fits.
MeasuredFits ==
  /\ size <= MaxDocument
  /\ \A c \in Connections :
       message[c].phase = "checked" /\ message[c].kind = "update" /\ c \notin readOnly
         => size + 1 <= MaxDocument

\* Only open connections own client ids, and only they have messages of their own to come.
ClosedOwnNothing ==
  \A c \in Connections :
    /\ state[c] # "open" => clients[c] = {}
    /\ state[c] = "opening" => message[c].phase = "none"

Alone(k, c) == \A d \in Connections \ {c} : k \notin clients[d]

\* Nobody else owns the client of a message that was compared.
ComparedIsFree ==
  \A c \in Connections :
    Entered(c) /\ message[c].kind = "presence" /\ c \in Open
      => clients[c] \subseteq {message[c].client} /\ Alone(message[c].client, c)

OneEach ==
  \A c \in Connections :
    /\ \A k \in clients[c] : Alone(k, c)
    /\ \A k, j \in clients[c] : k = j

LockInv == Typed /\ EnteredHoldsLock /\ MeasuredFits /\ ClosedOwnNothing
             /\ ComparedIsFree /\ OneEach

\* A grant that writes comes from a writer's ticket and a writer's last answer, and a
\* connection that may write has such a grant.
GrantTyped(c) ==
  /\ grant[c].actor \in Actors
  /\ grant[c].ticket \in DOMAIN rights[grant[c].actor]
  /\ grant[c].version \in DOMAIN rights[grant[c].actor]

GrantInv ==
  /\ rights \in [Actors -> Seq(Rights)]
  /\ grant \in [Connections -> [actor : Actors \union {"nobody"}, ticket : Nat,
                                version : Nat, access : Access]]
  /\ message \in [Connections -> Handling]
  /\ \A c \in Connections :
       /\ \/ GrantTyped(c)
          \/ grant[c].ticket = 0 /\ message[c].phase = "none" /\ state[c] = "closed"
       /\ GrantTyped(c) /\ grant[c].access = "write"
            => /\ rights[grant[c].actor][grant[c].ticket] = "write"
               /\ rights[grant[c].actor][grant[c].version] = "write"
       /\ c \notin readOnly /\ GrantTyped(c) => grant[c].access = "write"

USE DEF Handling

---------------------------------------------------------------------------
(* The lock.                                                               *)

\* Giving the lock back takes it from nobody else.
LEMMA ReleaseKeepsOthers ==
  ASSUME NEW c \in Connections, queue \in Seq(Connections)
  PROVE  /\ Released(c) \in Seq(Connections)
         /\ \A d \in Connections \ {c} : Holder(d) => Released(c) = queue
BY DEF Released, Holder

\* Joining the queue takes the lock from nobody.
LEMMA AppendKeepsHolder ==
  ASSUME NEW c \in Connections, queue \in Seq(Connections)
  PROVE  /\ Append(queue, c) \in Seq(Connections)
         /\ \A d \in Connections :
              Holder(d) => Append(queue, c) # <<>> /\ Head(Append(queue, c)) = d
BY DEF Holder

\* A step in which no message enters, nobody opens and nothing is written keeps it all.
LEMMA QuietStep ==
  ASSUME LockInv, Typed', size' = size,
         \A d \in Connections :
           /\ clients'[d] \subseteq clients[d]
           /\ state'[d] = state[d] \/ (state'[d] = "closed" /\ clients'[d] = {})
           /\ message'[d] = message[d] \/ ~Entered(d)'
           /\ message[d].phase = "none" => message'[d].phase = "none" \/ state[d] = "open"
           /\ Entered(d)' => (d \in readOnly' <=> d \in readOnly)
           /\ Entered(d)' /\ Holder(d) => Holder(d)'
  PROVE  LockInv'
<1>1. EnteredHoldsLock'
  BY DEF LockInv, EnteredHoldsLock, Entered
<1>2. MeasuredFits'
  BY DEF LockInv, MeasuredFits, Entered
<1>3. ClosedOwnNothing'
  BY DEF LockInv, ClosedOwnNothing, Typed
<1>4. ComparedIsFree'
  BY DEF LockInv, ComparedIsFree, Entered, Alone, Open
<1>5. OneEach'
  BY DEF LockInv, OneEach, Alone
<1> QED
  BY <1>1, <1>2, <1>3, <1>4, <1>5 DEF LockInv

LEMMA LockInit == Init => LockInv
<1> SUFFICES ASSUME Init PROVE LockInv
  OBVIOUS
<1>1. Typed
  BY DEF Init, Typed, ConnectionStates, Phases, NoMessage
<1>2. \A c \in Connections : ~Entered(c) /\ state[c] = "closed" /\ clients[c] = {}
  BY DEF Init, Entered, NoMessage
<1>3. MeasuredFits
  BY <1>2, SessionAssumption DEF Init, MeasuredFits, Entered
<1> QED
  BY <1>1, <1>2, <1>3
  DEF LockInv, EnteredHoldsLock, ClosedOwnNothing, ComparedIsFree, OneEach

\* Whoever leaves owns nothing any more.
LEMMA LeaveShrinks ==
  ASSUME Typed, NEW S \in SUBSET Connections, Leave(S)
  PROVE  /\ state' \in [Connections -> ConnectionStates]
         /\ clients' \in [Connections -> SUBSET (Clients \union {0})]
         /\ \A d \in Connections :
              /\ clients'[d] \subseteq clients[d]
              /\ state'[d] = state[d] \/ (state'[d] = "closed" /\ clients'[d] = {})
BY DEF Typed, Leave, ConnectionStates

\* What happens around the messages.
LEMMA Surroundings ==
  ASSUME LockInv,
         \/ \E a \in Actors, x \in Rights : ChangeRights(a, x)
         \/ Revocation
         \/ \E k \in Clients : Fade(k)
  PROVE  LockInv'
<1> USE DEF LockInv
<1>1. CASE \E a \in Actors, x \in Rights : ChangeRights(a, x)
  <2>1. Typed'
    BY <1>1 DEF ChangeRights, Typed, session, document
  <2> QED
    BY <1>1, <2>1, QuietStep DEF ChangeRights, Entered, Holder, session, document
<1>2. CASE Revocation
  <2>1. Open \in SUBSET Connections
    BY DEF Open
  <2>2. Typed'
    BY <1>2, <2>1, LeaveShrinks DEF Revocation, Typed
  <2> QED
    BY <1>2, <2>1, <2>2, QuietStep, LeaveShrinks DEF Revocation, Entered, Holder
<1>3. CASE \E k \in Clients : Fade(k)
  <2>1. Typed'
    BY <1>3 DEF Fade, Typed, session
  <2> QED
    BY <1>3, <2>1, QuietStep DEF Fade, Entered, Holder, session
<1> QED
  BY <1>1, <1>2, <1>3

\* A message that has not entered, or enters no more, and the steps around it.
LEMMA QuietActions ==
  ASSUME LockInv, NEW c \in Connections,
         \/ Disconnect(c)
         \/ \E m \in Messages : Receive(c, m)
         \/ \E v \in Versions(c) : Revalidate(c, v) \/ TokenSync(c, v)
         \/ Refuse(c)
         \/ CheckFails(c)
         \/ After(c)
         \/ TokenRefused(c)
  PROVE  LockInv'
<1> USE DEF LockInv
<1>1. CASE Disconnect(c)
  <2>1. {c} \in SUBSET Connections
    OBVIOUS
  <2>2. Typed'
    BY <1>1, <2>1, LeaveShrinks DEF Disconnect, Typed
  <2> QED
    BY <1>1, <2>1, <2>2, QuietStep, LeaveShrinks DEF Disconnect, Entered, Holder
<1>2. CASE \E m \in Messages : Receive(c, m)
  <2>1. PICK m \in Messages : Receive(c, m)
    BY <1>2
  <2>2. /\ m \in Handling
        /\ m.phase = "received"
    BY DEF Messages, Sync, Awareness, Phases
  <2>3. Typed'
    BY <2>1, <2>2 DEF Receive, Typed, session, document
  <2> QED
    BY <2>1, <2>2, <2>3, QuietStep DEF Receive, Typed, Entered, Holder, Open, session, document
<1>3. CASE \E v \in Versions(c) : Revalidate(c, v)
  <2>1. PICK v \in Versions(c) : Revalidate(c, v)
    BY <1>3
  <2>2. /\ \A d \in Connections \ {c} : d \in readOnly' <=> d \in readOnly
        /\ readOnly' \subseteq Connections
    BY <2>1 DEF Revalidate, ReadOnlyAfter, Typed
  <2>3. \/ /\ message' = [message EXCEPT ![c].phase = "unlocked"]
           /\ queue' = queue
        \/ /\ message' = [message EXCEPT ![c].phase = "waiting"]
           /\ queue' = Append(queue, c)
    BY <2>1 DEF Revalidate
  <2>4. \A d \in Connections : Holder(d) => Holder(d)'
    BY <2>3, AppendKeepsHolder DEF Typed, Holder
  <2>5. size' = size /\ clients' = clients /\ state' = state
    BY <2>1 DEF Revalidate, document
  <2>6. queue' \in Seq(Connections)
    BY <2>3, AppendKeepsHolder DEF Typed
  <2>7. Typed'
    <3>1. message' \in [Connections -> Handling]
      BY <2>3 DEF Typed, Phases
    <3> QED
      BY <2>2, <2>5, <2>6, <3>1 DEF Typed
  <2>8. /\ message[c].phase = "received"
        /\ ~Entered(c)'
        /\ \A d \in Connections \ {c} : message'[d] = message[d]
    BY <2>1, <2>3 DEF Revalidate, Typed, Entered
  <2> QED
    BY <2>2, <2>4, <2>5, <2>7, <2>8, QuietStep
<1>4. CASE \E v \in Versions(c) : TokenSync(c, v)
  <2>1. PICK v \in Versions(c) : TokenSync(c, v)
    BY <1>4
  <2>2. /\ \A d \in Connections \ {c} : d \in readOnly' <=> d \in readOnly
        /\ readOnly' \subseteq Connections
    BY <2>1 DEF TokenSync, ReadOnlyAfter, Typed
  <2>3. /\ message[c].phase = "unlocked"
        /\ ~Entered(c)'
        /\ \A d \in Connections \ {c} : message'[d] = message[d]
    BY <2>1 DEF TokenSync, Typed, Entered
  <2>4. Typed'
    BY <2>1, <2>2 DEF TokenSync, Typed, Phases, document
  <2>5. /\ size' = size /\ clients' = clients /\ state' = state
        /\ queue' = queue
    BY <2>1 DEF TokenSync, document
  <2> QED
    BY <2>2, <2>3, <2>4, <2>5, QuietStep DEF Holder
<1>5. CASE Refuse(c) \/ CheckFails(c) \/ TokenRefused(c)
  <2>1. /\ Leave({c}) /\ {c} \in SUBSET Connections
        /\ UNCHANGED <<readOnly, queue, size>>
        /\ message[c].phase # "none"
    BY <1>5 DEF Refuse, CheckFails, TokenRefused
  <2>2. /\ message' \in [Connections -> Handling]
        /\ ~Entered(c)'
        /\ \A d \in Connections \ {c} : message'[d] = message[d]
    BY <1>5 DEF Refuse, CheckFails, TokenRefused, Typed, Phases, NoMessage, Entered
  <2>3. Typed'
    BY <2>1, <2>2, LeaveShrinks DEF Typed
  <2> QED
    BY <2>1, <2>2, <2>3, QuietStep, LeaveShrinks DEF Holder
<1>6. CASE After(c)
  <2>1. Released(c) \in Seq(Connections)
    BY ReleaseKeepsOthers DEF Typed
  <2>2. Typed'
    BY <1>6, <2>1 DEF After, Typed, Phases, NoMessage, session, document
  <2>3. /\ ~Entered(c)' /\ message[c].phase = "done"
        /\ \A d \in Connections \ {c} : message'[d] = message[d]
    BY <1>6 DEF After, Typed, Entered, NoMessage
  <2>4. \A d \in Connections \ {c} : Holder(d) => Holder(d)'
    BY <1>6, ReleaseKeepsOthers DEF After, Typed, Holder
  <2>5. UNCHANGED <<state, readOnly, size, clients>>
    BY <1>6 DEF After, session, document
  <2> QED
    BY <2>2, <2>3, <2>4, <2>5, QuietStep
<1> QED
  BY <1>1, <1>2, <1>3, <1>4, <1>5, <1>6

\* Who connects has no message yet and owns nothing.
LEMMA ConnectKeeps ==
  ASSUME LockInv, NEW c \in Connections,
         Establish(c) \/ \E a \in Actors : \E v \in DOMAIN rights[a] : Authenticate(c, a, v)
  PROVE  LockInv'
<1> USE DEF LockInv
<1>1. /\ message[c].phase = "none" /\ clients[c] = {}
      /\ state[c] # "open"
      /\ state' \in [Connections -> ConnectionStates]
      /\ \A d \in Connections \ {c} : state'[d] = state[d]
      /\ UNCHANGED <<message, queue, document>>
      /\ readOnly' \subseteq Connections
      /\ \A d \in Connections \ {c} : d \in readOnly' <=> d \in readOnly
  BY DEF Establish, Authenticate, ReadOnlyAfter, NoMessage, ClosedOwnNothing, Typed,
         ConnectionStates, document
<1>2. Typed'
  BY <1>1 DEF Typed, document
<1>3. EnteredHoldsLock'
  BY <1>1 DEF EnteredHoldsLock, Entered, Holder
<1>4. MeasuredFits'
  BY <1>1 DEF MeasuredFits, document
<1>5. ClosedOwnNothing'
  BY <1>1 DEF ClosedOwnNothing, document
<1>6. ComparedIsFree'
  BY <1>1 DEF ComparedIsFree, Entered, Alone, Open, document
<1>7. OneEach'
  BY <1>1 DEF OneEach, Alone, document
<1> QED
  BY <1>2, <1>3, <1>4, <1>5, <1>6, <1>7

\* A message enters: what it shows has been compared with what everybody owns.
LEMMA AcquireKeeps ==
  ASSUME LockInv, NEW c \in Connections, Acquire(c)
  PROVE  LockInv'
<1> USE DEF LockInv
<1>1. Holder(c) /\ message[c].phase = "waiting"
  BY DEF Acquire, MayEnter
<1>2. CASE OfAwareness(c) /\ ~MayPresent(c, message[c].client, message[c].kind)
  <2>1. /\ Leave({c}) /\ {c} \in SUBSET Connections
        /\ UNCHANGED <<readOnly, size>>
        /\ message' = [message EXCEPT ![c] = NoMessage]
        /\ queue' = Released(c)
    BY <1>2 DEF Acquire, AfterMismatch
  <2>2. queue' \in Seq(Connections)
    BY <2>1, ReleaseKeepsOthers DEF Typed
  <2>3. Typed'
    BY <2>1, <2>2, LeaveShrinks DEF Typed, Phases, NoMessage
  <2>4. /\ ~Entered(c)' /\ message'[c].phase = "none"
        /\ \A d \in Connections \ {c} : message'[d] = message[d]
    BY <2>1 DEF Typed, Entered, NoMessage
  <2>5. \A d \in Connections \ {c} : Holder(d) => Holder(d)'
    BY <2>1, ReleaseKeepsOthers DEF Typed, Holder
  <2> QED
    BY <2>1, <2>3, <2>4, <2>5, QuietStep, LeaveShrinks
<1>3. CASE ~(OfAwareness(c) /\ ~MayPresent(c, message[c].client, message[c].kind))
  <2>1. /\ message' = [message EXCEPT ![c].phase = "locked"]
        /\ UNCHANGED <<session, queue, document>>
    BY <1>3 DEF Acquire
  <2>2. Typed'
    BY <2>1 DEF Typed, Phases, session, document
  <2>3. EnteredHoldsLock'
    BY <1>1, <2>1 DEF EnteredHoldsLock, Entered, Holder, Typed
  <2>4. MeasuredFits'
    BY <2>1 DEF MeasuredFits, Typed, session, document
  <2>5. ClosedOwnNothing'
    BY <1>1, <2>1 DEF ClosedOwnNothing, Typed, session, document
  <2>6. message[c].kind = "presence"
          => clients[c] \subseteq {message[c].client} /\ Alone(message[c].client, c)
    BY <1>3 DEF OfAwareness, MayPresent, Alone, ClosedOwnNothing, Typed
  <2>7. ComparedIsFree'
    BY <2>1, <2>6 DEF ComparedIsFree, Entered, Alone, Open, Typed, session, document
  <2>8. OneEach'
    BY <2>1 DEF OneEach, Alone, document
  <2> QED
    BY <2>2, <2>3, <2>4, <2>5, <2>7, <2>8
<1> QED
  BY <1>2, <1>3

\* An update is checked against the size it will be added to.
LEMMA CheckKeeps ==
  ASSUME LockInv, NEW c \in Connections, Check(c)
  PROVE  LockInv'
<1> USE DEF LockInv
<1>1. /\ message[c].phase = "locked" /\ ~TooLarge(c)
      /\ message' = [message EXCEPT ![c].phase = "checked"]
      /\ UNCHANGED <<session, queue, document>>
  BY DEF Check, AfterCheck
<1>2. Typed'
  BY <1>1 DEF Typed, Phases, session, document
<1>3. EnteredHoldsLock'
  BY <1>1 DEF EnteredHoldsLock, Entered, Holder, Typed
<1>4. MeasuredFits'
  BY <1>1, SessionAssumption DEF MeasuredFits, TooLarge, Typed, session, document
<1>5. ClosedOwnNothing'
  BY <1>1 DEF ClosedOwnNothing, Typed, session, document
<1>6. ComparedIsFree'
  BY <1>1 DEF ComparedIsFree, Entered, Alone, Open, Typed, session, document
<1>7. OneEach'
  BY <1>1 DEF OneEach, Alone, document
<1> QED
  BY <1>2, <1>3, <1>4, <1>5, <1>6, <1>7

\* What is applied was measured or compared under the lock, and nobody else entered.
LEMMA ApplyKeeps ==
  ASSUME LockInv, NEW c \in Connections, Apply(c)
  PROVE  LockInv'
<1> USE DEF LockInv
<1>1. /\ message[c].phase = "checked"
      /\ message' = [message EXCEPT ![c].phase = "done"]
      /\ UNCHANGED <<session, queue>>
  BY DEF Apply
<1>2. \A d \in Connections \ {c} : ~Entered(d)
  BY <1>1 DEF EnteredHoldsLock, Entered, Holder
<1>3. \A d \in Connections : ~Entered(d)'
  BY <1>1, <1>2 DEF Entered, Typed
<1>4. \A d \in Connections \ {c} : clients'[d] = clients[d]
  BY DEF Apply, Typed
<1>5. \/ clients'[c] \subseteq clients[c]
      \/ /\ message[c].kind = "presence" /\ c \in Open
         /\ clients'[c] = clients[c] \union {message[c].client}
  BY DEF Apply, Typed
<1>6. size' \in Nat /\ size' <= MaxDocument
  BY <1>1, SessionAssumption DEF Apply, MeasuredFits, Typed
<1>7. clients' \in [Connections -> SUBSET (Clients \union {0})]
  BY DEF Apply, Typed
<1>8. Typed'
  BY <1>1, <1>6, <1>7 DEF Typed, Phases, session
<1>9. EnteredHoldsLock' /\ ComparedIsFree'
  BY <1>3 DEF EnteredHoldsLock, ComparedIsFree
<1>10. MeasuredFits'
  BY <1>3, <1>6 DEF MeasuredFits, Entered
<1>11. ClosedOwnNothing'
  BY <1>1, <1>4, <1>5 DEF ClosedOwnNothing, Open, Typed, session
<1>12. OneEach'
  <2>1. CASE clients'[c] \subseteq clients[c]
    BY <1>4, <2>1 DEF OneEach, Alone
  <2>2. CASE /\ message[c].kind = "presence" /\ c \in Open
             /\ clients'[c] = clients[c] \union {message[c].client}
    <3>1. clients[c] \subseteq {message[c].client} /\ Alone(message[c].client, c)
      BY <1>1, <2>2 DEF ComparedIsFree, Entered
    <3> QED
      BY <1>4, <2>2, <3>1 DEF OneEach, Alone
  <2> QED
    BY <1>5, <2>1, <2>2
<1> QED
  BY <1>8, <1>9, <1>10, <1>11, <1>12

LEMMA LockStep == LockInv /\ [Next]_vars => LockInv'
<1> SUFFICES ASSUME LockInv, [Next]_vars PROVE LockInv'
  OBVIOUS
<1>1. CASE UNCHANGED vars
  BY <1>1 DEF vars, LockInv, Typed, EnteredHoldsLock, Entered, Holder, MeasuredFits,
              ClosedOwnNothing, ComparedIsFree, Alone, Open, OneEach
<1>2. CASE Next
  <2>1. CASE \/ \E a \in Actors, x \in Rights : ChangeRights(a, x)
             \/ Revocation
             \/ \E k \in Clients : Fade(k)
    BY <2>1, Surroundings
  <2>2. ASSUME NEW c \in Connections,
               \/ \E a \in Actors : \E v \in DOMAIN rights[a] : Authenticate(c, a, v)
               \/ Establish(c) \/ Disconnect(c) \/ Handle(c)
               \/ \E m \in Messages : Receive(c, m)
        PROVE  LockInv'
    BY <2>2, QuietActions, ConnectKeeps, AcquireKeeps, CheckKeeps, ApplyKeeps DEF Handle
  <2> QED
    BY <1>2, <2>1, <2>2 DEF Next
<1> QED
  BY <1>1, <1>2

---------------------------------------------------------------------------
(* Grants.                                                                 *)

LEMMA GrantInit == Init => GrantInv
<1> SUFFICES ASSUME Init PROVE GrantInv
  OBVIOUS
<1>1. rights \in [Actors -> Seq(Rights)]
  <2>1. \A x \in Access : <<x>> \in Seq(Rights)
    BY DEF Access, Rights
  <2> QED
    BY <2>1 DEF Init
<1>2. /\ grant \in [Connections -> [actor : Actors \union {"nobody"}, ticket : Nat,
                                    version : Nat, access : Access]]
      /\ message \in [Connections -> Handling]
  BY DEF Init, Access, NoMessage, Phases
<1>3. \A c \in Connections :
        /\ message[c].phase = "none" /\ state[c] = "closed"
        /\ grant[c].ticket = 0
  BY DEF Init, NoMessage
<1>4. \A c \in Connections : ~GrantTyped(c)
  BY <1>1, <1>3 DEF GrantTyped
<1> QED
  BY <1>1, <1>2, <1>3, <1>4 DEF GrantInv

\* A step that leaves the grants and what connections may do alone.
LEMMA GrantKept ==
  ASSUME GrantInv, message' \in [Connections -> Handling],
         UNCHANGED <<rights, grant, readOnly>>,
         \A c \in Connections :
           message'[c].phase # "none" \/ state'[c] # "closed"
             => message[c].phase # "none" \/ state[c] # "closed"
  PROVE  GrantInv'
BY DEF GrantInv, GrantTyped

\* A new version of an actor's rights leaves the earlier ones as they were.
LEMMA RightsAppended ==
  ASSUME GrantInv, NEW a \in Actors, NEW x \in Rights, ChangeRights(a, x)
  PROVE  GrantInv'
<1>1. /\ rights' = [rights EXCEPT ![a] = Append(@, x)]
      /\ UNCHANGED <<session, message>>
  BY DEF ChangeRights
<1>2. rights' \in [Actors -> Seq(Rights)]
  BY <1>1 DEF GrantInv
<1>3. \A b \in Actors : \A v \in DOMAIN rights[b] :
        v \in DOMAIN rights'[b] /\ rights'[b][v] = rights[b][v]
  BY <1>1 DEF GrantInv
<1>4. \A c \in Connections : GrantTyped(c)' <=> GrantTyped(c)
  <2>1. \A c \in Connections : GrantTyped(c) => GrantTyped(c)'
    BY <1>1, <1>3 DEF GrantTyped, session
  <2>2. \A c \in Connections : grant[c].ticket = 0 => ~GrantTyped(c)'
    BY <1>1, <1>2 DEF GrantTyped, session
  <2> QED
    BY <2>1, <2>2 DEF GrantInv
<1> QED
  BY <1>1, <1>2, <1>3, <1>4 DEF GrantInv, GrantTyped, session

\* A grant that is replaced.
LEMMA GrantReplaced ==
  ASSUME GrantInv, NEW c \in Connections, UNCHANGED rights,
         message' \in [Connections -> Handling],
         NEW a \in Actors, NEW t \in DOMAIN rights[a], NEW v \in DOMAIN rights[a],
         NEW access \in Access,
         access = "write" => rights[a][t] = "write" /\ rights[a][v] = "write",
         grant' = [grant EXCEPT ![c] = [actor |-> a, ticket |-> t, version |-> v,
                                        access |-> access]],
         readOnly' = ReadOnlyAfter(c, access),
         \A d \in Connections \ {c} : message'[d] = message[d] /\ state'[d] = state[d]
  PROVE  GrantInv'
<1>1. t \in Nat /\ v \in Nat
  BY DEF GrantInv
<1>2. grant' \in [Connections -> [actor : Actors \union {"nobody"}, ticket : Nat,
                                  version : Nat, access : Access]]
  BY <1>1 DEF GrantInv
<1>3. GrantTyped(c)' /\ grant'[c] = [actor |-> a, ticket |-> t, version |-> v,
                                     access |-> access]
  BY DEF GrantTyped, GrantInv
<1>4. c \notin readOnly' => access = "write"
  BY DEF ReadOnlyAfter, Access
<1>5. \A d \in Connections \ {c} :
        /\ grant'[d] = grant[d]
        /\ d \in readOnly' <=> d \in readOnly
        /\ GrantTyped(d)' <=> GrantTyped(d)
  BY DEF ReadOnlyAfter, GrantTyped, GrantInv
<1>6. ASSUME NEW d \in Connections
      PROVE  /\ \/ GrantTyped(d)'
                \/ /\ grant'[d].ticket = 0
                   /\ message'[d].phase = "none" /\ state'[d] = "closed"
             /\ GrantTyped(d)' /\ grant'[d].access = "write"
                  => /\ rights[grant'[d].actor][grant'[d].ticket] = "write"
                     /\ rights[grant'[d].actor][grant'[d].version] = "write"
             /\ d \notin readOnly' /\ GrantTyped(d)' => grant'[d].access = "write"
  <2>1. CASE d = c
    BY <1>3, <1>4, <2>1
  <2>2. CASE d # c
    BY <1>5, <2>2 DEF GrantInv
  <2> QED
    BY <2>1, <2>2
<1> QED
  BY <1>2, <1>6 DEF GrantInv

\* The steps of one connection that leave its grant alone.
LEMMA GrantKeptActions ==
  ASSUME GrantInv, Typed, NEW c \in Connections,
         \/ Establish(c) \/ Disconnect(c)
         \/ \E m \in Messages : Receive(c, m)
         \/ Refuse(c) \/ Acquire(c) \/ Check(c) \/ CheckFails(c) \/ Apply(c) \/ After(c)
         \/ TokenRefused(c)
  PROVE  GrantInv'
<1>1. UNCHANGED <<rights, grant, readOnly>>
  BY DEF Establish, Disconnect, Receive, Refuse, Acquire, Check, CheckFails, Apply, After,
         TokenRefused, session
<1>2. \A m \in Messages : m \in Handling
  BY DEF Messages, Sync, Awareness, Phases
<1>3. \/ UNCHANGED message
      \/ /\ message[c].phase # "none"
         /\ \E p \in Phases : message' = [message EXCEPT ![c].phase = p]
      \/ message' = [message EXCEPT ![c] = NoMessage]
      \/ c \in Open /\ \E m \in Messages : message' = [message EXCEPT ![c] = m]
  BY DEF Establish, Disconnect, Receive, Refuse, Acquire, Check, CheckFails, Apply, After,
         TokenRefused, Phases
<1>4. message \in [Connections -> Handling]
  BY DEF GrantInv
<1>5. message' \in [Connections -> Handling]
  BY <1>2, <1>3, <1>4 DEF Phases, NoMessage
<1>6. \A d \in Connections :
        message'[d].phase # "none" => message[d].phase # "none" \/ state[d] # "closed"
  <2>1. \A d \in Connections \ {c} : message'[d] = message[d]
    BY <1>3, <1>4
  <2>2. message'[c].phase # "none" => message[c].phase # "none" \/ state[c] # "closed"
    <3>1. CASE UNCHANGED message
      BY <3>1
    <3>2. CASE message' = [message EXCEPT ![c] = NoMessage]
      BY <1>4, <3>2 DEF NoMessage
    <3>3. CASE c \in Open
      BY <3>3 DEF Open
    <3> QED
      BY <1>3, <3>1, <3>2, <3>3
  <2> QED
    BY <2>1, <2>2
<1>7. \A d \in Connections : state'[d] # "closed" => state[d] # "closed"
  <2>1. \/ state' = state
        \/ Leave({c})
        \/ state[c] = "opening" /\ state' = [state EXCEPT ![c] = "open"]
    BY DEF Establish, Disconnect, Receive, Refuse, Acquire, Check, CheckFails, Apply, After,
           TokenRefused, session
  <2> QED
    BY <2>1 DEF Leave, Typed
<1> QED
  BY <1>1, <1>5, <1>6, <1>7, GrantKept

\* A ticket, new or renewed, grants what its actor had at its version.
LEMMA Ticketed ==
  ASSUME GrantInv, NEW c \in Connections,
         \/ \E a \in Actors : \E v \in DOMAIN rights[a] : Authenticate(c, a, v)
         \/ \E v \in Versions(c) : TokenSync(c, v)
  PROVE  GrantInv'
<1>1. CASE \E a \in Actors : \E v \in DOMAIN rights[a] : Authenticate(c, a, v)
  <2>1. PICK a \in Actors : \E v \in DOMAIN rights[a] : Authenticate(c, a, v)
    BY <1>1
  <2>2. PICK v \in DOMAIN rights[a] : Authenticate(c, a, v)
    BY <2>1
  <2>3. /\ rights[a][v] \in Access
        /\ grant' = [grant EXCEPT ![c] = TicketGrant(a, v)]
        /\ readOnly' = ReadOnlyAfter(c, rights[a][v])
        /\ \A d \in Connections \ {c} : state'[d] = state[d]
        /\ UNCHANGED <<rights, message>>
    BY <2>2 DEF Authenticate, Granted
  <2>4. message' \in [Connections -> Handling]
    BY <2>3 DEF GrantInv
  <2> QED
    BY <2>3, <2>4, GrantReplaced DEF TicketGrant
<1>2. CASE \E v \in Versions(c) : TokenSync(c, v)
  <2>1. PICK v \in Versions(c) : TokenSync(c, v)
    BY <1>2
  <2>2. message[c].phase = "unlocked"
    BY <2>1 DEF TokenSync
  <2>3. GrantTyped(c)
    BY <2>2 DEF GrantInv
  <2>4. grant[c].actor \in Actors /\ v \in DOMAIN rights[grant[c].actor]
    BY <2>3 DEF GrantTyped, Versions
  <2>5. /\ rights[grant[c].actor][v] \in Access
        /\ grant' = [grant EXCEPT ![c] = TicketGrant(grant[c].actor, v)]
        /\ readOnly' = ReadOnlyAfter(c, rights[grant[c].actor][v])
        /\ message' = [message EXCEPT ![c].phase = "done"]
        /\ UNCHANGED <<rights, state>>
    BY <2>1 DEF TokenSync, Granted
  <2>6. message \in [Connections -> Handling]
    BY DEF GrantInv
  <2>7. /\ message' \in [Connections -> Handling]
        /\ \A d \in Connections \ {c} : message'[d] = message[d]
    BY <2>5, <2>6 DEF Phases
  <2> QED
    BY <2>4, <2>5, <2>7, GrantReplaced DEF TicketGrant
<1> QED
  BY <1>1, <1>2

\* A message is checked against a version of its actor's rights; a reader stays one.
LEMMA Revalidated ==
  ASSUME GrantInv, NEW c \in Connections, NEW v \in Versions(c), Revalidate(c, v)
  PROVE  GrantInv'
<1> DEFINE a == grant[c].actor
           access == AccessAfter(grant[c].access, rights[a][v])
<1>1. message[c].phase = "received"
  BY DEF Revalidate
<1>2. GrantTyped(c)
  BY <1>1 DEF GrantInv
<1>3. /\ a \in Actors /\ v \in DOMAIN rights[a]
      /\ grant[c].ticket \in DOMAIN rights[a]
      /\ grant[c].access \in Access
  BY <1>2 DEF GrantTyped, Versions, GrantInv
<1>4. /\ rights[a][v] \in Access
      /\ grant' = [grant EXCEPT ![c] = [actor |-> a, ticket |-> grant[c].ticket,
                                        version |-> v, access |-> access]]
      /\ readOnly' = ReadOnlyAfter(c, access)
      /\ UNCHANGED <<rights, state>>
  BY DEF Revalidate, Granted
<1>5. /\ access \in Access
      /\ access = "write" => rights[a][grant[c].ticket] = "write" /\ rights[a][v] = "write"
  BY <1>2, <1>3, <1>4 DEF AccessAfter, Access, GrantInv
<1>6. \E p \in Phases : message' = [message EXCEPT ![c].phase = p]
  BY DEF Revalidate, Phases
<1>7. message \in [Connections -> Handling]
  BY DEF GrantInv
<1>8. /\ message' \in [Connections -> Handling]
      /\ \A d \in Connections \ {c} : message'[d] = message[d]
  BY <1>6, <1>7
<1> HIDE DEF a, access
<1> QED
  BY <1>3, <1>4, <1>5, <1>8, GrantReplaced

LEMMA GrantStep == LockInv /\ GrantInv /\ [Next]_vars => GrantInv'
<1> SUFFICES ASSUME LockInv, GrantInv, [Next]_vars PROVE GrantInv'
  OBVIOUS
<1>1. CASE UNCHANGED vars
  BY <1>1 DEF vars, GrantInv, GrantTyped
<1>2. CASE Revocation \/ \E k \in Clients : Fade(k)
  <2>1. /\ UNCHANGED <<rights, grant, readOnly, message>>
        /\ \A d \in Connections : state'[d] # "closed" => state[d] # "closed"
    BY <1>2 DEF Revocation, Leave, Fade, session
  <2> QED
    BY <2>1, GrantKept DEF GrantInv
<1>3. CASE \E a \in Actors, x \in Rights : ChangeRights(a, x)
  BY <1>3, RightsAppended
<1>4. ASSUME NEW c \in Connections,
             \/ \E a \in Actors : \E v \in DOMAIN rights[a] : Authenticate(c, a, v)
             \/ Establish(c) \/ Disconnect(c) \/ Handle(c)
             \/ \E m \in Messages : Receive(c, m)
      PROVE  GrantInv'
  BY <1>4, GrantKeptActions, Ticketed, Revalidated DEF Handle, LockInv
<1> QED
  BY <1>1, <1>2, <1>3, <1>4 DEF Next

---------------------------------------------------------------------------
(* The theorems.                                                           *)

\* The inductive invariants hold in every state.
THEOREM Invariants == Spec => [](LockInv /\ GrantInv)
<1>1. Init => LockInv /\ GrantInv
  BY LockInit, GrantInit
<1>2. (LockInv /\ GrantInv) /\ [Next]_vars => (LockInv /\ GrantInv)'
  BY LockStep, GrantStep
<1> QED
  BY <1>1, <1>2, PTL DEF Spec

\* Whatever the connections send at once, the document stays within its limit.
THEOREM DocumentStaysSmall == Spec => []SizeWithinLimit
<1>1. LockInv => SizeWithinLimit
  BY DEF LockInv, MeasuredFits, SizeWithinLimit
<1> QED
  BY <1>1, Invariants, PTL

\* No client id is ever shared, and no connection has two.
THEOREM ClientsAreOwned == Spec => []ClientHasOneOwner
<1>1. LockInv => ClientHasOneOwner
  <2> SUFFICES ASSUME LockInv PROVE ClientHasOneOwner
    OBVIOUS
  <2>1. \A c, d \in Connections : c # d => clients[c] \intersect clients[d] = {}
    BY DEF LockInv, OneEach, Alone
  <2>2. ASSUME NEW c \in Connections
        PROVE  Cardinality(clients[c]) <= 1
    <3>1. CASE clients[c] = {}
      BY <3>1, FS_EmptySet
    <3>2. CASE clients[c] # {}
      <4>1. PICK k \in clients[c] : clients[c] = {k}
        BY <3>2 DEF LockInv, OneEach
      <4>2. Cardinality({k}) = 1
        BY FS_Singleton
      <4> QED
        BY <4>1, <4>2
    <3> QED
      BY <3>1, <3>2
  <2> QED
    BY <2>1, <2>2 DEF ClientHasOneOwner
<1> QED
  BY <1>1, Invariants, PTL

\* Only an update changes the document, and it comes from a writer by ticket and by the
\* last answer.
THEOREM WritersByTicket == Spec => UpdatesByTicketedWriters
<1> DEFINE P == size' > size
                  => \E c \in Connections :
                       /\ message[c].phase = "checked"
                       /\ rights[grant[c].actor][grant[c].ticket] = "write"
                       /\ rights[grant[c].actor][grant[c].version] = "write"
<1>1. LockInv /\ GrantInv /\ [Next]_vars => [P]_vars
  <2> SUFFICES ASSUME LockInv, GrantInv, Next, size' > size PROVE P
    OBVIOUS
  <2>1. size' # size
    BY DEF LockInv, Typed
  <2>2. PICK c \in Connections : Apply(c)
    BY <2>1 DEF Next, Handle, ChangeRights, Authenticate, Establish, Disconnect, Revocation,
                Receive, Revalidate, Refuse, Acquire, Check, CheckFails, After, TokenSync,
                TokenRefused, Fade, document
  <2>3. message[c].phase = "checked" /\ c \notin readOnly
    BY <2>1, <2>2 DEF Apply
  <2> QED
    BY <2>3 DEF GrantInv
<1> QED
  BY <1>1, Invariants, PTL DEF Spec, UpdatesByTicketedWriters
=============================================================================
