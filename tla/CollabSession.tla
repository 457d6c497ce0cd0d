----------------------------- MODULE CollabSession -----------------------------
(***************************************************************************)
(* The connections to one collaborative document: authentication, the      *)
(* check of every message, the document's message lock and the presence of *)
(* clients, in authorization.ts, realtime-security.ts and server.ts.       *)
(*                                                                         *)
(* Hocuspocus is external: it handles the messages of a connection one by  *)
(* one, applies an update after beforeSync, calls afterHandleMessage once  *)
(* a message has been applied or refused, closes a connection whose hook   *)
(* threw, and goes on with the message of a connection that closes.  The   *)
(* authorization port is external too: it answers with the rights of any   *)
(* version so far, since tickets and replicas may be old.                  *)
(***************************************************************************)
EXTENDS Naturals, Sequences, FiniteSets

CONSTANTS
  Connections,
  Actors,
  Clients,      \* awareness client ids
  MaxDocument,  \* MAX_DOCUMENT_BYTES, in updates
  MaxVersion    \* bound: authorization versions of an actor

ASSUME SessionAssumption == {MaxDocument, MaxVersion} \subseteq Nat

Rights == {"none", "read", "write"}
Access == {"read", "write"}
ConnectionStates == {"closed", "opening", "open"}
Phases == {"none", "received", "unlocked", "waiting", "locked", "checked", "done"}

VARIABLES
  rights,     \* per actor: the rights at each authorization version
  state,      \* per connection: opening while onAuthenticate runs
  grant,      \* per connection: context.grant
  readOnly,   \* connections that are read-only
  message,    \* per connection: the message being handled
  queue,      \* DocumentMessageMutex: who holds the lock, then who awaits it
  size,       \* updates in the document
  clients,    \* per connection: its client ids (document.getClients)
  online      \* client ids in the document's awareness

vars == <<rights, state, grant, readOnly, message, queue, size, clients, online>>
session == <<state, grant, readOnly>>
document == <<size, clients, online>>

NoMessage == [phase |-> "none", kind |-> "none", client |-> 0]

\* "token" is the message that renews a ticket.  The update of a read-only connection
\* stands for the messages that only ask for the document too: it holds the lock and
\* changes nothing.
Sync == {[phase |-> "received", kind |-> kind, client |-> 0] : kind \in {"update", "token"}}

\* Awareness of one client, shown or taken away.
Awareness ==
  {[phase |-> "received", kind |-> kind, client |-> k] :
     kind \in {"presence", "absence"}, k \in Clients}

Messages == Sync \union Awareness

---------------------------------------------------------------------------
(* Grants.                                                                 *)

\* Faulty: any answer is a grant.
AnyAnswer(x) == x = x

\* What DocumentAuthorizationGrantSchema takes.
Granted(x) == x \in Access

\* A grant names the version its ticket was issued at and the newest one it was
\* checked against.
TicketGrant(a, v) ==
  [actor |-> a, ticket |-> v, version |-> v, access |-> rights[a][v]]

ReadOnlyAfter(c, access) ==
  IF access = "write" THEN readOnly \ {c} ELSE readOnly \union {c}

\* Faulty: the refreshed access replaces the old one.
RefreshedAccess(previous, refreshed) == refreshed

\* A read-only grant stays read-only until a new ticket comes.
AccessAfter(previous, refreshed) == IF previous = "read" THEN "read" ELSE refreshed

---------------------------------------------------------------------------
(* The lock of the document.                                               *)

Holder(c) == queue # <<>> /\ Head(queue) = c

\* Faulty: presence does not wait for its turn.
UpdatesWait(c) == message[c].kind # "update" \/ Holder(c)

MayEnter(c) == Holder(c)

Released(c) == IF Holder(c) THEN Tail(queue) ELSE queue

\* Faulty: the lock is gone once the update is checked.
ReleasedByCheck(c) == Released(c)

AfterCheck(c) == queue

\* Faulty: a mismatch throws with the lock held.
KeptOnMismatch(c) == queue

AfterMismatch(c) == Released(c)

\* assertAwarenessOwnership
MayPresent(c, k, kind) ==
  /\ clients[c] \subseteq {k}
  /\ \A d \in Connections \ {c} : state[d] = "open" => k \notin clients[d]
  /\ kind = "absence" \/ k \in online => k \in clients[c]

OfAwareness(c) == message[c].kind \in {"presence", "absence"}

---------------------------------------------------------------------------
(* Connections.                                                            *)

Init ==
  /\ rights \in [Actors -> {<<x>> : x \in Access}]
  /\ state = [c \in Connections |-> "closed"]
  /\ grant = [c \in Connections |-> [actor |-> "nobody", ticket |-> 0, version |-> 0,
                                     access |-> "read"]]
  /\ readOnly = {}
  /\ message = [c \in Connections |-> NoMessage]
  /\ queue = <<>>
  /\ size = 0
  /\ clients = [c \in Connections |-> {}]
  /\ online = {}

\* The rights of an actor change.
ChangeRights(a, x) ==
  /\ Len(rights[a]) < MaxVersion
  /\ x # rights[a][Len(rights[a])]
  /\ rights' = [rights EXCEPT ![a] = Append(@, x)]
  /\ UNCHANGED <<session, message, queue, document>>

\* onAuthenticate: the port resolves the ticket to a grant.
Authenticate(c, a, v) ==
  /\ state[c] = "closed" /\ message[c] = NoMessage
  /\ Granted(rights[a][v])
  /\ grant' = [grant EXCEPT ![c] = TicketGrant(a, v)]
  /\ readOnly' = ReadOnlyAfter(c, rights[a][v])
  /\ state' = [state EXCEPT ![c] = "opening"]
  /\ UNCHANGED <<rights, message, queue, document>>

Establish(c) ==
  /\ state[c] = "opening"
  /\ state' = [state EXCEPT ![c] = "open"]
  /\ UNCHANGED <<rights, grant, readOnly, message, queue, document>>

\* A closed connection leaves the document with its clients.
Leave(S) ==
  /\ state' = [c \in Connections |-> IF c \in S THEN "closed" ELSE state[c]]
  /\ clients' = [c \in Connections |-> IF c \in S THEN {} ELSE clients[c]]
  /\ online' = online \ UNION {clients[c] : c \in S}

Open == {c \in Connections : state[c] = "open"}

Disconnect(c) ==
  /\ c \in Open
  /\ Leave({c})
  /\ UNCHANGED <<rights, grant, readOnly, message, queue, size>>

\* A revocation closes every open connection of the document.
Revocation ==
  /\ Open # {}
  /\ Leave(Open)
  /\ UNCHANGED <<rights, grant, readOnly, message, queue, size>>

---------------------------------------------------------------------------
(* One message: beforeHandleMessage, beforeSync or beforeHandleAwareness,  *)
(* the change, afterHandleMessage.                                         *)

Receive(c, m) ==
  /\ c \in Open /\ message[c] = NoMessage
  /\ message' = [message EXCEPT ![c] = m]
  /\ UNCHANGED <<rights, session, queue, document>>

\* The connection is still entitled to what it does, as of version v.
Revalidate(c, v) ==
  /\ message[c].phase = "received"
  /\ LET a == grant[c].actor
         access == AccessAfter(grant[c].access, rights[a][v])
     IN /\ Granted(rights[a][v])
        /\ v >= grant[c].version
        /\ grant' = [grant EXCEPT ![c] = [actor |-> a, ticket |-> grant[c].ticket,
                                          version |-> v, access |-> access]]
        /\ readOnly' = ReadOnlyAfter(c, access)
  /\ IF message[c].kind = "token"
     THEN /\ message' = [message EXCEPT ![c].phase = "unlocked"]
          /\ UNCHANGED queue
     ELSE /\ message' = [message EXCEPT ![c].phase = "waiting"]
          /\ queue' = Append(queue, c)
  /\ UNCHANGED <<rights, state, document>>

\* The port refuses, does not answer in time or answers with an older version, the
\* ticket has expired, or the message is malformed or one too many.  The grant of a
\* connection that closes is read no more.
Refuse(c) ==
  /\ message[c].phase = "received"
  /\ message' = [message EXCEPT ![c] = NoMessage]
  /\ Leave({c})
  /\ UNCHANGED <<rights, grant, readOnly, queue, size>>

\* The lock is granted; who claims another's client id is turned away.
Acquire(c) ==
  /\ message[c].phase = "waiting" /\ MayEnter(c)
  /\ IF OfAwareness(c) /\ ~MayPresent(c, message[c].client, message[c].kind)
     THEN /\ message' = [message EXCEPT ![c] = NoMessage]
          /\ queue' = AfterMismatch(c)
          /\ Leave({c})
          /\ UNCHANGED <<rights, grant, readOnly, size>>
     ELSE /\ message' = [message EXCEPT ![c].phase = "locked"]
          /\ UNCHANGED <<rights, session, queue, document>>

\* Only what a writer sends is measured.
TooLarge(c) == message[c].kind = "update" /\ c \notin readOnly /\ size + 1 > MaxDocument

Check(c) ==
  /\ message[c].phase = "locked"
  /\ ~TooLarge(c)
  /\ message' = [message EXCEPT ![c].phase = "checked"]
  /\ queue' = AfterCheck(c)
  /\ UNCHANGED <<rights, session, document>>

\* The hook throws: the update is too large or broken, or the presence is.
CheckFails(c) ==
  /\ message[c].phase = "locked"
  /\ message[c].kind # "absence"
  /\ message' = [message EXCEPT ![c].phase = "done"]
  /\ Leave({c})
  /\ UNCHANGED <<rights, grant, readOnly, queue, size>>

\* An update of a read-only connection is dropped; a connection that is no longer
\* open changes the presence without owning it.
Apply(c) ==
  /\ message[c].phase = "checked"
  /\ message' = [message EXCEPT ![c].phase = "done"]
  /\ size' = IF message[c].kind = "update" /\ c \notin readOnly THEN size + 1 ELSE size
  /\ IF OfAwareness(c)
     THEN LET k == message[c].client
          IN IF message[c].kind = "presence"
             THEN /\ online' = online \union {k}
                  /\ clients' = IF c \in Open THEN [clients EXCEPT ![c] = @ \union {k}]
                                ELSE clients
             ELSE online' = online \ {k} /\ clients' = [clients EXCEPT ![c] = @ \ {k}]
     ELSE UNCHANGED <<clients, online>>
  /\ UNCHANGED <<rights, session, queue>>

\* afterHandleMessage
After(c) ==
  /\ message[c].phase = "done"
  /\ message' = [message EXCEPT ![c] = NoMessage]
  /\ queue' = Released(c)
  /\ UNCHANGED <<rights, session, document>>

\* onTokenSync: a new ticket of the same actor, not older than what was seen.
TokenSync(c, v) ==
  /\ message[c].phase = "unlocked"
  /\ LET a == grant[c].actor
     IN /\ Granted(rights[a][v])
        /\ v >= grant[c].version
        /\ grant' = [grant EXCEPT ![c] = TicketGrant(a, v)]
        /\ readOnly' = ReadOnlyAfter(c, rights[a][v])
  /\ message' = [message EXCEPT ![c].phase = "done"]
  /\ UNCHANGED <<rights, state, queue, document>>

\* Another actor's ticket, an old or an expired one.
TokenRefused(c) ==
  /\ message[c].phase = "unlocked"
  /\ message' = [message EXCEPT ![c].phase = "done"]
  /\ Leave({c})
  /\ UNCHANGED <<rights, grant, readOnly, queue, size>>

\* Presence that is not renewed fades; the client of a connection renews its own.
Fade(k) ==
  /\ k \in online \ UNION {clients[c] : c \in Connections}
  /\ online' = online \ {k}
  /\ UNCHANGED <<rights, session, message, queue, size, clients>>

Versions(c) == IF grant[c].version = 0 THEN {} ELSE DOMAIN rights[grant[c].actor]

Handle(c) ==
  \/ \E v \in Versions(c) : Revalidate(c, v) \/ TokenSync(c, v)
  \/ Refuse(c) \/ Acquire(c) \/ Check(c) \/ CheckFails(c) \/ Apply(c) \/ After(c)
  \/ TokenRefused(c)

Next ==
  \/ \E a \in Actors, x \in Rights : ChangeRights(a, x)
  \/ \E c \in Connections :
       \/ \E a \in Actors : \E v \in DOMAIN rights[a] : Authenticate(c, a, v)
       \/ Establish(c) \/ Disconnect(c) \/ Handle(c)
       \/ \E m \in Messages : Receive(c, m)
  \/ Revocation
  \/ \E k \in Clients : Fade(k)

Spec == Init /\ [][Next]_vars

\* A message is handled to its end: the port's answer has a time limit and the
\* hooks do not wait for anything but the lock.
FairSpec == Spec /\ \A c \in Connections : WF_vars(Handle(c))

---------------------------------------------------------------------------
(* Properties.                                                             *)

Grant == [actor : Actors, ticket : Nat \ {0}, version : Nat \ {0}, access : Access]

\* Every variable has its type; a message is handled under a grant.
TypeOK ==
  /\ rights \in [Actors -> Seq(Rights)]
  /\ state \in [Connections -> ConnectionStates]
  /\ \A c \in Connections :
       \/ grant[c] \in Grant
       \/ state[c] = "closed" /\ message[c] = NoMessage
  /\ readOnly \subseteq Connections
  /\ \A c \in Connections :
       \/ message[c] = NoMessage
       \/ [message[c] EXCEPT !.phase = "received"] \in Messages /\ message[c].phase \in Phases
  /\ queue \in Seq(Connections)
  /\ size \in Nat
  /\ clients \in [Connections -> SUBSET Clients]
  /\ online \subseteq Clients

\* Whatever connections send at once, the document never outgrows its limit: no two
\* updates are measured against the same contents.
SizeWithinLimit == size <= MaxDocument

\* A client id belongs to one connection and a connection has one client id, so that
\* nobody moves another's cursor.
ClientHasOneOwner ==
  /\ \A c, d \in Connections : c # d => clients[c] \intersect clients[d] = {}
  /\ \A c \in Connections : Cardinality(clients[c]) <= 1

\* apps/collab/src/authorization.ts:91, a connection is never promoted without a new
\* ticket: an update is applied for a ticket issued to a writer who was one still at the
\* version the message was checked against.
UpdatesByTicketedWriters ==
  [][size' > size
       => \E c \in Connections :
            /\ message[c].phase = "checked"
            /\ rights[grant[c].actor][grant[c].ticket] = "write"
            /\ rights[grant[c].actor][grant[c].version] = "write"]_vars

\* Every message is handled to its end: whoever holds the lock gives it back, refused
\* and closed connections included.
MessagesSettle ==
  \A c \in Connections : message[c].phase # "none" ~> message[c].phase = "none"
=============================================================================
