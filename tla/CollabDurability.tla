--------------------------- MODULE CollabDurability ---------------------------
(***************************************************************************)
(* How the collaboration service keeps Yjs updates: onChange,              *)
(* onStoreDocument, beforeUnloadDocument and close of server.ts, with      *)
(* durability-guard.ts, persistence-retry.ts and shutdown.ts.              *)
(*                                                                         *)
(* A document's contents are the number of updates applied to it; Yjs      *)
(* merges, so that a snapshot holds all updates up to some number.         *)
(* Hocuspocus is external: it debounces stores, runs one store of a        *)
(* document at a time, runs a pending one at once when the service closes, *)
(* loads a document for its first connection and tries to unload it when   *)
(* the last one is gone.  Timers count down in ticks.                      *)
(***************************************************************************)
EXTENDS Naturals, FiniteSets

CONSTANTS
  Docs,             \* document names
  Attempts,         \* STORE_RETRY_ATTEMPTS
  AttemptTimeout,   \* STORE_ATTEMPT_TIMEOUT_MS, in ticks
  BaseDelay,        \* STORE_RETRY_BASE_DELAY_MS, in ticks
  ShutdownTimeout,  \* SHUTDOWN_TIMEOUT_MS, in ticks
  MaxDocument,      \* the most updates whose encoding is within MAX_DOCUMENT_BYTES
  Careless,         \* documents whose adapter goes on writing after its signal
  MaxUpdates        \* bound: updates to a document

\* 2 ** n of persistence-retry.ts.
PowerOfTwo[n \in Nat] == IF n = 0 THEN 1 ELSE 2 * PowerOfTwo[n - 1]

Delay(attempt) == BaseDelay * PowerOfTwo[attempt - 1]

\* The longest that one store takes.
RetryDelays[n \in Nat] == IF n = 0 THEN 0 ELSE RetryDelays[n - 1] + Delay(n)
RetryWindow == Attempts * AttemptTimeout + RetryDelays[Attempts - 1]

ASSUME DurabilityAssumption ==
  /\ {Attempts, AttemptTimeout, BaseDelay, ShutdownTimeout} \subseteq Nat \ {0}
  /\ {MaxDocument, MaxUpdates} \subseteq Nat
  /\ Careless \subseteq Docs

\* What the configuration is refused without.
ASSUME WindowAssumption == ShutdownTimeout >= RetryWindow

VARIABLES
  documents,    \* names of the documents in memory
  version,      \* per document: updates applied to its last copy in memory
  connected,    \* documents with an open connection
  debounced,    \* documents with a store scheduled
  generation,   \* DocumentDurabilityGuard.generations
  dirty,        \* DocumentDurabilityGuard.dirtyDocuments
  store,        \* per document: the run of onStoreDocument under way
  strays,       \* writes of aborted attempts that still run: <<document, state>>
  durable,      \* per document: updates in the stored snapshot
  service,      \* where close() is
  deadline,     \* ticks left before close() goes on without waiting
  behind        \* history: documents that had one store under way and another scheduled
                \* behind it when close() was called

vars == <<documents, version, connected, debounced, generation, dirty, store, strays,
          durable, service, deadline, behind>>
memory == <<documents, version, connected, debounced>>
guard == <<generation, dirty>>
shutdown == <<service, deadline, behind>>

ServiceStates == {"running", "closing", "forcing", "closed", "failed"}
StorePhases == {"idle", "attempt", "written", "wait"}

IdleStore ==
  [phase |-> "idle", attempt |-> 0, generation |-> 0, state |-> 0, left |-> 0]

Active(d) == store[d].phase # "idle"

---------------------------------------------------------------------------
(* DocumentDurabilityGuard.                                                *)

MarkDirty(d) ==
  /\ generation' = [generation EXCEPT ![d] = @ + 1]
  /\ dirty' = dirty \union {d}

BeginGeneration(d) == generation[d]

\* Faulty: whatever was stored, the document is clean.
MarkStoredAlways(d, storedGeneration) == dirty' = dirty \ {d} /\ UNCHANGED generation

MarkStored(d, storedGeneration) ==
  /\ dirty' = IF generation[d] = storedGeneration THEN dirty \ {d} ELSE dirty
  /\ UNCHANGED generation

\* Faulty: nothing keeps a document from being unloaded.
CanAlwaysUnload(d) == TRUE

CanUnload(d) == service = "forcing" \/ d \notin dirty

---------------------------------------------------------------------------
(* Documents and connections.                                              *)

Init ==
  /\ documents = {}
  /\ version = [d \in Docs |-> 0]
  /\ connected = {}
  /\ debounced = {}
  /\ generation = [d \in Docs |-> 0]
  /\ dirty = {}
  /\ store = [d \in Docs |-> IdleStore]
  /\ strays = {}
  /\ durable = [d \in Docs |-> 0]
  /\ service = "running"
  /\ deadline = 0
  /\ behind = {}

\* Faulty: the stored snapshot is not read.
NothingLoaded(d) == 0

\* onLoadDocument
LoadDocument(d) == durable[d]

\* The first connection loads the document.
Connect(d) ==
  /\ service = "running"
  /\ connected' = connected \union {d}
  /\ documents' = documents \union {d}
  /\ version' = [version EXCEPT ![d] = IF d \in documents THEN @ ELSE LoadDocument(d)]
  /\ UNCHANGED <<debounced, guard, store, strays, durable, shutdown>>

\* An update is applied; onChange marks the document and a store is scheduled.
Update(d) ==
  /\ d \in connected
  /\ version[d] < MaxUpdates
  /\ version' = [version EXCEPT ![d] = @ + 1]
  /\ MarkDirty(d)
  /\ debounced' = debounced \union {d}
  /\ UNCHANGED <<documents, connected, store, strays, durable, shutdown>>

Disconnect(d) ==
  /\ d \in connected
  /\ connected' = connected \ {d}
  /\ UNCHANGED <<documents, version, debounced, guard, store, strays, durable, shutdown>>

\* unloadDocument, unless beforeUnloadDocument throws.
Unload(d) ==
  /\ d \in documents \ connected
  /\ CanUnload(d)
  /\ documents' = documents \ {d}
  /\ debounced' = debounced \ {d}
  /\ UNCHANGED <<version, connected, guard, store, strays, durable, shutdown>>

---------------------------------------------------------------------------
(* onStoreDocument.                                                        *)

AttemptOf(n, g, s) ==
  [phase |-> "attempt", attempt |-> n, generation |-> g, state |-> s, left |-> AttemptTimeout]

\* The generation and the snapshot are taken together.
NewStore(d) == AttemptOf(1, BeginGeneration(d), version[d])

\* A snapshot that is too large is given up; otherwise the first attempt begins.
BeginStore(d) ==
  /\ d \in debounced
  /\ ~Active(d)
  /\ debounced' = debounced \ {d}
  /\ store' = IF version[d] > MaxDocument THEN store ELSE [store EXCEPT ![d] = NewStore(d)]
  /\ UNCHANGED <<documents, version, connected, guard, strays, durable, shutdown>>

\* The adapter writes the snapshot.
Persist(d) ==
  /\ store[d].phase = "attempt"
  /\ durable' = [durable EXCEPT ![d] = store[d].state]
  /\ store' = [store EXCEPT ![d].phase = "written"]
  /\ UNCHANGED <<memory, guard, strays, shutdown>>

\* The adapter returns.
Stored(d) ==
  /\ store[d].phase = "written"
  /\ MarkStored(d, store[d].generation)
  /\ store' = [store EXCEPT ![d] = IdleStore]
  /\ UNCHANGED <<memory, strays, durable, shutdown>>

\* Faulty: the attempts have no limit.
NoLastAttempt(s) ==
  [s EXCEPT !.phase = "wait", !.left = Delay(1)]

\* After the last attempt the hook throws, before it the coordinator waits.
AfterFailure(s) ==
  IF s.attempt = Attempts THEN IdleStore
  ELSE [s EXCEPT !.phase = "wait", !.left = Delay(s.attempt)]

\* The adapter throws, its write done or not.
AttemptFails(d) ==
  /\ store[d].phase \in {"attempt", "written"}
  /\ store' = [store EXCEPT ![d] = AfterFailure(@)]
  /\ UNCHANGED <<memory, guard, strays, durable, shutdown>>

\* The attempt is aborted; an adapter that ignores the signal goes on.
AttemptTimesOut(d) ==
  /\ store[d].phase \in {"attempt", "written"} /\ store[d].left = 0
  /\ store' = [store EXCEPT ![d] = AfterFailure(@)]
  /\ strays' = IF d \in Careless /\ store[d].phase = "attempt"
               THEN strays \union {<<d, store[d].state>>} ELSE strays
  /\ UNCHANGED <<memory, guard, durable, shutdown>>

Retry(d) ==
  /\ store[d].phase = "wait" /\ store[d].left = 0
  /\ store' = [store EXCEPT ![d] = AttemptOf(@.attempt + 1, @.generation, @.state)]
  /\ UNCHANGED <<memory, guard, strays, durable, shutdown>>

StrayWrite(d, s) ==
  /\ <<d, s>> \in strays
  /\ strays' = strays \ {<<d, s>>}
  /\ durable' = [durable EXCEPT ![d] = s]
  /\ UNCHANGED <<memory, guard, store, shutdown>>

---------------------------------------------------------------------------
(* close() and shutdownWithinDeadline.                                     *)

\* Faulty: destroy is given the time of one attempt.
OneAttempt == AttemptTimeout

Patience == ShutdownTimeout

\* destroy closes every connection.
Close ==
  /\ service = "running"
  /\ service' = "closing"
  /\ deadline' = Patience
  /\ connected' = {}
  /\ behind' = {d \in debounced : Active(d)}
  /\ UNCHANGED <<documents, version, debounced, guard, store, strays, durable>>

\* destroy settles once no document is in memory.
Destroyed ==
  /\ service = "closing"
  /\ documents = {}
  /\ service' = IF dirty = {} THEN "closed" ELSE "failed"
  /\ UNCHANGED <<memory, guard, store, strays, durable, deadline, behind>>

\* Faulty: the deadline only starts once the documents are clean.
DeadlineForClean == deadline = 0 /\ dirty = {}

DeadlinePassed == deadline = 0

\* forceUnload begins, with a deadline of its own.
ForceUnload ==
  /\ service = "closing"
  /\ DeadlinePassed
  /\ service' = "forcing"
  /\ deadline' = Patience
  /\ UNCHANGED <<memory, guard, store, strays, durable, behind>>

\* A forced shutdown fails, whether it settles or not.
ForceEnds ==
  /\ service = "forcing"
  /\ documents = {} \/ deadline = 0
  /\ service' = "failed"
  /\ UNCHANGED <<memory, guard, store, strays, durable, deadline, behind>>

---------------------------------------------------------------------------
(* Time.                                                                   *)

TimerRuns == service \in {"closing", "forcing"} \/ \E d \in Docs : Active(d)

\* Timers fire before the clock goes on, and a closing service stores at once.
Due ==
  \/ service \in {"closing", "forcing"} /\ deadline = 0
  \/ \E d \in Docs : Active(d) /\ store[d].left = 0
  \/ service = "closing" /\ \E d \in debounced : ~Active(d)

Tick ==
  /\ TimerRuns
  /\ ~Due
  /\ store' = [d \in Docs |-> IF Active(d) THEN [store[d] EXCEPT !.left = @ - 1] ELSE store[d]]
  /\ deadline' = IF service \in {"closing", "forcing"} THEN deadline - 1 ELSE deadline
  /\ UNCHANGED <<memory, guard, strays, durable, service, behind>>

StoreStep(d) ==
  BeginStore(d) \/ Stored(d) \/ AttemptTimesOut(d) \/ Retry(d)

Next ==
  \/ \E d \in Docs :
       \/ Connect(d) \/ Update(d) \/ Disconnect(d) \/ Unload(d)
       \/ StoreStep(d) \/ Persist(d) \/ AttemptFails(d)
       \/ \E s \in 0..MaxUpdates : StrayWrite(d, s)
  \/ Close \/ Destroyed \/ ForceUnload \/ ForceEnds
  \/ Tick

Spec == Init /\ [][Next]_vars

\* Timers fire and promises settle; nothing makes an adapter answer.
FairSpec ==
  /\ Spec
  /\ WF_vars(Tick) /\ WF_vars(Destroyed) /\ WF_vars(ForceUnload) /\ WF_vars(ForceEnds)
  /\ \A d \in Docs : WF_vars(StoreStep(d))

---------------------------------------------------------------------------
(* Properties.                                                             *)

Store ==
  [phase : StorePhases, attempt : 0..Attempts, generation : Nat, state : Nat,
   left : Nat]

\* Every variable has its type; a store makes at most Attempts attempts.
TypeOK ==
  /\ documents \subseteq Docs
  /\ version \in [Docs -> Nat]
  /\ connected \subseteq documents
  /\ debounced \subseteq Docs
  /\ generation \in [Docs -> Nat]
  /\ dirty \subseteq Docs
  /\ store \in [Docs -> Store]
  /\ strays \subseteq Docs \X Nat
  /\ durable \in [Docs -> Nat]
  /\ service \in ServiceStates
  /\ deadline \in Nat
  /\ behind \subseteq Docs

\* Documents whose adapter keeps the contract of ports/persistence.ts.
Careful == Docs \ Careless

\* A document the guard calls clean is stored up to its last update, whatever
\* updates came while its stores ran, failed, timed out and were retried.
CleanIsDurable == \A d \in Careful : d \notin dirty => durable[d] = version[d]

\* A document that leaves memory before a forced shutdown has no update to lose.
UnloadedIsDurable ==
  service \in {"running", "closing"} => \A d \in Careful \ documents : durable[d] = version[d]

\* A shutdown that is reported as a success has stored every update.
ClosedLostNothing == service = "closed" => \A d \in Careful : durable[d] = version[d]

\* Wherever an update may be forgotten, by the guard, by the server's memory or with a
\* shutdown that reports success, it is stored.
NothingLost == CleanIsDurable /\ UnloadedIsDurable /\ ClosedLostNothing

\* While attempts follow one another, what is stored only gets newer.
StoredGetsNewer == [][\A d \in Careful : durable'[d] >= durable[d]]_vars

\* A shutdown ends, with or without success, even if no store ever does.
CloseSettles == service = "closing" ~> service \in {"closed", "failed"}

\* A document that is not yet through with its stores has at least reached the last
\* attempt of the last of them.
AtLastAttempt(d) == Active(d) /\ d \notin debounced /\ store[d].attempt = Attempts

Unfinished == debounced \union {d \in Docs : Active(d)}

\* With the deadline that config.ts:65 asks for, one retry window, a forced unload takes
\* no attempt away from a store that was scheduled, or the only one under way, when
\* close() was called: attempts that fail, time out and wait use up the whole window.
OneWindowCoversOneStore ==
  [][service = "closing" /\ service' = "forcing"
       => \A d \in Unfinished \ behind : AtLastAttempt(d)]_vars

\* apps/collab/src/config.ts:55 gives the reason for that deadline: otherwise the process
\* might enter the forced exit "before a later attempt begins".  A forced unload only
\* meets stores that were given up or are at their last attempt.
LastAttemptBeforeForce ==
  [][service = "closing" /\ service' = "forcing" => \A d \in Unfinished : AtLastAttempt(d)]_vars
=============================================================================
