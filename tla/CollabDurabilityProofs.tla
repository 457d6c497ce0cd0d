------------------------ MODULE CollabDurabilityProofs ------------------------
(***************************************************************************)
(* That a document the guard calls clean is stored, for any number of      *)
(* documents, attempts and ticks, if its adapter stops at its signal.      *)
(*                                                                         *)
(* The invariant: a document with a store scheduled or under way is dirty, *)
(* and the store under way holds every update if its generation is still   *)
(* the document's.  So the guard clears a document only for a snapshot     *)
(* that has every update, and no store is left that could write an older   *)
(* one after it.  How long the timers run plays no part.                   *)
(*                                                                         *)
(* Then, that the deadline config.ts asks for covers one store of each     *)
(* document.  Its invariant counts how long the store under way or the one *)
(* scheduled may still go on, against the time left to the shutdown.       *)
(* Recursion and induction over numbers come from the pigeonhole           *)
(* principle, in a part of their own.                                      *)
(***************************************************************************)
EXTENDS CollabDurability, Integers, TLAPS, FiniteSetTheorems

\* A record of onStoreDocument, whatever its timer.
IsStore(s) ==
  /\ s = [phase |-> s.phase, attempt |-> s.attempt, generation |-> s.generation,
          state |-> s.state, left |-> s.left]
  /\ s.phase \in StorePhases
  /\ s.generation \in Nat
  /\ s.state \in Nat

\* The types the argument needs.
Types ==
  /\ documents \subseteq Docs
  /\ connected \subseteq documents
  /\ debounced \subseteq Docs
  /\ dirty \subseteq Docs
  /\ version \in [Docs -> Nat]
  /\ durable \in [Docs -> Nat]
  /\ generation \in [Docs -> Nat]
  /\ DOMAIN store = Docs
  /\ \A d \in Docs : IsStore(store[d])
  /\ strays \subseteq Careless \X Nat

\* Pending work is on a dirty document, and an unaltered generation on the whole of it.
WorkIsDirty ==
  \A d \in Docs :
    /\ d \in debounced => d \in dirty
    /\ Active(d) =>
         /\ d \in dirty
         /\ store[d].generation <= generation[d]
         /\ store[d].generation = generation[d] =>
              d \notin debounced /\ store[d].state = version[d]

\* The snapshot of a store lies between what is stored and what is in memory.
SnapshotBetween ==
  \A d \in Careful :
    /\ durable[d] <= version[d]
    /\ Active(d) => durable[d] <= store[d].state /\ store[d].state <= version[d]
    /\ store[d].phase = "written" => durable[d] = store[d].state

\* Where the service is bounds what is connected, unloaded and dirty.
ServicePhase ==
  /\ service # "running" => connected = {}
  /\ service \in {"running", "closing"} => dirty \subseteq documents
  /\ service = "closed" => dirty = {}

IInv ==
  Types /\ WorkIsDirty /\ SnapshotBetween /\ ServicePhase /\ CleanIsDurable

---------------------------------------------------------------------------

LEMMA InitIInv == Init => IInv
<1> SUFFICES ASSUME Init PROVE IInv
  OBVIOUS
<1>1. \A d \in Docs : store[d] = IdleStore /\ ~Active(d) /\ durable[d] = version[d]
  BY DEF Init, Active, IdleStore
<1>2. IsStore(IdleStore)
  BY DEF IsStore, IdleStore, StorePhases
<1>3. Types
  BY <1>1, <1>2 DEF Init, Types
<1>4. WorkIsDirty /\ SnapshotBetween /\ CleanIsDurable
  <2>1. \A d \in Docs : durable[d] = 0 /\ version[d] = 0 /\ store[d].phase = "idle"
    BY DEF Init, IdleStore
  <2> QED BY <1>1, <2>1 DEF Init, WorkIsDirty, Careful, SnapshotBetween, CleanIsDurable, Careful
<1> QED BY <1>3, <1>4 DEF Init, IInv, ServicePhase

LEMMA DocumentSteps ==
  ASSUME IInv, NEW d \in Docs, Connect(d) \/ Update(d) \/ Disconnect(d) \/ Unload(d)
  PROVE  IInv'
<1> USE DEF IInv, IsStore, Active
<1>1. CASE Connect(d)
  <2>1. d \notin documents => d \notin dirty /\ ~Active(d)
    BY <1>1 DEF Connect, ServicePhase, WorkIsDirty
  <2>2. Types'
    BY <1>1 DEF Connect, LoadDocument, Types, guard, shutdown
  <2>3. WorkIsDirty'
    BY <1>1, <2>1 DEF Connect, LoadDocument, Types, WorkIsDirty, guard, shutdown
  <2>4. SnapshotBetween' /\ CleanIsDurable'
    BY <1>1, <2>1 DEF Connect, LoadDocument, Types, Careful, SnapshotBetween, CleanIsDurable,
                      guard, shutdown
  <2>5. ServicePhase'
    BY <1>1 DEF Connect, ServicePhase, guard, shutdown
  <2> QED BY <2>2, <2>3, <2>4, <2>5
<1>2. CASE Update(d)
  <2>1. Types' /\ d \in documents
    BY <1>2 DEF Update, MarkDirty, Types, shutdown
  <2>2. WorkIsDirty'
    BY <1>2, <2>1 DEF Update, MarkDirty, Types, WorkIsDirty, shutdown
  <2>3. SnapshotBetween' /\ CleanIsDurable'
    BY <1>2, <2>1 DEF Update, MarkDirty, Types, Careful, SnapshotBetween, CleanIsDurable, shutdown
  <2>4. ServicePhase'
    BY <1>2, <2>1 DEF Update, MarkDirty, ServicePhase, shutdown
  <2> QED BY <2>1, <2>2, <2>3, <2>4
<1>3. CASE Disconnect(d)
  BY <1>3 DEF Disconnect, Types, WorkIsDirty, Careful, SnapshotBetween, ServicePhase,
              CleanIsDurable,
              guard, shutdown
<1>4. CASE Unload(d)
  <2>1. Types' /\ WorkIsDirty' /\ SnapshotBetween' /\ CleanIsDurable'
    BY <1>4 DEF Unload, Types, WorkIsDirty, Careful, SnapshotBetween, CleanIsDurable, guard,
                shutdown
  <2>2. ServicePhase'
    BY <1>4 DEF Unload, CanUnload, ServicePhase, guard, shutdown
  <2> QED BY <2>1, <2>2
<1> QED BY <1>1, <1>2, <1>3, <1>4

\* After a failed attempt the store is over, or the same one waits.
LEMMA FailureKeepsSnapshot ==
  ASSUME NEW s, IsStore(s)
  PROVE  /\ IsStore(AfterFailure(s))
         /\ \/ AfterFailure(s) = IdleStore
            \/ /\ AfterFailure(s).phase = "wait"
               /\ AfterFailure(s).generation = s.generation
               /\ AfterFailure(s).state = s.state
BY DEF AfterFailure, IdleStore, IsStore, StorePhases

LEMMA FailureSteps ==
  ASSUME IInv, NEW d \in Docs, Active(d), strays' \subseteq Careless \X Nat,
         store' = [store EXCEPT ![d] = AfterFailure(@)],
         UNCHANGED <<memory, guard, durable, shutdown>>
  PROVE  IInv'
<1> DEFINE s == AfterFailure(store[d])
<1>1. IsStore(s) /\ (\/ s = IdleStore
                     \/ /\ s.phase = "wait"
                        /\ s.generation = store[d].generation
                        /\ s.state = store[d].state)
  BY FailureKeepsSnapshot DEF IInv, Types
<1>2. store'[d] = s /\ \A e \in Docs \ {d} : store'[e] = store[e]
  BY DEF IInv, Types
<1> HIDE DEF s
<1>3. DOMAIN store' = Docs
  BY DEF IInv, Types
<1>4. Types'
  BY <1>1, <1>2, <1>3 DEF IInv, Types, IsStore, memory, guard
<1>5. WorkIsDirty' /\ SnapshotBetween'
  BY <1>1, <1>2 DEF IInv, WorkIsDirty, Careful, SnapshotBetween, Active, IdleStore, memory, guard
<1>6. ServicePhase' /\ CleanIsDurable'
  BY DEF IInv, ServicePhase, CleanIsDurable, memory, guard, shutdown
<1> QED BY <1>4, <1>5, <1>6 DEF IInv

LEMMA StoreSteps ==
  ASSUME IInv, NEW d \in Docs,
         \/ BeginStore(d) \/ Persist(d) \/ Stored(d) \/ AttemptFails(d)
         \/ AttemptTimesOut(d) \/ Retry(d)
  PROVE  IInv'
<1>1. CASE BeginStore(d)
  <2>1. Types'
    BY <1>1 DEF BeginStore, NewStore, AttemptOf, BeginGeneration, IInv, Types, IsStore,
                StorePhases,
                memory, guard, shutdown
  <2>2. WorkIsDirty' /\ SnapshotBetween'
    BY <1>1 DEF BeginStore, NewStore, AttemptOf, BeginGeneration, IInv, Types, WorkIsDirty,
                SnapshotBetween, Active, guard, shutdown
  <2>3. ServicePhase' /\ CleanIsDurable'
    BY <1>1 DEF BeginStore, IInv, ServicePhase, CleanIsDurable, guard, shutdown
  <2> QED BY <2>1, <2>2, <2>3 DEF IInv
<1>2. CASE Persist(d)
  <2>1. Types' /\ store[d].phase = "attempt"
    BY <1>2 DEF Persist, IInv, Types, IsStore, StorePhases, memory, guard, shutdown
  <2>2. WorkIsDirty' /\ SnapshotBetween'
    BY <1>2 DEF Persist, IInv, Types, IsStore, WorkIsDirty, Careful, SnapshotBetween, Active,
                memory,
                guard, shutdown
  <2>3. d \in dirty
    BY <2>1 DEF IInv, WorkIsDirty, Active
  <2>4. ServicePhase' /\ CleanIsDurable'
    BY <1>2, <2>3 DEF Persist, IInv, Types, ServicePhase, CleanIsDurable, memory, guard, shutdown
  <2> QED BY <2>1, <2>2, <2>4 DEF IInv
<1>3. CASE Stored(d)
  <2>1. Types'
    BY <1>3 DEF Stored, MarkStored, IInv, Types, IsStore, IdleStore, StorePhases, memory, shutdown
  <2>2. WorkIsDirty' /\ SnapshotBetween'
    BY <1>3 DEF Stored, MarkStored, IInv, Types, IdleStore, WorkIsDirty, Careful, SnapshotBetween,
                Active, memory, shutdown
  <2>3. store[d].generation = generation[d] /\ d \in Careful => durable[d] = version[d]
    BY <1>3 DEF Stored, IInv, WorkIsDirty, Careful, SnapshotBetween, Active
  <2>4. CleanIsDurable'
    BY <1>3, <2>3 DEF Stored, MarkStored, IInv, CleanIsDurable, memory
  <2>5. ServicePhase'
    BY <1>3 DEF Stored, MarkStored, IInv, ServicePhase, memory, shutdown
  <2> QED BY <2>1, <2>2, <2>4, <2>5 DEF IInv
<1>4. CASE AttemptFails(d)
  BY <1>4, FailureSteps DEF AttemptFails, Active, IInv, Types
<1>5. CASE AttemptTimesOut(d)
  <2>1. strays' \subseteq Careless \X Nat
    BY <1>5 DEF AttemptTimesOut, IInv, Types, IsStore
  <2> QED BY <1>5, <2>1, FailureSteps DEF AttemptTimesOut, Active
<1>6. CASE Retry(d)
  <2>1. Types'
    <3> DEFINE s == AttemptOf(store[d].attempt + 1, store[d].generation, store[d].state)
    <3>1. IsStore(s)
      BY DEF AttemptOf, IInv, Types, IsStore, StorePhases
    <3>2. store' = [store EXCEPT ![d] = s]
      BY <1>6 DEF Retry, IInv, Types
    <3> HIDE DEF s
    <3> QED BY <1>6, <3>1, <3>2 DEF Retry, IInv, Types, memory, guard
  <2>2. WorkIsDirty' /\ SnapshotBetween'
    BY <1>6 DEF Retry, AttemptOf, IInv, Types, IsStore, WorkIsDirty, Careful, SnapshotBetween,
                Active, memory,
                guard, shutdown
  <2>3. ServicePhase' /\ CleanIsDurable'
    BY <1>6 DEF Retry, IInv, ServicePhase, CleanIsDurable, memory, guard, shutdown
  <2> QED BY <2>1, <2>2, <2>3 DEF IInv
<1> QED BY <1>1, <1>2, <1>3, <1>4, <1>5, <1>6

LEMMA StrayStep ==
  ASSUME IInv, NEW d \in Docs, NEW s \in 0..MaxUpdates, StrayWrite(d, s)
  PROVE  IInv'
<1>1. d \in Careless /\ s \in Nat
  BY DEF StrayWrite, IInv, Types
<1>2. /\ UNCHANGED <<memory, guard, store, shutdown>>
      /\ durable' = [durable EXCEPT ![d] = s]
      /\ strays' \subseteq strays
  BY DEF StrayWrite
<1>3. \A e \in Careful : durable'[e] = durable[e]
  BY <1>1, <1>2 DEF IInv, Types, Careful
<1>4. Types'
  BY <1>1, <1>2 DEF IInv, Types, memory, guard
<1>5. WorkIsDirty' /\ ServicePhase'
  BY <1>2 DEF IInv, WorkIsDirty, ServicePhase, Active, memory, guard, shutdown
<1>6. SnapshotBetween' /\ CleanIsDurable'
  BY <1>2, <1>3 DEF IInv, Careful, SnapshotBetween, CleanIsDurable, Active, memory, guard
<1> QED BY <1>4, <1>5, <1>6 DEF IInv

LEMMA ServiceSteps ==
  ASSUME IInv, Close \/ Destroyed \/ ForceUnload \/ ForceEnds
  PROVE  IInv'
<1>1. UNCHANGED <<documents, version, debounced, guard, store, strays, durable>>
  BY DEF Close, Destroyed, ForceUnload, ForceEnds, memory
<1>2. connected' = {}
  BY DEF IInv, ServicePhase, Close, Destroyed, ForceUnload, ForceEnds, memory
<1>3. Types' /\ WorkIsDirty' /\ SnapshotBetween' /\ CleanIsDurable'
  BY <1>1, <1>2 DEF IInv, Types, WorkIsDirty, Careful, SnapshotBetween, CleanIsDurable, Active,
                    guard
<1>4. ServicePhase'
  BY <1>1, <1>2 DEF IInv, ServicePhase, Close, Destroyed, ForceUnload, ForceEnds, guard
<1> QED BY <1>3, <1>4 DEF IInv

LEMMA TickStep ==
  ASSUME IInv, Tick
  PROVE  IInv'
<1>1. /\ DOMAIN store' = Docs
      /\ \A d \in Docs :
           /\ IsStore(store'[d])
           /\ store'[d].phase = store[d].phase
           /\ store'[d].generation = store[d].generation
           /\ store'[d].state = store[d].state
  BY DEF Tick, IInv, Types, IsStore
<1>2. UNCHANGED <<memory, guard, strays, durable, service>>
  BY DEF Tick
<1>3. Types'
  BY <1>1, <1>2 DEF IInv, Types, memory, guard
<1>4. WorkIsDirty' /\ SnapshotBetween' /\ ServicePhase' /\ CleanIsDurable'
  BY <1>1, <1>2 DEF IInv, WorkIsDirty, Careful, SnapshotBetween, ServicePhase, CleanIsDurable,
                    Active,
                    memory, guard
<1> QED BY <1>3, <1>4 DEF IInv

LEMMA NextIInv ==
  ASSUME IInv, [Next]_vars
  PROVE  IInv'
<1>1. CASE UNCHANGED vars
  BY <1>1 DEF vars, IInv, Types, IsStore, WorkIsDirty, Careful, SnapshotBetween, ServicePhase,
              CleanIsDurable, Active
<1>2. CASE Tick
  BY <1>2, TickStep
<1>3. CASE Close \/ Destroyed \/ ForceUnload \/ ForceEnds
  BY <1>3, ServiceSteps
<1>4. ASSUME NEW d \in Docs, Connect(d) \/ Update(d) \/ Disconnect(d) \/ Unload(d)
      PROVE  IInv'
  BY <1>4, DocumentSteps
<1>5. ASSUME NEW d \in Docs, StoreStep(d) \/ Persist(d) \/ AttemptFails(d)
      PROVE  IInv'
  BY <1>5, StoreSteps DEF StoreStep
<1>6. ASSUME NEW d \in Docs, NEW s \in 0..MaxUpdates, StrayWrite(d, s)
      PROVE  IInv'
  BY <1>6, StrayStep
<1> QED BY <1>1, <1>2, <1>3, <1>4, <1>5, <1>6 DEF Next

THEOREM Invariant == Spec => []IInv
<1>1. IInv /\ [Next]_vars => IInv'
  BY NextIInv
<1> QED BY <1>1, InitIInv, PTL DEF Spec

---------------------------------------------------------------------------

\* A clean document is stored up to its last update, if aborted attempts stop.
THEOREM CleanDocumentsDurable == Spec => []CleanIsDurable
<1>1. IInv => CleanIsDurable
  BY DEF IInv
<1> QED BY <1>1, Invariant, PTL

\* Short of a forced shutdown, a document leaves memory only when it is stored.
THEOREM UnloadedDocumentsDurable == Spec => []UnloadedIsDurable
<1>1. IInv => UnloadedIsDurable
  BY DEF IInv, ServicePhase, CleanIsDurable, UnloadedIsDurable
<1> QED BY <1>1, Invariant, PTL

\* A shutdown that reports success has lost nothing.
THEOREM SuccessfulCloseDurable == Spec => []ClosedLostNothing
<1>1. IInv => ClosedLostNothing
  BY DEF IInv, ServicePhase, CleanIsDurable, ClosedLostNothing
<1> QED BY <1>1, Invariant, PTL

\* No update is forgotten before it is stored.
THEOREM NothingIsLost == Spec => []NothingLost
<1>1. IInv => NothingLost
  BY DEF IInv, ServicePhase, CleanIsDurable, UnloadedIsDurable, ClosedLostNothing, NothingLost
<1> QED BY <1>1, Invariant, PTL

\* What is stored never gets older.
THEOREM StoredOnlyGetsNewer == Spec => StoredGetsNewer
<1>1. ASSUME IInv, [Next]_vars
      PROVE  \A d \in Careful : durable'[d] >= durable[d]
  <2>1. durable \in [Docs -> Nat]
    BY <1>1 DEF IInv, Types
  <2>2. CASE UNCHANGED durable
    BY <2>1, <2>2 DEF Careful
  <2>3. ASSUME NEW d \in Docs, Persist(d) PROVE \A e \in Careful : durable'[e] >= durable[e]
    <3>1. durable' = [durable EXCEPT ![d] = store[d].state] /\ Active(d)
      BY <2>3 DEF Persist, Active
    <3>2. store[d].state \in Nat
      BY <1>1 DEF IInv, Types, IsStore
    <3>3. d \in Careful => durable[d] <= store[d].state
      BY <1>1, <3>1 DEF IInv, Careful, SnapshotBetween
    <3> QED BY <2>1, <3>1, <3>2, <3>3 DEF Careful
  <2>4. ASSUME NEW d \in Docs, NEW s \in 0..MaxUpdates, StrayWrite(d, s)
        PROVE  \A e \in Careful : durable'[e] >= durable[e]
    <3>1. d \in Careless /\ durable' = [durable EXCEPT ![d] = s]
      BY <1>1, <2>4 DEF StrayWrite, IInv, Types
    <3> QED BY <2>1, <3>1 DEF Careful
  <2>5. ASSUME NEW d \in Docs,
               \/ Connect(d) \/ Update(d) \/ Disconnect(d) \/ Unload(d)
               \/ StoreStep(d) \/ AttemptFails(d)
        PROVE  UNCHANGED durable
    BY <2>5 DEF Connect, Update, Disconnect, Unload, StoreStep, BeginStore, Stored,
                AttemptTimesOut, Retry, AttemptFails
  <2>6. CASE Close \/ Destroyed \/ ForceUnload \/ ForceEnds \/ Tick
    BY <2>2, <2>6 DEF Close, Destroyed, ForceUnload, ForceEnds, Tick
  <2> QED BY <1>1, <2>2, <2>3, <2>4, <2>5, <2>6 DEF Next, vars
<1>2. IInv /\ [Next]_vars => [\A d \in Careful : durable'[d] >= durable[d]]_vars
  BY <1>1
<1> QED BY <1>2, Invariant, PTL DEF Spec, StoredGetsNewer

---------------------------------------------------------------------------
(* Induction and recursion over numbers.                                   *)

\* A set that has 0 and with each number the next one has all numbers: if it did not have n,
\* adding 1 would map its finitely many numbers below n into those of them that are not 0.
LEMMA NaturalsByStep ==
  ASSUME NEW T, 0 \in T, \A n \in Nat : n \in T => n + 1 \in T
  PROVE  \A n \in Nat : n \in T
<1> SUFFICES ASSUME NEW n \in Nat, n \notin T PROVE FALSE
  OBVIOUS
<1> DEFINE Below == T \cap (0..n)
           next == [k \in Below |-> k + 1]
<1>1. IsFiniteSet(Below)
  <2>1. IsFiniteSet(0..n)
    BY FS_Interval
  <2> QED BY <2>1, FS_Subset
<1>2. 0 \in Below
  OBVIOUS
<1>3. /\ IsFiniteSet(Below \ {0})
      /\ Cardinality(Below \ {0}) = Cardinality(Below) - 1
  BY <1>1, <1>2, FS_RemoveElement
<1>4. Cardinality(Below) \in Nat
  BY <1>1, FS_CardinalityType
<1>5. \A k \in Below : k + 1 \in Below \ {0}
  OBVIOUS
<1>6. next \in [Below -> Below \ {0}]
  BY <1>5
<1>7. \A k, l \in Below : next[k] = next[l] => k = l
  OBVIOUS
<1>8. Cardinality(Below \ {0}) < Cardinality(Below)
  BY <1>3, <1>4
<1> HIDE DEF Below, next
<1> QED BY <1>1, <1>3, <1>6, <1>7, <1>8, FS_PigeonHole

\* What recursion over the numbers from 0 to n builds.
Builds(f, n, base, step) ==
  /\ f \in [0..n -> Nat]
  /\ f[0] = base
  /\ \A i \in 1..n : f[i] = step[<<f[i - 1], i>>]

LEMMA BuildsAgree ==
  ASSUME NEW base \in Nat, NEW step \in [Nat \X Nat -> Nat],
         NEW m \in Nat, NEW n \in Nat, NEW f, NEW g,
         Builds(f, m, base, step), Builds(g, n, base, step)
  PROVE  \A i \in Nat : i <= m /\ i <= n => f[i] = g[i]
<1> DEFINE T == {i \in Nat : i <= m /\ i <= n => f[i] = g[i]}
<1>1. 0 \in T
  BY DEF Builds
<1>2. ASSUME NEW i \in Nat, i \in T PROVE i + 1 \in T
  <2> SUFFICES ASSUME i + 1 <= m, i + 1 <= n PROVE f[i + 1] = g[i + 1]
    OBVIOUS
  <2>1. f[i] = g[i]
    BY <1>2
  <2>2. i + 1 \in 1..m /\ i + 1 \in 1..n /\ (i + 1) - 1 = i
    OBVIOUS
  <2>3. f[i + 1] = step[<<f[(i + 1) - 1], i + 1>>] /\ g[i + 1] = step[<<g[(i + 1) - 1], i + 1>>]
    BY <2>2 DEF Builds
  <2> QED BY <2>1, <2>2, <2>3
<1> HIDE DEF T
<1>3. \A i \in Nat : i \in T
  BY <1>1, <1>2, NaturalsByStep
<1> QED BY <1>3 DEF T

LEMMA BuildsExist ==
  ASSUME NEW base \in Nat, NEW step \in [Nat \X Nat -> Nat]
  PROVE  \A n \in Nat : \E f : Builds(f, n, base, step)
<1> DEFINE T == {n \in Nat : \E f : Builds(f, n, base, step)}
<1>1. 0 \in T
  <2> DEFINE f == [i \in 0..0 |-> base]
  <2>1. Builds(f, 0, base, step)
    BY DEF Builds
  <2> QED BY <2>1
<1>2. ASSUME NEW n \in Nat, n \in T PROVE n + 1 \in T
  <2>1. PICK f : Builds(f, n, base, step)
    BY <1>2
  <2> DEFINE g == [i \in 0..(n + 1) |-> IF i = n + 1 THEN step[<<f[n], n + 1>>] ELSE f[i]]
  <2>2. f \in [0..n -> Nat] /\ f[0] = base /\ \A i \in 1..n : f[i] = step[<<f[i - 1], i>>]
    BY <2>1 DEF Builds
  <2>3. g \in [0..(n + 1) -> Nat]
    <3>1. f[n] \in Nat
      BY <2>2
    <3>2. step[<<f[n], n + 1>>] \in Nat
      BY <3>1
    <3> QED BY <2>2, <3>2
  <2>4. g[0] = base
    BY <2>2
  <2>5. ASSUME NEW i \in 1..(n + 1) PROVE g[i] = step[<<g[i - 1], i>>]
    <3>1. g[i - 1] = f[i - 1] /\ i - 1 \in 0..n
      OBVIOUS
    <3>2. CASE i = n + 1
      <4>1. g[i] = step[<<f[n], n + 1>>]
        BY <3>2
      <4>2. g[i - 1] = f[n]
        BY <3>1, <3>2
      <4> QED BY <3>2, <4>1, <4>2
    <3>3. CASE i # n + 1
      <4>1. i \in 1..n
        BY <3>3
      <4>2. g[i] = f[i]
        BY <3>3
      <4>3. f[i] = step[<<f[i - 1], i>>]
        BY <2>2, <4>1
      <4> QED BY <3>1, <4>2, <4>3
    <3> QED BY <3>2, <3>3
  <2> HIDE DEF g
  <2>6. Builds(g, n + 1, base, step)
    BY <2>3, <2>4, <2>5 DEF Builds
  <2> QED BY <2>6
<1> HIDE DEF T
<1>3. \A n \in Nat : n \in T
  BY <1>1, <1>2, NaturalsByStep
<1> QED BY <1>3 DEF T

\* What it defines on all of them.
Recurs(f, base, step) ==
  /\ f \in [Nat -> Nat]
  /\ f = [n \in Nat |-> IF n = 0 THEN base ELSE step[<<f[n - 1], n>>]]

\* Recursion over the numbers defines a function.
LEMMA RecursionDefines ==
  ASSUME NEW base \in Nat, NEW step \in [Nat \X Nat -> Nat]
  PROVE  \E f : Recurs(f, base, step)
<1> DEFINE part(n) == CHOOSE g : Builds(g, n, base, step)
           f == [n \in Nat |-> part(n)[n]]
<1>1. ASSUME NEW n \in Nat PROVE Builds(part(n), n, base, step)
  BY BuildsExist
<1> HIDE DEF part
<1>2. ASSUME NEW n \in Nat PROVE f[n] = part(n)[n] /\ f[n] \in Nat
  BY <1>1 DEF Builds
<1>3. f[0] = base
  BY <1>1, <1>2 DEF Builds
<1>4. ASSUME NEW n \in Nat, n # 0 PROVE f[n] = step[<<f[n - 1], n>>]
  <2>1. n - 1 \in Nat /\ n \in 1..n
    BY <1>4
  <2>2. part(n)[n - 1] = part(n - 1)[n - 1]
    <3>1. \A i \in Nat : i <= n /\ i <= n - 1 => part(n)[i] = part(n - 1)[i]
      BY <1>1, <2>1, BuildsAgree
    <3> QED BY <2>1, <3>1
  <2>3. part(n)[n] = step[<<part(n)[n - 1], n>>]
    BY <1>1, <2>1 DEF Builds
  <2>4. f[n] = part(n)[n] /\ f[n - 1] = part(n - 1)[n - 1]
    BY <1>2, <2>1
  <2> QED BY <2>2, <2>3, <2>4
<1>5. f \in [Nat -> Nat]
  BY <1>2
<1>6. f = [n \in Nat |-> IF n = 0 THEN base ELSE step[<<f[n - 1], n>>]]
  <2> DEFINE h == [n \in Nat |-> IF n = 0 THEN base ELSE step[<<f[n - 1], n>>]]
  <2>1. \A n \in Nat : f[n] = h[n]
    BY <1>3, <1>4
  <2> QED BY <1>5, <2>1
<1> QED BY <1>5, <1>6 DEF Recurs

---------------------------------------------------------------------------
(* The last attempt before a forced unload.                                *)

\* The powers of two are numbers, and double.
LEMMA Doubling ==
  /\ PowerOfTwo \in [Nat -> Nat]
  /\ \A n \in Nat : PowerOfTwo[n] >= 1
<1> DEFINE step == [p \in Nat \X Nat |-> 2 * p[1]]
           Is(f) == f = [n \in Nat |-> IF n = 0 THEN 1 ELSE 2 * f[n - 1]]
<1>1. step \in [Nat \X Nat -> Nat]
  OBVIOUS
<1>2. PICK f : Recurs(f, 1, step)
  <2> HIDE DEF step
  <2> QED BY <1>1, RecursionDefines
<1>3. Is(f)
  <2>1. \A n \in Nat \ {0} : step[<<f[n - 1], n>>] = 2 * f[n - 1]
    BY <1>2 DEF Recurs
  <2> QED BY <1>2, <2>1 DEF Recurs
<1>4. PowerOfTwo = CHOOSE g : Is(g)
  BY DEF PowerOfTwo
<1>5. Is(PowerOfTwo)
  <2> HIDE DEF Is
  <2> QED BY <1>3, <1>4
<1> DEFINE T == {n \in Nat : PowerOfTwo[n] \in Nat /\ PowerOfTwo[n] >= 1}
<1>6. 0 \in T
  BY <1>5
<1>7. ASSUME NEW n \in Nat, n \in T PROVE n + 1 \in T
  <2>1. PowerOfTwo[n + 1] = 2 * PowerOfTwo[(n + 1) - 1]
    BY <1>5
  <2> QED BY <1>7, <2>1
<1>8. \A n \in Nat : n \in T
  <2> HIDE DEF T
  <2> QED BY <1>6, <1>7, NaturalsByStep
<1> QED BY <1>5, <1>8

\* Each wait between two attempts takes time.
LEMMA DelaysTakeTime == \A n \in Nat \ {0} : Delay(n) \in Nat /\ Delay(n) >= 1
<1> SUFFICES ASSUME NEW n \in Nat \ {0} PROVE Delay(n) \in Nat /\ Delay(n) >= 1
  OBVIOUS
<1>1. PICK p \in Nat : p = PowerOfTwo[n - 1] /\ p >= 1
  BY Doubling
<1>2. BaseDelay \in Nat /\ BaseDelay >= 1
  BY DurabilityAssumption
<1>3. BaseDelay * p \in Nat /\ BaseDelay * p >= 1
  BY <1>1, <1>2
<1> QED BY <1>1, <1>3 DEF Delay

\* RetryDelays adds them up.
LEMMA DelaysAdd ==
  /\ RetryDelays \in [Nat -> Nat]
  /\ RetryDelays[0] = 0
  /\ \A n \in Nat \ {0} : RetryDelays[n] = RetryDelays[n - 1] + Delay(n)
<1> DEFINE step == [p \in Nat \X Nat |-> IF p[2] = 0 THEN 0 ELSE p[1] + Delay(p[2])]
           Is(f) == f = [n \in Nat |-> IF n = 0 THEN 0 ELSE f[n - 1] + Delay(n)]
<1>1. step \in [Nat \X Nat -> Nat]
  BY DelaysTakeTime
<1>2. PICK f : Recurs(f, 0, step)
  <2> HIDE DEF step
  <2> QED BY <1>1, RecursionDefines
<1>3. Is(f)
  <2>1. \A n \in Nat \ {0} : step[<<f[n - 1], n>>] = f[n - 1] + Delay(n)
    BY <1>2 DEF Recurs
  <2> QED BY <1>2, <2>1 DEF Recurs
<1>4. RetryDelays = CHOOSE g : Is(g)
  BY DEF RetryDelays
<1>5. Is(RetryDelays)
  <2> HIDE DEF Is
  <2> QED BY <1>3, <1>4
<1> DEFINE T == {n \in Nat : RetryDelays[n] \in Nat}
<1>6. 0 \in T
  BY <1>5
<1>7. ASSUME NEW n \in Nat, n \in T PROVE n + 1 \in T
  <2>1. RetryDelays[n + 1] = RetryDelays[(n + 1) - 1] + Delay(n + 1)
    BY <1>5
  <2>2. Delay(n + 1) \in Nat
    BY DelaysTakeTime
  <2> QED BY <1>7, <2>1, <2>2
<1>8. \A n \in Nat : n \in T
  <2> HIDE DEF T
  <2> QED BY <1>6, <1>7, NaturalsByStep
<1> QED BY <1>5, <1>8

\* The time that the attempts after the n-th and the waits before them take.
Later(n) ==
  (Attempts - n) * AttemptTimeout + (RetryDelays[Attempts - 1] - RetryDelays[n - 1])

LEMMA LaterAttempts ==
  /\ \A n \in 1..Attempts : Later(n) \in Nat
  /\ \A n \in 1..(Attempts - 1) : Later(n) = Delay(n) + AttemptTimeout + Later(n + 1)
  /\ RetryWindow = AttemptTimeout + Later(1)
<1>1. Attempts \in Nat \ {0} /\ AttemptTimeout \in Nat \ {0}
  BY DurabilityAssumption
<1>2. ASSUME NEW n \in 1..(Attempts - 1)
      PROVE  Later(n) = Delay(n) + AttemptTimeout + Later(n + 1)
  <2>1. PICK m \in Nat : m = Attempts - (n + 1)
    BY <1>1
  <2>2. Attempts - n = m + 1
    BY <1>1, <2>1
  <2>3. (m + 1) * AttemptTimeout = m * AttemptTimeout + AttemptTimeout /\ m * AttemptTimeout \in Nat
    BY <1>1, <2>1
  <2>4. PICK a \in Nat, b \in Nat, c \in Nat, e \in Nat :
          /\ a = RetryDelays[n - 1] /\ b = RetryDelays[n] /\ c = Delay(n)
          /\ e = RetryDelays[Attempts - 1]
    BY <1>1, DelaysAdd, DelaysTakeTime
  <2>5. b = a + c
    BY <2>4, DelaysAdd
  <2>6. Later(n) = (m + 1) * AttemptTimeout + (e - a)
    BY <2>2, <2>4 DEF Later
  <2>7. Later(n + 1) = m * AttemptTimeout + (e - b)
    <3>1. (n + 1) - 1 = n
      OBVIOUS
    <3> QED BY <2>1, <2>4, <3>1 DEF Later
  <2>8. PICK p \in Nat : p = m * AttemptTimeout
    BY <2>3
  <2>9. Later(n) = p + AttemptTimeout + (e - a)
    BY <2>3, <2>6, <2>8
  <2>10. Later(n + 1) = p + (e - b)
    BY <2>7, <2>8
  <2> QED BY <1>1, <2>4, <2>5, <2>9, <2>10
<1> DEFINE T == {k \in Nat : k < Attempts => Later(Attempts - k) \in Nat}
<1>3. 0 \in T
  <2>1. Attempts - 0 = Attempts /\ Attempts - Attempts = 0 /\ 0 * AttemptTimeout = 0
    BY <1>1
  <2>2. RetryDelays[Attempts - 1] \in Nat
    BY <1>1, DelaysAdd
  <2>3. RetryDelays[Attempts - 1] - RetryDelays[Attempts - 1] = 0
    BY <2>2
  <2> QED BY <2>1, <2>3 DEF Later
<1>4. ASSUME NEW k \in Nat, k \in T PROVE k + 1 \in T
  <2> SUFFICES ASSUME k + 1 < Attempts PROVE Later(Attempts - (k + 1)) \in Nat
    OBVIOUS
  <2>1. PICK n \in 1..(Attempts - 1) : n = Attempts - (k + 1)
    BY <1>1
  <2>2. n + 1 = Attempts - k
    BY <1>1, <2>1
  <2>3. Later(n + 1) \in Nat
    BY <1>1, <1>4, <2>2
  <2>4. Delay(n) \in Nat
    BY DelaysTakeTime
  <2>5. Later(n) = Delay(n) + AttemptTimeout + Later(n + 1)
    BY <1>2
  <2> QED BY <1>1, <2>1, <2>3, <2>4, <2>5
<1>5. \A k \in Nat : k \in T
  <2> HIDE DEF T
  <2> QED BY <1>3, <1>4, NaturalsByStep
<1>6. ASSUME NEW n \in 1..Attempts PROVE Later(n) \in Nat
  <2>1. PICK k \in Nat : k = Attempts - n /\ k < Attempts /\ Attempts - k = n
    BY <1>1
  <2>2. k \in T
    BY <1>5
  <2> QED BY <2>1, <2>2
<1>7. RetryWindow = AttemptTimeout + Later(1)
  <2>1. PICK m \in Nat : m = Attempts - 1 /\ Attempts = m + 1
    BY <1>1
  <2>2. (m + 1) * AttemptTimeout = m * AttemptTimeout + AttemptTimeout /\ m * AttemptTimeout \in Nat
    BY <1>1
  <2>3. RetryDelays[1 - 1] = 0
    BY DelaysAdd
  <2>4. PICK e \in Nat : e = RetryDelays[Attempts - 1]
    BY <1>1, DelaysAdd
  <2>5. Later(1) = m * AttemptTimeout + e
    BY <2>1, <2>3, <2>4 DEF Later
  <2>6. RetryWindow = (m + 1) * AttemptTimeout + e
    BY <2>1, <2>4 DEF RetryWindow
  <2> QED BY <1>1, <2>2, <2>4, <2>5, <2>6
<1> QED BY <1>2, <1>6, <1>7

\* The longest that a store under way goes on: the time left to its attempt, or to its wait
\* and the attempt after that, and all that follows.
RestOf(s) ==
  IF s.phase = "wait"
  THEN s.left + AttemptTimeout + Later(s.attempt + 1)
  ELSE s.left + Later(s.attempt)

Rest(d) == RestOf(store[d])

\* With the store that is scheduled after it.
Owed(d) ==
  (IF Active(d) THEN Rest(d) ELSE 0) + (IF d \in debounced THEN RetryWindow ELSE 0)

\* The numbers of a store under way, which lasts no longer than one window.
StoreTimes(s) ==
  /\ s.phase # "idle" => s.attempt \in 1..Attempts /\ RestOf(s) <= RetryWindow
  /\ s.phase = "wait" => s.attempt < Attempts

\* While the service closes nobody sends an update, and a document that did not have two
\* stores to go when close() was called owes no more time than is left.
ClosingInTime ==
  service = "closing" =>
    /\ connected = {}
    /\ \A d \in Docs \ behind : Active(d) \/ d \in debounced => Owed(d) <= deadline

TypedTimers == TypeOK /\ \A d \in Docs : StoreTimes(store[d])

LEMMA WindowTakesTime ==
  /\ RetryWindow \in Nat /\ RetryWindow >= AttemptTimeout
  /\ AttemptTimeout \in Nat \ {0} /\ ShutdownTimeout \in Nat
<1>1. AttemptTimeout \in Nat \ {0} /\ Attempts \in Nat \ {0} /\ ShutdownTimeout \in Nat
  BY DurabilityAssumption
<1>2. Later(1) \in Nat
  BY <1>1, LaterAttempts
<1>3. RetryWindow \in Nat /\ RetryWindow >= AttemptTimeout
  BY <1>1, <1>2, LaterAttempts
<1> QED BY <1>1, <1>3

LEMMA RestIsTime ==
  ASSUME NEW s \in Store, s.phase # "idle", StoreTimes(s)
  PROVE  /\ RestOf(s) \in Nat
         /\ s.attempt < Attempts => RestOf(s) >= AttemptTimeout
<1>1. AttemptTimeout \in Nat \ {0} /\ Attempts \in Nat \ {0}
  BY DurabilityAssumption
<1>2. PICK n \in 1..Attempts, l \in Nat : n = s.attempt /\ l = s.left
  BY DEF StoreTimes, Store
<1>3. n < Attempts => n \in 1..(Attempts - 1) /\ n + 1 \in 1..Attempts
  BY <1>1
<1>4. CASE s.phase = "wait"
  <2>1. n < Attempts
    BY <1>2, <1>4 DEF StoreTimes
  <2>2. Later(n + 1) \in Nat
    BY <1>3, <2>1, LaterAttempts
  <2>3. RestOf(s) = l + AttemptTimeout + Later(n + 1)
    BY <1>2, <1>4 DEF RestOf
  <2> QED BY <1>1, <1>2, <2>2, <2>3
<1>5. CASE s.phase # "wait"
  <2>1. Later(n) \in Nat
    BY LaterAttempts
  <2>2. RestOf(s) = l + Later(n)
    BY <1>2, <1>5 DEF RestOf
  <2>3. n < Attempts => Later(n) >= AttemptTimeout
    <3> SUFFICES ASSUME n < Attempts PROVE Later(n) >= AttemptTimeout
      OBVIOUS
    <3>1. Later(n) = Delay(n) + AttemptTimeout + Later(n + 1) /\ Later(n + 1) \in Nat
      BY <1>3, LaterAttempts
    <3>2. Delay(n) \in Nat
      BY DelaysTakeTime
    <3> QED BY <1>1, <3>1, <3>2
  <2> QED BY <1>1, <1>2, <2>1, <2>2, <2>3
<1> QED BY <1>4, <1>5

\* What follows an attempt is part of what was left of it.
LEMMA FailureGoesOn ==
  ASSUME NEW s \in Store, s.phase \in {"attempt", "written"}, StoreTimes(s)
  PROVE  /\ AfterFailure(s) \in Store
         /\ StoreTimes(AfterFailure(s))
         /\ AfterFailure(s).phase # "idle" => RestOf(AfterFailure(s)) <= RestOf(s)
<1>1. AttemptTimeout \in Nat \ {0} /\ Attempts \in Nat \ {0}
  BY DurabilityAssumption
<1>2. PICK n \in 1..Attempts, l \in Nat : n = s.attempt /\ l = s.left
  BY DEF StoreTimes, Store
<1>3. CASE n = Attempts
  <2>1. AfterFailure(s) = IdleStore
    BY <1>2, <1>3 DEF AfterFailure
  <2>2. IdleStore \in Store
    BY <1>1 DEF IdleStore, Store, StorePhases
  <2> QED BY <2>1, <2>2 DEF StoreTimes, IdleStore
<1>4. CASE n # Attempts
  <2>1. AfterFailure(s) = [s EXCEPT !.phase = "wait", !.left = Delay(n)]
    BY <1>2, <1>4 DEF AfterFailure
  <2>2. Delay(n) \in Nat
    BY DelaysTakeTime
  <2> DEFINE w == [s EXCEPT !.phase = "wait", !.left = Delay(n)]
  <2>3. w \in Store /\ w.phase = "wait" /\ w.left = Delay(n) /\ w.attempt = n
    BY <1>2, <2>2 DEF Store, StorePhases
  <2> HIDE DEF w
  <2>4. n \in 1..(Attempts - 1) /\ n + 1 \in 1..Attempts /\ n < Attempts
    BY <1>1, <1>4
  <2>5. Later(n) = Delay(n) + AttemptTimeout + Later(n + 1)
    BY <2>4, LaterAttempts
  <2>6. RestOf(w) = Later(n)
    BY <2>3, <2>5 DEF RestOf
  <2>7. RestOf(s) = l + Later(n) /\ Later(n) \in Nat
    BY <1>2, LaterAttempts DEF RestOf
  <2>8. RestOf(s) <= RetryWindow /\ RetryWindow \in Nat
    BY WindowTakesTime DEF StoreTimes
  <2>9. RestOf(w) <= RestOf(s) /\ RestOf(w) <= RetryWindow
    BY <2>6, <2>7, <2>8
  <2>10. StoreTimes(w)
    BY <2>3, <2>4, <2>9 DEF StoreTimes
  <2> QED BY <2>1, <2>3, <2>9, <2>10 DEF w
<1> QED BY <1>3, <1>4

\* The next attempt was counted while the store waited for it.
LEMMA RetryGoesOn ==
  ASSUME NEW s \in Store, s.phase = "wait", s.left = 0, StoreTimes(s)
  PROVE  LET a == AttemptOf(s.attempt + 1, s.generation, s.state)
         IN  a \in Store /\ StoreTimes(a) /\ RestOf(a) = RestOf(s)
<1>1. AttemptTimeout \in Nat \ {0} /\ Attempts \in Nat \ {0}
  BY DurabilityAssumption
<1>2. PICK n \in 1..(Attempts - 1) : n = s.attempt
  BY <1>1 DEF StoreTimes
<1> DEFINE a == AttemptOf(s.attempt + 1, s.generation, s.state)
<1>3. a \in Store /\ a.phase = "attempt" /\ a.left = AttemptTimeout /\ a.attempt = n + 1
  BY <1>1, <1>2 DEF AttemptOf, Store, StorePhases
<1> HIDE DEF a
<1>4. n + 1 \in 1..Attempts /\ Later(n + 1) \in Nat
  BY <1>1, LaterAttempts
<1>5. RestOf(a) = AttemptTimeout + Later(n + 1)
  BY <1>3 DEF RestOf
<1>6. RestOf(s) = 0 + AttemptTimeout + Later(n + 1)
  BY <1>2 DEF RestOf
<1>7. RestOf(a) = RestOf(s)
  BY <1>1, <1>4, <1>5, <1>6
<1>8. StoreTimes(a)
  BY <1>3, <1>4, <1>7 DEF StoreTimes
<1> QED BY <1>3, <1>7, <1>8 DEF a

\* A new store takes one window at most.
LEMMA NewStoreTakesAWindow ==
  ASSUME NEW g \in Nat, NEW v \in Nat
  PROVE  LET a == AttemptOf(1, g, v)
         IN  a \in Store /\ StoreTimes(a) /\ RestOf(a) = RetryWindow
<1>1. AttemptTimeout \in Nat \ {0} /\ Attempts \in Nat \ {0}
  BY DurabilityAssumption
<1> DEFINE a == AttemptOf(1, g, v)
<1>2. a \in Store /\ a.phase = "attempt" /\ a.left = AttemptTimeout /\ a.attempt = 1
  BY <1>1 DEF AttemptOf, Store, StorePhases
<1> HIDE DEF a
<1>3. RestOf(a) = RetryWindow /\ RetryWindow \in Nat
  BY <1>2, LaterAttempts, WindowTakesTime DEF RestOf
<1>4. StoreTimes(a)
  BY <1>1, <1>2, <1>3 DEF StoreTimes
<1> QED BY <1>2, <1>3, <1>4 DEF a

\* A tick takes one from what is left.
LEMMA TickGoesOn ==
  ASSUME NEW s \in Store, s.phase # "idle", s.left # 0, StoreTimes(s)
  PROVE  LET t == [s EXCEPT !.left = @ - 1]
         IN  t \in Store /\ StoreTimes(t) /\ t.phase = s.phase /\ RestOf(t) = RestOf(s) - 1
<1> DEFINE t == [s EXCEPT !.left = @ - 1]
<1>1. PICK l \in Nat \ {0}, n \in 1..Attempts : l = s.left /\ n = s.attempt
  BY DEF Store, StoreTimes
<1>2. t \in Store /\ t.phase = s.phase /\ t.left = l - 1 /\ t.attempt = n
  BY <1>1 DEF Store
<1> HIDE DEF t
<1>3. RestOf(s) \in Nat /\ RestOf(s) <= RetryWindow /\ RetryWindow \in Nat
  BY RestIsTime, WindowTakesTime DEF StoreTimes
<1>4. AttemptTimeout \in Nat \ {0} /\ Attempts \in Nat \ {0}
  BY DurabilityAssumption
<1>5. RestOf(t) = RestOf(s) - 1
  <2>1. CASE s.phase = "wait"
    <3>1. n + 1 \in 1..Attempts
      BY <1>1, <1>4, <2>1 DEF StoreTimes
    <3>2. PICK m \in Nat : m = Later(n + 1)
      BY <3>1, LaterAttempts
    <3>3. RestOf(s) = l + AttemptTimeout + m /\ RestOf(t) = (l - 1) + AttemptTimeout + m
      BY <1>1, <1>2, <2>1, <3>2 DEF RestOf
    <3> QED BY <1>4, <3>3
  <2>2. CASE s.phase # "wait"
    <3>1. PICK m \in Nat : m = Later(n)
      BY LaterAttempts
    <3>2. RestOf(s) = l + m /\ RestOf(t) = (l - 1) + m
      BY <1>1, <1>2, <2>2, <3>1 DEF RestOf
    <3> QED BY <3>2
  <2> QED BY <2>1, <2>2
<1>6. StoreTimes(t)
  BY <1>1, <1>2, <1>3, <1>5 DEF StoreTimes
<1> QED BY <1>2, <1>5, <1>6 DEF t

\* One store goes on, or ends; the others and the clock stay.
Moved(d, next) ==
  /\ store' \in [Docs -> Store]
  /\ store'[d] = next
  /\ \A e \in Docs \ {d} : store'[e] = store[e]
  /\ UNCHANGED <<connected, shutdown>>

LEMMA StoreGoesOn ==
  ASSUME TypedTimers, ClosingInTime, TypeOK', NEW d \in Docs, NEW next \in Store, Moved(d, next),
         Active(d), StoreTimes(next), next.phase # "idle" => RestOf(next) <= Rest(d),
         debounced' = debounced
  PROVE  TypedTimers' /\ ClosingInTime'
<1>1. \A e \in Docs : StoreTimes(store'[e])
  BY DEF Moved, TypedTimers
<1>2. TypedTimers'
  BY <1>1 DEF TypedTimers
<1>3. ASSUME service' = "closing" PROVE ClosingInTime'
  <2>1. service = "closing" /\ connected' = {} /\ deadline' = deadline /\ behind' = behind
    BY <1>3 DEF ClosingInTime, Moved, shutdown
  <2>2. ASSUME NEW e \in Docs \ behind, (Active(e) \/ e \in debounced)'
        PROVE  (Owed(e) <= deadline)'
    <3>1. CASE e # d
      <4>1. store'[e] = store[e]
        BY <3>1 DEF Moved
      <4>2. (Active(e) \/ e \in debounced) /\ Owed(e)' = Owed(e)
        BY <2>2, <4>1 DEF Active, Owed, Rest
      <4> QED BY <2>1, <4>2 DEF ClosingInTime
    <3>2. CASE e = d
      <4>1. store'[d] = next /\ store[d] \in Store /\ StoreTimes(store[d]) /\ store[d].phase # "idle"
        BY DEF Moved, TypedTimers, TypeOK, Active
      <4>2. PICK r \in Nat : r = Rest(d)
        BY <4>1, RestIsTime DEF Rest
      <4>3. PICK q \in Nat : q = IF d \in debounced THEN RetryWindow ELSE 0
        BY WindowTakesTime
      <4>4. Owed(d) = r + q
        BY <4>2, <4>3 DEF Owed
      <4>5. r + q <= deadline
        BY <2>1, <2>2, <3>2, <4>4 DEF ClosingInTime
      <4>6. Owed(d)' = (IF next.phase # "idle" THEN RestOf(next) ELSE 0) + q
        BY <4>1, <4>3 DEF Owed, Active, Rest
      <4>7. (IF next.phase # "idle" THEN RestOf(next) ELSE 0) \in Nat
        BY RestIsTime
      <4>8. (IF next.phase # "idle" THEN RestOf(next) ELSE 0) <= r
        BY <4>2
      <4>9. deadline \in Nat
        BY WindowTakesTime DEF TypedTimers, TypeOK
      <4>10. PICK x \in Nat : x = IF next.phase # "idle" THEN RestOf(next) ELSE 0
        BY <4>7
      <4>11. x + q <= deadline
        BY <4>5, <4>8, <4>9, <4>10
      <4> QED BY <2>1, <3>2, <4>6, <4>10, <4>11
    <3> QED BY <3>1, <3>2
  <2> QED BY <2>1, <2>2 DEF ClosingInTime
<1> QED BY <1>2, <1>3 DEF ClosingInTime

\* Steps that touch neither the stores nor the clock.
LEMMA OthersKeepTime ==
  ASSUME TypedTimers, ClosingInTime, TypeOK', UNCHANGED <<store, shutdown>>,
         service = "closing" => debounced' \subseteq debounced /\ connected' \subseteq connected
  PROVE  TypedTimers' /\ ClosingInTime'
<1>1. TypedTimers'
  BY DEF TypedTimers
<1>2. ASSUME service' = "closing" PROVE ClosingInTime'
  <2>1. service = "closing" /\ connected' = {} /\ deadline' = deadline /\ behind' = behind
    BY <1>2 DEF ClosingInTime, shutdown
  <2>2. ASSUME NEW e \in Docs \ behind, (Active(e) \/ e \in debounced)'
        PROVE  (Owed(e) <= deadline)'
    <3>1. Active(e) \/ e \in debounced
      BY <2>1, <2>2 DEF Active
    <3>2. Owed(e) <= deadline
      BY <2>1, <3>1 DEF ClosingInTime
    <3>3. deadline \in Nat /\ RetryWindow \in Nat
      BY WindowTakesTime DEF TypedTimers, TypeOK
    <3>4. PICK x \in Nat : x = IF Active(e) THEN Rest(e) ELSE 0
      BY RestIsTime DEF Rest, Active, TypedTimers, TypeOK
    <3>5. Owed(e) = x + (IF e \in debounced THEN RetryWindow ELSE 0)
      BY <3>4 DEF Owed
    <3>6. Owed(e)' = x + (IF e \in debounced' THEN RetryWindow ELSE 0)
      BY <3>4 DEF Owed, Active, Rest
    <3> QED BY <2>1, <3>2, <3>3, <3>5, <3>6
  <2> QED BY <2>1, <2>2 DEF ClosingInTime
<1> QED BY <1>1, <1>2 DEF ClosingInTime

LEMMA BeginStoreInTime ==
  ASSUME TypedTimers, ClosingInTime, NEW d \in Docs, BeginStore(d)
  PROVE  TypedTimers' /\ ClosingInTime'
<1>1. d \in debounced /\ ~Active(d) /\ debounced' = debounced \ {d}
  BY DEF BeginStore
<1>2. CASE version[d] > MaxDocument
  <2>1. store' = store
    BY <1>2 DEF BeginStore
  <2>2. TypeOK'
    BY <2>1 DEF BeginStore, TypedTimers, TypeOK, guard, shutdown
  <2> QED BY <1>1, <2>1, <2>2, OthersKeepTime DEF BeginStore, shutdown
<1>3. CASE ~(version[d] > MaxDocument)
  <2> DEFINE a == AttemptOf(1, generation[d], version[d])
  <2>1. a \in Store /\ StoreTimes(a) /\ RestOf(a) = RetryWindow
    BY NewStoreTakesAWindow DEF TypedTimers, TypeOK
  <2>2. store' = [store EXCEPT ![d] = a]
    BY <1>3 DEF BeginStore, NewStore, BeginGeneration
  <2> HIDE DEF a
  <2>3. TypeOK'
    BY <2>1, <2>2 DEF BeginStore, TypedTimers, TypeOK, guard, shutdown
  <2>4. store'[d] = a /\ \A e \in Docs \ {d} : store'[e] = store[e]
    BY <2>2 DEF TypedTimers, TypeOK
  <2>5. TypedTimers'
    BY <2>1, <2>3, <2>4 DEF TypedTimers
  <2>6. ASSUME service' = "closing" PROVE ClosingInTime'
    <3>1. service = "closing" /\ connected' = {} /\ deadline' = deadline /\ behind' = behind
      BY <2>6 DEF ClosingInTime, BeginStore, shutdown
    <3>2. ASSUME NEW e \in Docs \ behind, (Active(e) \/ e \in debounced)'
          PROVE  (Owed(e) <= deadline)'
      <4>1. CASE e # d
        <5>1. store'[e] = store[e] /\ (e \in debounced' <=> e \in debounced)
          BY <1>1, <2>4, <4>1
        <5>2. (Active(e) \/ e \in debounced) /\ Owed(e)' = Owed(e)
          BY <3>2, <5>1 DEF Active, Owed, Rest
        <5> QED BY <3>1, <5>2 DEF ClosingInTime
      <4>2. CASE e = d
        <5>1. RetryWindow \in Nat
          BY WindowTakesTime
        <5>2. Owed(d) = 0 + RetryWindow /\ Owed(d) <= deadline
          BY <1>1, <3>1, <3>2, <4>2 DEF Owed, ClosingInTime
        <5>3. a.phase = "attempt"
          BY DEF a, AttemptOf
        <5>4. Owed(d)' = RetryWindow + 0
          BY <1>1, <2>1, <2>4, <5>3 DEF Owed, Active, Rest
        <5> QED BY <3>1, <4>2, <5>1, <5>2, <5>4
      <4> QED BY <4>1, <4>2
    <3> QED BY <3>1, <3>2 DEF ClosingInTime
  <2> QED BY <2>5, <2>6 DEF ClosingInTime
<1> QED BY <1>2, <1>3

LEMMA AttemptsInTime ==
  ASSUME TypedTimers, ClosingInTime, NEW d \in Docs,
         Persist(d) \/ Stored(d) \/ AttemptFails(d) \/ AttemptTimesOut(d) \/ Retry(d)
  PROVE  TypedTimers' /\ ClosingInTime'
<1> DEFINE s == store[d]
<1>1. s \in Store /\ StoreTimes(s) /\ Active(d) /\ s.phase # "idle"
  BY DEF Persist, Stored, AttemptFails, AttemptTimesOut, Retry, Active, TypedTimers, TypeOK
<1>2. /\ UNCHANGED <<documents, version, connected, debounced, service, deadline, behind>>
  BY DEF Persist, Stored, AttemptFails, AttemptTimesOut, Retry, memory, shutdown
<1>3. /\ generation' \in [Docs -> Nat] /\ dirty' \subseteq Docs
      /\ strays' \subseteq Docs \X Nat /\ durable' \in [Docs -> Nat]
  <2>1. s.state \in Nat
    BY <1>1 DEF Store
  <2>2. UNCHANGED generation /\ dirty' \subseteq dirty
    BY DEF Persist, Stored, AttemptFails, AttemptTimesOut, Retry, MarkStored, guard
  <2>3. strays' \in {strays, strays \union {<<d, s.state>>}}
    BY DEF Persist, Stored, AttemptFails, AttemptTimesOut, Retry
  <2>4. durable' = durable \/ durable' = [durable EXCEPT ![d] = s.state]
    BY DEF Persist, Stored, AttemptFails, AttemptTimesOut, Retry
  <2> QED BY <2>1, <2>2, <2>3, <2>4 DEF TypedTimers, TypeOK
<1>4. ASSUME NEW next \in Store, store' = [store EXCEPT ![d] = next], StoreTimes(next),
             next.phase # "idle" => RestOf(next) <= RestOf(s)
      PROVE  TypedTimers' /\ ClosingInTime'
  <2>1. store' \in [Docs -> Store]
    BY <1>4 DEF TypedTimers, TypeOK
  <2>2. TypeOK'
    BY <1>2, <1>3, <2>1 DEF TypedTimers, TypeOK
  <2>3. Moved(d, next)
    BY <1>2, <1>4, <2>1 DEF Moved, shutdown, TypedTimers, TypeOK
  <2> QED BY <1>1, <1>2, <1>4, <2>2, <2>3, StoreGoesOn DEF Rest
<1>5. CASE Persist(d)
  <2> DEFINE w == [s EXCEPT !.phase = "written"]
  <2>1. store' = [store EXCEPT ![d] = w] /\ s.phase = "attempt"
    BY <1>5 DEF Persist
  <2>2. w \in Store /\ w.phase = "written" /\ w.left = s.left /\ w.attempt = s.attempt
    BY <1>1 DEF Store, StorePhases
  <2> HIDE DEF w
  <2>3. RestOf(w) = RestOf(s)
    BY <2>1, <2>2 DEF RestOf
  <2>4. RestOf(s) \in Nat
    BY <1>1, RestIsTime
  <2>5. StoreTimes(w) /\ RestOf(w) <= RestOf(s)
    BY <1>1, <2>2, <2>3, <2>4 DEF StoreTimes
  <2> QED BY <1>4, <2>1, <2>2, <2>5
<1>6. CASE Stored(d)
  <2>1. IdleStore \in Store /\ StoreTimes(IdleStore) /\ IdleStore.phase = "idle"
    BY DurabilityAssumption DEF IdleStore, Store, StorePhases, StoreTimes
  <2>2. store' = [store EXCEPT ![d] = IdleStore]
    BY <1>6 DEF Stored
  <2> QED BY <1>4, <2>1, <2>2
<1>7. CASE AttemptFails(d) \/ AttemptTimesOut(d)
  <2>1. s.phase \in {"attempt", "written"} /\ store' = [store EXCEPT ![d] = AfterFailure(s)]
    BY <1>7 DEF AttemptFails, AttemptTimesOut
  <2>2. /\ AfterFailure(s) \in Store
        /\ StoreTimes(AfterFailure(s))
        /\ AfterFailure(s).phase # "idle" => RestOf(AfterFailure(s)) <= RestOf(s)
    BY <1>1, <2>1, FailureGoesOn
  <2> QED BY <1>4, <2>1, <2>2
<1>8. CASE Retry(d)
  <2> DEFINE a == AttemptOf(s.attempt + 1, s.generation, s.state)
  <2>1. s.phase = "wait" /\ s.left = 0 /\ store' = [store EXCEPT ![d] = a]
    BY <1>8 DEF Retry
  <2>2. a \in Store /\ StoreTimes(a) /\ RestOf(a) = RestOf(s)
    BY <1>1, <2>1, RetryGoesOn
  <2>3. RestOf(s) \in Nat
    BY <1>1, RestIsTime
  <2> HIDE DEF a
  <2>4. RestOf(a) <= RestOf(s)
    BY <2>2, <2>3
  <2> QED BY <1>4, <2>1, <2>2, <2>4
<1> QED BY <1>5, <1>6, <1>7, <1>8

LEMMA TickInTime ==
  ASSUME TypedTimers, ClosingInTime, Tick
  PROVE  TypedTimers' /\ ClosingInTime'
<1> DEFINE Ticked(s) == [s EXCEPT !.left = @ - 1]
<1>1. /\ UNCHANGED <<documents, version, connected, debounced, generation, dirty, strays,
                     durable, service, behind>>
      /\ \A d \in Docs : Active(d) => store[d].left # 0
      /\ store' = [d \in Docs |-> IF Active(d) THEN Ticked(store[d]) ELSE store[d]]
  BY DEF Tick, Due, memory, guard
<1>2. service \in {"closing", "forcing"} => deadline # 0 /\ deadline' = deadline - 1
  BY DEF Tick, Due
<1>3. deadline' \in Nat
  <2>1. deadline \in Nat /\ (service \notin {"closing", "forcing"} => deadline' = deadline)
    BY DEF Tick, TypedTimers, TypeOK
  <2> QED BY <1>2, <2>1
<1>4. ASSUME NEW d \in Docs, Active(d)
      PROVE  /\ store'[d] \in Store /\ StoreTimes(store'[d]) /\ Active(d)'
             /\ Rest(d)' = Rest(d) - 1
  <2> DEFINE t == Ticked(store[d])
  <2>1. store'[d] = t
    BY <1>1, <1>4
  <2>2. t \in Store /\ StoreTimes(t) /\ t.phase = store[d].phase /\ RestOf(t) = RestOf(store[d]) - 1
    BY <1>1, <1>4, TickGoesOn DEF Active, TypedTimers, TypeOK
  <2> HIDE DEF t
  <2> QED BY <1>4, <2>1, <2>2 DEF Rest, Active
<1>5. ASSUME NEW d \in Docs, ~Active(d) PROVE store'[d] = store[d]
  BY <1>1, <1>5
<1>6. \A d \in Docs : store'[d] \in Store /\ StoreTimes(store'[d])
  BY <1>4, <1>5 DEF TypedTimers, TypeOK
<1>7. store' \in [Docs -> Store]
  BY <1>1, <1>6
<1>8. TypedTimers'
  BY <1>1, <1>3, <1>6, <1>7 DEF TypedTimers, TypeOK
<1>9. ASSUME service' = "closing" PROVE ClosingInTime'
  <2>1. /\ service = "closing" /\ connected' = {} /\ behind' = behind
        /\ deadline' = deadline - 1 /\ deadline # 0
    BY <1>1, <1>2, <1>9 DEF ClosingInTime
  <2>2. ASSUME NEW d \in Docs \ behind, (Active(d) \/ d \in debounced)'
        PROVE  (Owed(d) <= deadline)'
    <3>1. Active(d)
      BY <1>1, <1>5, <2>1, <2>2 DEF Tick, Due, Active
    <3>2. PICK r \in Nat : r = Rest(d)
      BY <3>1, RestIsTime DEF Rest, Active, TypedTimers, TypeOK
    <3>3. PICK q \in Nat : q = IF d \in debounced THEN RetryWindow ELSE 0
      BY WindowTakesTime
    <3>4. Owed(d) = r + q /\ Owed(d) <= deadline
      BY <2>1, <3>1, <3>2, <3>3 DEF Owed, ClosingInTime
    <3>5. Owed(d)' = (r - 1) + q
      BY <1>1, <1>4, <3>1, <3>2, <3>3 DEF Owed
    <3>6. deadline \in Nat
      BY WindowTakesTime DEF TypedTimers, TypeOK
    <3>7. r + q <= deadline
      BY <3>4
    <3>8. (r - 1) + q <= (deadline - 1)
      BY <3>6, <3>7
    <3> QED BY <2>1, <3>5, <3>8
  <2> QED BY <2>1, <2>2 DEF ClosingInTime
<1> QED BY <1>8, <1>9 DEF ClosingInTime

\* The deadline begins with the time of one store.
LEMMA CloseInTime ==
  ASSUME TypedTimers, Close
  PROVE  TypedTimers' /\ ClosingInTime'
<1>1. /\ UNCHANGED <<documents, version, debounced, generation, dirty, store, strays, durable>>
      /\ service' = "closing" /\ deadline' = ShutdownTimeout /\ connected' = {}
      /\ behind' = {d \in debounced : Active(d)}
  BY DEF Close, Patience, guard
<1>2. ShutdownTimeout \in Nat /\ AttemptTimeout \in Nat \ {0} /\ RetryWindow \in Nat
  BY DurabilityAssumption, WindowTakesTime
<1>3. TypedTimers'
  BY <1>1, <1>2 DEF TypedTimers, TypeOK, ServiceStates, Active
<1>4. ASSUME NEW d \in Docs \ behind' PROVE (Owed(d) <= deadline)'
  <2>1. ~Active(d) \/ d \notin debounced
    BY <1>1, <1>4
  <2>2. Active(d) => Rest(d) \in Nat /\ Rest(d) <= RetryWindow
    BY RestIsTime DEF Rest, Active, TypedTimers, TypeOK, StoreTimes
  <2>3. Owed(d) <= RetryWindow
    BY <1>2, <2>1, <2>2 DEF Owed
  <2>4. Owed(d) \in Nat
    BY <1>2, <2>2 DEF Owed
  <2>5. Owed(d)' = Owed(d)
    BY <1>1 DEF Owed, Active, Rest
  <2>6. RetryWindow <= ShutdownTimeout
    BY <1>2, WindowAssumption
  <2> QED BY <1>1, <1>2, <2>3, <2>4, <2>5, <2>6
<1> QED BY <1>1, <1>3, <1>4 DEF ClosingInTime

LEMMA DocumentsInTime ==
  ASSUME TypedTimers, ClosingInTime, NEW d \in Docs,
         \/ Connect(d) \/ Update(d) \/ Disconnect(d) \/ Unload(d)
         \/ \E s \in 0..MaxUpdates : StrayWrite(d, s)
  PROVE  TypedTimers' /\ ClosingInTime'
<1>1. UNCHANGED <<store, shutdown>>
  BY DEF Connect, Update, Disconnect, Unload, StrayWrite, shutdown, memory
<1>2. service = "closing" => debounced' \subseteq debounced /\ connected' \subseteq connected
  BY DEF Connect, Update, Disconnect, Unload, StrayWrite, memory, ClosingInTime
<1>3. CASE Connect(d)
  <2>1. /\ connected' \subseteq documents' /\ documents' \subseteq Docs
        /\ version' \in [Docs -> Nat]
    BY <1>3 DEF Connect, LoadDocument, TypedTimers, TypeOK
  <2>2. TypeOK'
    BY <1>1, <1>3, <2>1 DEF Connect, TypedTimers, TypeOK, guard, shutdown
  <2> QED BY <1>1, <1>2, <2>2, OthersKeepTime
<1>4. CASE Update(d)
  <2>1. /\ version' \in [Docs -> Nat] /\ generation' \in [Docs -> Nat]
        /\ dirty' \subseteq Docs /\ debounced' \subseteq Docs
    BY <1>4 DEF Update, MarkDirty, TypedTimers, TypeOK
  <2>2. TypeOK'
    BY <1>1, <1>4, <2>1 DEF Update, TypedTimers, TypeOK, shutdown
  <2> QED BY <1>1, <1>2, <2>2, OthersKeepTime
<1>5. CASE Disconnect(d) \/ Unload(d)
  <2>1. TypeOK'
    BY <1>1, <1>5 DEF Disconnect, Unload, TypedTimers, TypeOK, guard, shutdown
  <2> QED BY <1>1, <1>2, <2>1, OthersKeepTime
<1>6. ASSUME NEW s \in 0..MaxUpdates, StrayWrite(d, s) PROVE TypedTimers' /\ ClosingInTime'
  <2>1. durable' \in [Docs -> Nat] /\ strays' \subseteq Docs \X Nat
    <3>1. s \in Nat
      BY DurabilityAssumption
    <3> QED BY <1>6, <3>1 DEF StrayWrite, TypedTimers, TypeOK
  <2>2. TypeOK'
    BY <1>1, <1>6, <2>1 DEF StrayWrite, TypedTimers, TypeOK, memory, guard, shutdown
  <2> QED BY <1>1, <1>2, <2>2, OthersKeepTime
<1> QED BY <1>3, <1>4, <1>5, <1>6

LEMMA SettlingInTime ==
  ASSUME TypedTimers, Destroyed \/ ForceUnload \/ ForceEnds
  PROVE  TypedTimers' /\ ClosingInTime'
<1>1. ShutdownTimeout \in Nat
  BY DurabilityAssumption
<1>2. UNCHANGED <<documents, version, connected, debounced, generation, dirty, store, strays,
                  durable, behind>>
  BY DEF Destroyed, ForceUnload, ForceEnds, memory, guard
<1>3. service' \in ServiceStates \ {"closing"} /\ deadline' \in {deadline, ShutdownTimeout}
  BY DEF Destroyed, ForceUnload, ForceEnds, Patience, ServiceStates
<1> QED BY <1>1, <1>2, <1>3 DEF TypedTimers, TypeOK, ClosingInTime

LEMMA InitInTime == Init => TypedTimers /\ ClosingInTime
<1>1. IdleStore \in Store /\ StoreTimes(IdleStore)
  BY DurabilityAssumption DEF IdleStore, Store, StorePhases, StoreTimes
<1> QED BY <1>1 DEF Init, TypedTimers, TypeOK, ClosingInTime, ServiceStates

LEMMA NextInTime ==
  ASSUME TypedTimers, ClosingInTime, [Next]_vars
  PROVE  TypedTimers' /\ ClosingInTime'
<1>1. ASSUME NEW d \in Docs,
             \/ Connect(d) \/ Update(d) \/ Disconnect(d) \/ Unload(d)
             \/ \E s \in 0..MaxUpdates : StrayWrite(d, s)
      PROVE  TypedTimers' /\ ClosingInTime'
  BY <1>1, DocumentsInTime
<1>2. ASSUME NEW d \in Docs, StoreStep(d) \/ Persist(d) \/ AttemptFails(d)
      PROVE  TypedTimers' /\ ClosingInTime'
  BY <1>2, BeginStoreInTime, AttemptsInTime DEF StoreStep
<1>3. CASE Close
  BY <1>3, CloseInTime
<1>4. CASE Destroyed \/ ForceUnload \/ ForceEnds
  BY <1>4, SettlingInTime
<1>5. CASE Tick
  BY <1>5, TickInTime
<1>6. CASE UNCHANGED vars
  <2>1. TypeOK'
    BY <1>6 DEF vars, TypedTimers, TypeOK
  <2> QED BY <1>6, <2>1, OthersKeepTime DEF vars, shutdown
<1> QED BY <1>1, <1>2, <1>3, <1>4, <1>5, <1>6 DEF Next

LEMMA TimersInvariant == Spec => [](TypedTimers /\ ClosingInTime)
<1>1. TypedTimers /\ ClosingInTime /\ [Next]_vars => (TypedTimers /\ ClosingInTime)'
  BY NextInTime
<1> QED BY <1>1, InitInTime, PTL DEF Spec

\* server.ts, durability-guard.ts and persistence-retry.ts: every variable has its type; no
\* store makes more than Attempts attempts, and no timer runs below zero.
THEOREM TypeCorrect == Spec => []TypeOK
<1>1. TypedTimers /\ ClosingInTime => TypeOK
  BY DEF TypedTimers
<1> QED BY <1>1, TimersInvariant, PTL

\* apps/collab/src/config.ts:59-70 and close() of server.ts: a deadline of one retry window
\* covers one store of every document.  A forced unload takes no attempt away from a store
\* that was the only one under way, or the only one scheduled, when close() was called.
THEOREM OneWindowIsEnoughForOneStore == Spec => OneWindowCoversOneStore
<1>1. ASSUME TypedTimers, ClosingInTime, [Next]_vars, service = "closing", service' = "forcing"
      PROVE  \A d \in Unfinished \ behind : AtLastAttempt(d)
  <2>1. deadline = 0
    BY <1>1 DEF Next, vars, Connect, Update, Disconnect, Unload, StoreStep, BeginStore, Stored,
                AttemptTimesOut, Retry, Persist, AttemptFails, StrayWrite, Close, Destroyed,
                ForceUnload, DeadlinePassed, ForceEnds, Tick, shutdown
  <2> SUFFICES ASSUME NEW d \in Unfinished \ behind PROVE AtLastAttempt(d)
    OBVIOUS
  <2>2. d \in Docs /\ (Active(d) \/ d \in debounced)
    BY <1>1 DEF Unfinished, TypedTimers, TypeOK
  <2>3. AttemptTimeout \in Nat \ {0} /\ RetryWindow \in Nat /\ RetryWindow >= AttemptTimeout
    BY WindowTakesTime
  <2>4. Owed(d) <= 0
    BY <1>1, <2>1, <2>2 DEF ClosingInTime
  <2>5. Active(d) => Rest(d) \in Nat /\ (store[d].attempt < Attempts => Rest(d) >= AttemptTimeout)
    BY <1>1, <2>2, RestIsTime DEF Rest, Active, TypedTimers, TypeOK
  <2>6. d \notin debounced /\ Active(d)
    BY <2>2, <2>3, <2>4, <2>5 DEF Owed
  <2>7. Rest(d) <= 0
    BY <2>4, <2>5, <2>6 DEF Owed
  <2>8. store[d].attempt \in 1..Attempts /\ Attempts \in Nat
    BY <1>1, <2>2, <2>6, DurabilityAssumption DEF TypedTimers, StoreTimes, Active
  <2> QED BY <2>3, <2>5, <2>6, <2>7, <2>8 DEF AtLastAttempt
<1>2. TypedTimers /\ ClosingInTime /\ [Next]_vars
        => [service = "closing" /\ service' = "forcing"
              => \A d \in Unfinished \ behind : AtLastAttempt(d)]_vars
  BY <1>1
<1> QED BY <1>2, TimersInvariant, PTL DEF Spec, OneWindowCoversOneStore
=============================================================================
