--------------------------- MODULE ConnectionProofs ---------------------------
(***************************************************************************)
(* A customer's connection: the pool behind it (PoolCache), what the       *)
(* connection screens show of its stored schema (ConnectionScreens), and   *)
(* the audit of it (SchemaAudit).                                          *)
(***************************************************************************)
EXTENDS PoolCache, ConnectionScreens, FiniteSetTheorems, WellFoundedInduction, TLAPS

-----------------------------------------------------------------------------
(* The pool cache, for every number of requests, keys and entries          *)

\* The cache names the live entry of each key, and only live ones.
CacheInv ==
    /\ CachedEntryUsable
    /\ \A e \in Entries : phase[e] \in {"pending", "open"} => cache[keyOf[e]] = e

\* Where an entry referred to by a request may be in its life.
RefInv ==
    \A r \in Requests :
        /\ pc[r] # "idle" => entry[r] \in Entries
        /\ pc[r] = "awaiting" => phase[entry[r]] \in {"pending", "open", "failed"}
        /\ pc[r] \in {"holding", "leaked"} => phase[entry[r]] = "open"

\* A factory that runs has somebody waiting for it.
PendingInv ==
    \A e \in Entries : phase[e] = "pending" => \E r \in Requests : r \in Awaiters(e)

\* The tunnel is up from before the pool exists until after it ended.
TunnelInv ==
    \A e \in Entries :
        keyOf[e] \in SshKeys /\ phase[e] \in {"open", "closing"} => tunnel[e] = "open"

CoreInv ==
    /\ CacheInv
    /\ RefInv
    /\ PendingInv
    /\ TunnelInv
    /\ RefCountExact
    /\ IdleMeansTimer

Inv == TypeOK /\ CoreInv

-----------------------------------------------------------------------------
(* The counted requests of an entry, and how a step changes them.          *)

\* The requests counted on an entry are finitely many.
LEMMA CountedFinite ==
    ASSUME NEW e
    PROVE  IsFiniteSet(Counted(e))
<1>1. Counted(e) \subseteq Requests
  BY DEF Counted
<1> QED
  BY <1>1, FS_Subset, PoolCacheAssumption

\* The reference count is zero exactly when nobody is counted.
LEMMA RefCountZero ==
    ASSUME RefCountExact, NEW e \in Entries
    PROVE  /\ inFlight[e] = 0 <=> Counted(e) = {}
           /\ inFlight[e] \in Nat
<1>1. inFlight[e] = Cardinality(Counted(e))
  BY DEF RefCountExact
<1> QED
  BY <1>1, CountedFinite, FS_EmptySet, FS_CardinalityType

\* A step that leaves pc and entry of the counted requests alone, and the
\* counter, keeps the counter exact.
LEMMA RefCountFrame ==
    ASSUME RefCountExact, inFlight' = inFlight,
           \A e \in Entries : Counted(e)' = Counted(e)
    PROVE  RefCountExact'
BY DEF RefCountExact

-----------------------------------------------------------------------------
(* Type correctness                                                        *)

\* Overwriting one counter keeps an array of counters one, also when the
\* index is outside it.
LEMMA OverwriteCounter ==
    ASSUME NEW S, NEW f \in [S -> Nat], NEW e, NEW v, e \in S => v \in Nat
    PROVE  [f EXCEPT ![e] = v] \in [S -> Nat]
OBVIOUS

\* A step keeps the types.
LEMMA TypeStep == TypeOK /\ [Next]_vars => TypeOK'
<1> SUFFICES ASSUME TypeOK, [Next]_vars PROVE TypeOK'
  OBVIOUS
<1> USE DEF TypeOK, Phases, TunnelStates, RequestStates
<1>1. ASSUME NEW r \in Requests, NEW k \in Keys, AcquireCached(r, k)
      PROVE  TypeOK'
  BY <1>1 DEF AcquireCached
<1>2. ASSUME NEW r \in Requests, NEW k \in Keys, AcquireNew(r, k)
      PROVE  TypeOK'
  BY <1>2 DEF AcquireNew
<1>3. ASSUME NEW r \in Requests, Resume(r) PROVE TypeOK'
  <2> DEFINE e == entry[r]
             n == inFlight[e] + 1
             t == IF timers[e] > 0 THEN timers[e] - 1 ELSE 0
  <2>1. e \in Entries => n \in Nat /\ t \in Nat
    OBVIOUS
  <2>2. inFlight' = [inFlight EXCEPT ![e] = n] /\ timers' = [timers EXCEPT ![e] = t]
    BY <1>3 DEF Resume, ResumeWith
  <2> HIDE DEF n, t
  <2>3. inFlight' \in [Entries -> Nat] /\ timers' \in [Entries -> Nat]
    BY <2>1, <2>2, OverwriteCounter
  <2> QED
    BY <1>3, <2>3 DEF Resume, ResumeWith
<1>4. ASSUME NEW r \in Requests, Reject(r) PROVE TypeOK'
  BY <1>4 DEF Reject
<1>5. ASSUME NEW r \in Requests, Cleanup(r) PROVE TypeOK'
  <2> DEFINE e == entry[r]
             left == IF inFlight[e] > 0 THEN inFlight[e] - 1 ELSE 0
             t == IF left = 0 THEN timers[e] + 1 ELSE timers[e]
  <2>1. e \in Entries => left \in Nat /\ t \in Nat
    OBVIOUS
  <2>2. inFlight' = [inFlight EXCEPT ![e] = left] /\ timers' = [timers EXCEPT ![e] = t]
    BY <1>5 DEF Cleanup, Release, Left
  <2> HIDE DEF left, t
  <2>3. inFlight' \in [Entries -> Nat] /\ timers' \in [Entries -> Nat]
    BY <2>1, <2>2, OverwriteCounter
  <2> QED
    BY <1>5, <2>3 DEF Cleanup, Release, Left
<1>6. ASSUME NEW r \in Requests, ThrowBeforeTry(r) PROVE TypeOK'
  BY <1>6 DEF ThrowBeforeTry
<1>7. ASSUME NEW e \in Entries, OpenTunnel(e) PROVE TypeOK'
  BY <1>7 DEF OpenTunnel
<1>8. ASSUME NEW e \in Entries, CreationFails(e) PROVE TypeOK'
  BY <1>8 DEF CreationFails
<1>9. ASSUME NEW e \in Entries, CreatePool(e) PROVE TypeOK'
  BY <1>9 DEF CreatePool
<1>10. ASSUME NEW e \in Entries, IdleTimerFires(e) PROVE TypeOK'
  BY <1>10 DEF IdleTimerFires
<1>11. ASSUME NEW e \in Entries, PoolEnds(e) PROVE TypeOK'
  BY <1>11 DEF PoolEnds
<1>12. ASSUME NEW e \in Entries, CloseTunnel(e) PROVE TypeOK'
  BY <1>12 DEF CloseTunnel
<1>13. CASE UNCHANGED vars
  BY <1>13 DEF vars
<1> QED
  BY <1>1, <1>2, <1>3, <1>4, <1>5, <1>6, <1>7, <1>8, <1>9, <1>10, <1>11, <1>12, <1>13
     DEF Next, RequestStep, EntryStep

\* Every reachable state of the pool cache has its type.
THEOREM TypeCorrect == Spec => []TypeOK
<1>1. Init => TypeOK
  BY DEF Init, TypeOK, Phases, TunnelStates, RequestStates
<1> QED
  BY <1>1, TypeStep, PTL DEF Spec

-----------------------------------------------------------------------------
(* The inductive invariant                                                 *)

\* The initial states satisfy the invariant: nothing exists yet.
LEMMA InvInit == Init => Inv
<1> SUFFICES ASSUME Init PROVE Inv
  OBVIOUS
<1>1. TypeOK
  BY DEF Init, TypeOK, Phases, TunnelStates, RequestStates
<1>2. CacheInv /\ RefInv /\ PendingInv /\ TunnelInv
  BY DEF Init, CacheInv, CachedEntryUsable, RefInv, PendingInv, TunnelInv
<1>3. \A e \in Entries : Counted(e) = {}
  BY DEF Init, Counted
<1>4. RefCountExact
  BY <1>3, FS_EmptySet DEF Init, RefCountExact
<1>5. IdleMeansTimer
  BY DEF Init, IdleMeansTimer
<1> QED
  BY <1>1, <1>2, <1>4, <1>5 DEF Inv, CoreInv

\* A request that starts to await an entry somebody else created.
LEMMA AcquireCachedInv ==
    ASSUME Inv, NEW r \in Requests, NEW k \in Keys, AcquireCached(r, k)
    PROVE  CoreInv'
<1> USE DEF Inv, CoreInv, TypeOK
<1> DEFINE c == cache[k]
<1>1. c \in Entries /\ phase[c] \in {"pending", "open"} /\ pc[r] = "idle"
  BY DEF AcquireCached, CacheInv, CachedEntryUsable
<1>2. /\ pc' = [pc EXCEPT ![r] = "awaiting"]
      /\ entry' = [entry EXCEPT ![r] = c]
      /\ UNCHANGED <<cache, keyOf, phase, tunnel, inFlight, timers>>
  BY DEF AcquireCached
<1>3. \A e \in Entries : Counted(e)' = Counted(e) /\ Awaiters(e) \subseteq Awaiters(e)'
  BY <1>1, <1>2 DEF Counted, Awaiters
<1>4. CacheInv'
  BY <1>2 DEF CacheInv, CachedEntryUsable
<1>5. RefInv'
  BY <1>1, <1>2 DEF RefInv
<1>6. PendingInv'
  BY <1>2, <1>3 DEF PendingInv
<1>7. TunnelInv'
  BY <1>2 DEF TunnelInv
<1>8. RefCountExact'
  BY <1>2, <1>3, RefCountFrame
<1>9. IdleMeansTimer'
  BY <1>2, <1>3 DEF IdleMeansTimer
<1> QED
  BY <1>4, <1>5, <1>6, <1>7, <1>8, <1>9

\* A request that starts the factory under a name that is free.
LEMMA AcquireNewInv ==
    ASSUME Inv, NEW r \in Requests, NEW k \in Keys, AcquireNew(r, k)
    PROVE  CoreInv'
<1> USE DEF Inv, CoreInv, TypeOK
<1>1. PICK e \in Entries :
        /\ Garbage(e)
        /\ pc[r] = "idle"
        /\ cache[k] = NoEntry
        /\ keyOf' = [keyOf EXCEPT ![e] = k]
        /\ tunnel' = [tunnel EXCEPT ![e] = "none"]
        /\ cache' = [cache EXCEPT ![k] = e]
        /\ phase' = [phase EXCEPT ![e] = "pending"]
        /\ entry' = [entry EXCEPT ![r] = e]
        /\ pc' = [pc EXCEPT ![r] = "awaiting"]
        /\ UNCHANGED <<inFlight, timers>>
  BY DEF AcquireNew
<1>2. phase[e] \notin {"pending", "open", "closing"} /\ phase'[e] = "pending"
  BY <1>1 DEF Garbage
<1>3. \A d \in Entries : d # e => phase'[d] = phase[d] /\ keyOf'[d] = keyOf[d] /\ tunnel'[d] = tunnel[d]
  BY <1>1
<1>4. Awaiters(e) = {} /\ Counted(e) = {}
  BY <1>1, <1>2 DEF Garbage, Awaiters, Counted, RefInv
<1>5. \A d \in Entries : Counted(d)' = Counted(d) /\ Awaiters(d) \subseteq Awaiters(d)'
  BY <1>1 DEF Counted, Awaiters
<1>6. r \in Awaiters(e)'
  BY <1>1 DEF Awaiters
<1>7. CacheInv'
  <2>1. \A j \in Keys : cache[j] # e
    BY <1>2, PoolCacheAssumption DEF CacheInv, CachedEntryUsable
  <2>2. CachedEntryUsable'
    BY <1>1, <1>2, <1>3, <2>1, PoolCacheAssumption DEF CacheInv, CachedEntryUsable
  <2>3. \A d \in Entries : phase'[d] \in {"pending", "open"} => cache'[keyOf'[d]] = d
    BY <1>1, <1>2, <1>3, PoolCacheAssumption DEF CacheInv
  <2> QED
    BY <2>2, <2>3 DEF CacheInv
<1>8. RefInv'
  BY <1>1, <1>2, <1>3, <1>4 DEF RefInv, Awaiters, Counted
<1>9. PendingInv'
  BY <1>3, <1>5, <1>6 DEF PendingInv
<1>10. TunnelInv'
  BY <1>2, <1>3 DEF TunnelInv
<1>11. RefCountExact'
  BY <1>1, <1>5, RefCountFrame
<1>12. IdleMeansTimer'
  BY <1>1, <1>2, <1>3, <1>5 DEF IdleMeansTimer
<1> QED
  BY <1>7, <1>8, <1>9, <1>10, <1>11, <1>12

\* A request whose await returns a pool.
LEMMA ResumeInv ==
    ASSUME Inv, NEW r \in Requests, Resume(r)
    PROVE  CoreInv'
<1> USE DEF Inv, CoreInv, TypeOK
<1>1. PICK e \in Entries : e = entry[r] /\ pc[r] = "awaiting" /\ phase[e] = "open"
  BY DEF Resume, ResumeWith, RefInv
<1>2. /\ pc' = [pc EXCEPT ![r] = "holding"]
      /\ inFlight' = [inFlight EXCEPT ![e] = @ + 1]
      /\ timers' = [timers EXCEPT ![e] = IF @ > 0 THEN @ - 1 ELSE 0]
      /\ UNCHANGED <<cache, keyOf, phase, tunnel, entry>>
  BY <1>1 DEF Resume, ResumeWith
<1>3. /\ Counted(e)' = Counted(e) \cup {r}
      /\ r \notin Counted(e)
      /\ \A d \in Entries \ {e} : Counted(d)' = Counted(d) /\ Awaiters(d)' = Awaiters(d)
  BY <1>1, <1>2 DEF Counted, Awaiters
<1>4. RefCountExact'
  <2>1. Cardinality(Counted(e)') = Cardinality(Counted(e)) + 1
    BY <1>3, CountedFinite, FS_AddElement
  <2>2. \A d \in Entries : inFlight'[d] = IF d = e THEN inFlight[d] + 1 ELSE inFlight[d]
    BY <1>1, <1>2
  <2>3. inFlight[e] = Cardinality(Counted(e)) /\ inFlight'[e] = Cardinality(Counted(e)')
    BY <1>1, <2>1, <2>2 DEF RefCountExact
  <2>4. ASSUME NEW d \in Entries, d # e
        PROVE  inFlight'[d] = Cardinality(Counted(d)')
    BY <1>3, <2>2, <2>4 DEF RefCountExact
  <2> QED
    BY <2>3, <2>4 DEF RefCountExact
<1>5. CacheInv' /\ RefInv' /\ TunnelInv'
  BY <1>1, <1>2 DEF CacheInv, CachedEntryUsable, RefInv, TunnelInv
<1>6. PendingInv'
  BY <1>1, <1>2, <1>3 DEF PendingInv
<1>7. timers'[e] = 0
  BY <1>1, <1>2 DEF IdleMeansTimer
<1>8. IdleMeansTimer'
  BY <1>1, <1>2, <1>3, <1>7 DEF IdleMeansTimer
<1> QED
  BY <1>4, <1>5, <1>6, <1>8

\* A request whose await throws.
LEMMA RejectInv ==
    ASSUME Inv, NEW r \in Requests, Reject(r)
    PROVE  CoreInv'
<1> USE DEF Inv, CoreInv, TypeOK
<1>1. pc[r] = "awaiting" /\ phase[entry[r]] = "failed" /\ entry[r] \in Entries
  BY DEF Reject, RefInv
<1>2. /\ pc' = [pc EXCEPT ![r] = "idle"]
      /\ entry' = [entry EXCEPT ![r] = NoEntry]
      /\ UNCHANGED <<cache, keyOf, phase, tunnel, inFlight, timers>>
  BY DEF Reject
<1>3. \A d \in Entries : /\ Counted(d)' = Counted(d)
                         /\ phase[d] # "failed" => Awaiters(d)' = Awaiters(d)
  BY <1>1, <1>2 DEF Counted, Awaiters
<1>4. CacheInv' /\ RefInv' /\ TunnelInv'
  BY <1>1, <1>2 DEF CacheInv, CachedEntryUsable, RefInv, TunnelInv
<1>5. PendingInv'
  BY <1>2, <1>3 DEF PendingInv
<1>6. RefCountExact'
  BY <1>2, <1>3, RefCountFrame
<1>7. IdleMeansTimer'
  BY <1>2, <1>3 DEF IdleMeansTimer
<1> QED
  BY <1>4, <1>5, <1>6, <1>7

\* A holder that calls cleanup().
LEMMA CleanupInv ==
    ASSUME Inv, NEW r \in Requests, Cleanup(r)
    PROVE  CoreInv'
<1> USE DEF Inv, CoreInv, TypeOK
<1>1. PICK e \in Entries : e = entry[r] /\ pc[r] = "holding" /\ phase[e] = "open" /\ r \in Counted(e)
  BY DEF Cleanup, Release, Left, RefInv, Counted
<1>4. inFlight[e] > 0 /\ inFlight[e] - 1 \in Nat
  BY <1>1, RefCountZero
<1>2. /\ pc' = [pc EXCEPT ![r] = "idle"]
      /\ entry' = [entry EXCEPT ![r] = NoEntry]
      /\ inFlight' = [inFlight EXCEPT ![e] = inFlight[e] - 1]
      /\ timers' = [timers EXCEPT ![e] = IF inFlight[e] - 1 = 0 THEN @ + 1 ELSE @]
      /\ UNCHANGED <<cache, keyOf, phase, tunnel>>
  BY <1>1, <1>4 DEF Cleanup, Release, Left
<1>3. /\ Counted(e)' = Counted(e) \ {r}
      /\ \A d \in Entries : d # e => Counted(d)' = Counted(d)
      /\ \A d \in Entries : Awaiters(d)' = Awaiters(d)
  BY <1>1, <1>2, PoolCacheAssumption DEF Counted, Awaiters
<1>6. RefCountExact'
  <2>1. inFlight[e] = Cardinality(Counted(e))
    BY <1>1 DEF RefCountExact
  <2>2. Cardinality(Counted(e)') = Cardinality(Counted(e)) - 1
    BY <1>1, <1>3, CountedFinite, FS_RemoveElement
  <2>3. inFlight'[e] = Cardinality(Counted(e)')
    BY <1>1, <1>2, <1>4, <2>1, <2>2
  <2>4. ASSUME NEW d \in Entries, d # e
        PROVE  inFlight'[d] = Cardinality(Counted(d)')
    BY <1>2, <1>3, <2>4 DEF RefCountExact
  <2> QED
    BY <2>3, <2>4 DEF RefCountExact
<1>7. CacheInv' /\ RefInv' /\ TunnelInv'
  BY <1>1, <1>2 DEF CacheInv, CachedEntryUsable, RefInv, TunnelInv
<1>8. PendingInv'
  BY <1>2, <1>3 DEF PendingInv
<1>9. inFlight[e] - 1 = 0 <=> Counted(e)' = {}
  <2>1. inFlight[e] - 1 = Cardinality(Counted(e)')
    BY <1>1, <1>2, <1>6 DEF RefCountExact
  <2>2. IsFiniteSet(Counted(e)')
    <3>1. Counted(e)' \subseteq Counted(e)
      BY <1>3
    <3> QED
      BY <3>1, CountedFinite, FS_Subset
  <2> QED
    BY <2>1, <2>2, FS_EmptySet
<1>10. timers[e] = 0
  <2>1. timers[e] \in Nat /\ timers[e] <= 1 /\ timers[e] # 1
    BY <1>1 DEF IdleMeansTimer
  <2> QED
    BY <2>1
<1>11. timers'[e] = IF inFlight[e] - 1 = 0 THEN 1 ELSE 0
  BY <1>1, <1>2, <1>10
<1>12. IdleMeansTimer'
  <2> SUFFICES ASSUME NEW d \in Entries
               PROVE /\ timers'[d] <= 1
                     /\ timers'[d] = 1 => phase'[d] = "open" /\ Counted(d)' = {}
                     /\ phase'[d] = "open" /\ Counted(d)' = {} /\ Awaiters(d)' = {}
                        => timers'[d] = 1
    BY DEF IdleMeansTimer
  <2>1. CASE d = e
    BY <2>1, <1>1, <1>2, <1>9, <1>11
  <2>2. CASE d # e
    <3>1. timers'[d] = timers[d] /\ phase'[d] = phase[d] /\ Counted(d)' = Counted(d)
      BY <2>2, <1>2, <1>3
    <3> QED
      BY <3>1, <1>3 DEF IdleMeansTimer
  <2> QED
    BY <2>1, <2>2
<1> QED
  BY <1>6, <1>7, <1>8, <1>12

\* A handler that drops its pool without releasing it stays counted.
LEMMA ThrowBeforeTryInv ==
    ASSUME Inv, NEW r \in Requests, ThrowBeforeTry(r)
    PROVE  CoreInv'
<1> USE DEF Inv, CoreInv, TypeOK
<1>1. /\ pc[r] = "holding"
      /\ pc' = [pc EXCEPT ![r] = "leaked"]
      /\ UNCHANGED <<cache, keyOf, phase, tunnel, inFlight, timers, entry>>
  BY DEF ThrowBeforeTry
<1>2. \A d \in Entries : Counted(d)' = Counted(d) /\ Awaiters(d)' = Awaiters(d)
  BY <1>1 DEF Counted, Awaiters
<1>3. CacheInv' /\ RefInv' /\ TunnelInv'
  BY <1>1 DEF CacheInv, CachedEntryUsable, RefInv, TunnelInv
<1>4. PendingInv'
  BY <1>1, <1>2 DEF PendingInv
<1>5. RefCountExact'
  BY <1>1, <1>2, RefCountFrame
<1>6. IdleMeansTimer'
  BY <1>1, <1>2 DEF IdleMeansTimer
<1> QED
  BY <1>3, <1>4, <1>5, <1>6

\* The steps of the factory.
LEMMA FactoryInv ==
    ASSUME Inv, NEW e \in Entries, OpenTunnel(e) \/ CreationFails(e) \/ CreatePool(e)
    PROVE  CoreInv'
<1> USE DEF Inv, CoreInv, TypeOK
<1>1. phase[e] = "pending" /\ UNCHANGED <<keyOf, inFlight, timers, pc, entry>>
  BY DEF OpenTunnel, CreationFails, CreatePool
<1>2. \A d \in Entries : Counted(d)' = Counted(d) /\ Awaiters(d)' = Awaiters(d)
  BY <1>1 DEF Counted, Awaiters
<1>3. Counted(e) = {} /\ Awaiters(e) # {} /\ timers[e] = 0
  BY <1>1 DEF Counted, RefInv, PendingInv, IdleMeansTimer
<1>4. RefCountExact'
  BY <1>1, <1>2, RefCountFrame
<1>5. /\ phase'[e] \in {"pending", "open", "failed"}
      /\ \A d \in Entries : d # e => phase'[d] = phase[d] /\ tunnel'[d] = tunnel[d]
  BY <1>1 DEF OpenTunnel, CreationFails, CreatePool
<1>6. RefInv'
  BY <1>1, <1>3, <1>5 DEF RefInv, Counted
<1>7. PendingInv'
  BY <1>1, <1>2, <1>5 DEF PendingInv
<1>8. IdleMeansTimer'
  BY <1>1, <1>2, <1>3, <1>5 DEF IdleMeansTimer
<1>9. TunnelInv'
  BY <1>1, <1>5 DEF OpenTunnel, CreationFails, CreatePool, TunnelInv
<1>10. CacheInv'
  <2>1. CASE OpenTunnel(e) \/ CreatePool(e)
    BY <2>1, <1>1, <1>5 DEF OpenTunnel, CreatePool, CacheInv, CachedEntryUsable
  <2>2. CASE CreationFails(e)
    <3>1. cache[keyOf[e]] = e
      BY <1>1 DEF CacheInv
    <3>2. cache' = [cache EXCEPT ![keyOf[e]] = NoEntry] /\ phase'[e] = "failed"
      BY <2>2, <3>1 DEF CreationFails
    <3>3. \A k \in Keys : k # keyOf[e] => cache[k] # e
      BY PoolCacheAssumption DEF CacheInv, CachedEntryUsable
    <3> QED
      BY <1>1, <1>5, <3>1, <3>2, <3>3 DEF CacheInv, CachedEntryUsable
  <2> QED
    BY <2>1, <2>2
<1> QED
  BY <1>4, <1>6, <1>7, <1>8, <1>9, <1>10

\* The idle callback: it can only find a pool nobody counts or awaits.
LEMMA IdleTimerInv ==
    ASSUME Inv, NEW e \in Entries, IdleTimerFires(e)
    PROVE  CoreInv'
<1> USE DEF Inv, CoreInv, TypeOK
<1>1. timers[e] = 1 /\ phase[e] = "open" /\ Counted(e) = {}
  BY DEF IdleTimerFires, IdleMeansTimer
<1>2. Awaiters(e) = {}
  BY <1>1 DEF IdleTimerFires, MicrotasksPending, Settled
<1>3. inFlight[e] = 0
  BY <1>1, RefCountZero
<1>4. cache[keyOf[e]] = e
  BY <1>1 DEF CacheInv
<1>5. /\ timers' = [timers EXCEPT ![e] = @ - 1]
      /\ cache' = [cache EXCEPT ![keyOf[e]] = NoEntry]
      /\ phase' = [phase EXCEPT ![e] = "closing"]
      /\ UNCHANGED <<keyOf, tunnel, inFlight, pc, entry>>
  BY <1>3, <1>4 DEF IdleTimerFires
<1>6. \A d \in Entries : Counted(d)' = Counted(d) /\ Awaiters(d)' = Awaiters(d)
  BY <1>5 DEF Counted, Awaiters
<1>7. \A k \in Keys : k # keyOf[e] => cache[k] # e
  BY PoolCacheAssumption DEF CacheInv, CachedEntryUsable
<1>8. CacheInv'
  BY <1>4, <1>5, <1>7 DEF CacheInv, CachedEntryUsable
<1>9. RefInv'
  BY <1>1, <1>2, <1>5 DEF RefInv, Counted, Awaiters
<1>10. PendingInv'
  BY <1>5, <1>6 DEF PendingInv
<1>11. TunnelInv'
  BY <1>1, <1>5 DEF TunnelInv
<1>12. RefCountExact'
  BY <1>5, <1>6, RefCountFrame
<1>13. IdleMeansTimer'
  BY <1>1, <1>5, <1>6 DEF IdleMeansTimer
<1> QED
  BY <1>8, <1>9, <1>10, <1>11, <1>12, <1>13

\* The teardown of an evicted pool.
LEMMA TeardownInv ==
    ASSUME Inv, NEW e \in Entries, PoolEnds(e) \/ CloseTunnel(e)
    PROVE  CoreInv'
<1> USE DEF Inv, CoreInv, TypeOK
<1>1. /\ phase[e] \in {"closing", "ended"}
      /\ phase'[e] = "ended"
      /\ \A d \in Entries : d # e => phase'[d] = phase[d] /\ tunnel'[d] = tunnel[d]
      /\ UNCHANGED <<cache, keyOf, inFlight, timers, pc, entry>>
  BY DEF PoolEnds, CloseTunnel
<1>2. \A d \in Entries : Counted(d)' = Counted(d) /\ Awaiters(d)' = Awaiters(d)
  BY <1>1 DEF Counted, Awaiters
<1>3. CacheInv'
  BY <1>1, PoolCacheAssumption DEF CacheInv, CachedEntryUsable
<1>4. RefInv'
  BY <1>1 DEF RefInv
<1>5. PendingInv' /\ TunnelInv'
  BY <1>1, <1>2 DEF PendingInv, TunnelInv
<1>6. RefCountExact'
  BY <1>1, <1>2, RefCountFrame
<1>7. IdleMeansTimer'
  BY <1>1, <1>2 DEF IdleMeansTimer
<1> QED
  BY <1>3, <1>4, <1>5, <1>6, <1>7

\* Every step keeps the invariant.
LEMMA InvStep == Inv /\ [Next]_vars => Inv'
<1> SUFFICES ASSUME Inv, [Next]_vars PROVE Inv'
  OBVIOUS
<1>1. TypeOK'
  BY TypeStep DEF Inv
<1>2. ASSUME NEW r \in Requests, RequestStep(r) PROVE CoreInv'
  <2>1. ASSUME NEW k \in Keys, AcquireCached(r, k) PROVE CoreInv'
    BY <2>1, AcquireCachedInv
  <2>2. ASSUME NEW k \in Keys, AcquireNew(r, k) PROVE CoreInv'
    BY <2>2, AcquireNewInv
  <2>3. CASE Resume(r)
    BY <2>3, ResumeInv
  <2>4. CASE Reject(r)
    BY <2>4, RejectInv
  <2>5. CASE Cleanup(r)
    BY <2>5, CleanupInv
  <2>6. CASE ThrowBeforeTry(r)
    BY <2>6, ThrowBeforeTryInv
  <2> QED
    BY <1>2, <2>1, <2>2, <2>3, <2>4, <2>5, <2>6 DEF RequestStep
<1>3. ASSUME NEW e \in Entries, EntryStep(e) PROVE CoreInv'
  BY <1>3, FactoryInv, IdleTimerInv, TeardownInv DEF EntryStep
<1>4. ASSUME UNCHANGED vars PROVE CoreInv'
  <2>1. \A d \in Entries : Counted(d)' = Counted(d) /\ Awaiters(d)' = Awaiters(d)
    BY <1>4 DEF vars, Counted, Awaiters
  <2>2. RefCountExact'
    BY <1>4, <2>1, RefCountFrame DEF vars, Inv, CoreInv
  <2>3. PendingInv' /\ IdleMeansTimer'
    BY <1>4, <2>1 DEF vars, Inv, CoreInv, PendingInv, IdleMeansTimer
  <2>4. CacheInv' /\ RefInv' /\ TunnelInv'
    BY <1>4 DEF vars, Inv, CoreInv, CacheInv, CachedEntryUsable, RefInv, TunnelInv
  <2> QED
    BY <2>2, <2>3, <2>4 DEF CoreInv
<1>5. CoreInv'
  BY <1>2, <1>3, <1>4 DEF Next
<1> QED
  BY <1>1, <1>5 DEF Inv

\* The invariant holds in every reachable state.
LEMMA Invariance == Spec => []Inv
BY InvInit, InvStep, PTL DEF Spec

-----------------------------------------------------------------------------
(* The properties                                                          *)

\* A pool is never closed, and its tunnel never torn down, under a request
\* that uses it.
THEOREM PoolSafety == Spec => []HeldPoolIsOpen
<1>1. Inv => HeldPoolIsOpen
  BY DEF Inv, CoreInv, TypeOK, RefInv, TunnelInv, HeldPoolIsOpen
<1> QED
  BY <1>1, Invariance, PTL

\* The reference count never drifts from the acquisitions not yet released.
THEOREM RefCountCorrect == Spec => []RefCountExact
<1>1. Inv => RefCountExact
  BY DEF Inv, CoreInv
<1> QED
  BY <1>1, Invariance, PTL

\* One live pool per connection identity.
THEOREM SharingCorrect == Spec => []OneLivePoolPerKey
<1>1. Inv => OneLivePoolPerKey
  BY DEF Inv, CoreInv, CacheInv, OneLivePoolPerKey
<1> QED
  BY <1>1, Invariance, PTL

\* The cache hands out neither rejected nor evicted entries.
THEOREM CacheCorrect == Spec => []CachedEntryUsable
<1>1. Inv => CachedEntryUsable
  BY DEF Inv, CoreInv, CacheInv
<1> QED
  BY <1>1, Invariance, PTL

\* An open pool nobody counts or awaits has the one timer that evicts it.
THEOREM EvictionScheduled == Spec => []IdleMeansTimer
<1>1. Inv => IdleMeansTimer
  BY DEF Inv, CoreInv
<1> QED
  BY <1>1, Invariance, PTL

\* Sharing, the cache and the idle timers together.
THEOREM CacheIsSound == Spec => []CacheSound
<1>1. OneLivePoolPerKey /\ CachedEntryUsable /\ RefCountExact /\ IdleMeansTimer => CacheSound
  BY DEF CacheSound
<1> QED
  BY <1>1, SharingCorrect, CacheCorrect, RefCountCorrect, EvictionScheduled, PTL

-----------------------------------------------------------------------------
(* Refinement of PoolLease                                                 *)

\* A step that changes no holder and no lease is a stutter of the lease.
LEMMA LeaseStutter ==
    ASSUME \A e \in Entries : LeaseOf(e)' = LeaseOf(e) /\ Holders(e)' = Holders(e),
           keyOf' = keyOf
    PROVE  UNCHANGED Lease!leaseVars
BY DEF Lease!leaseVars, leaseBar, usersBar

\* The steps of a request map to steps of the lease.
LEMMA LeaseRequestStep ==
    ASSUME Inv, NEW r \in Requests, RequestStep(r)
    PROVE  [Lease!Next]_(Lease!leaseVars)
<1> USE DEF Inv, TypeOK
<1>0. CoreInv
  BY DEF Inv
<1>1. ASSUME NEW k \in Keys, AcquireCached(r, k) PROVE UNCHANGED Lease!leaseVars
  <2>1. \A e \in Entries : LeaseOf(e)' = LeaseOf(e) /\ Holders(e)' = Holders(e)
    BY <1>1 DEF AcquireCached, LeaseOf, Holders
  <2> QED
    BY <1>1, <2>1, LeaseStutter DEF AcquireCached
<1>2. ASSUME NEW k \in Keys, AcquireNew(r, k) PROVE \E e \in Entries : Lease!Assign(e, k)
  <2>1. PICK e \in Entries :
          /\ Garbage(e)
          /\ pc[r] = "idle"
          /\ keyOf' = [keyOf EXCEPT ![e] = k]
          /\ phase' = [phase EXCEPT ![e] = "pending"]
          /\ entry' = [entry EXCEPT ![r] = e]
          /\ pc' = [pc EXCEPT ![r] = "awaiting"]
    BY <1>2 DEF AcquireNew
  <2>2. leaseBar[e] # "live"
    BY <2>1 DEF Garbage, leaseBar, LeaseOf
  <2>3. leaseBar' = [leaseBar EXCEPT ![e] = "absent"]
    BY <2>1 DEF leaseBar, LeaseOf
  <2>4. \A d \in Entries : Holders(d)' = Holders(d)
    BY <2>1 DEF Holders
  <2>5. usersBar' = usersBar
    BY <2>4 DEF usersBar
  <2> QED
    BY <2>1, <2>2, <2>3, <2>5 DEF Lease!Assign
<1>3. ASSUME Resume(r) PROVE \E e \in Entries : Lease!Join(r, e)
  <2>1. PICK e \in Entries : e = entry[r] /\ pc[r] = "awaiting" /\ phase[e] = "open"
    BY <1>0, <1>3 DEF Resume, ResumeWith, CoreInv, RefInv
  <2>2. /\ pc' = [pc EXCEPT ![r] = "holding"]
        /\ UNCHANGED <<keyOf, phase, entry>>
    BY <1>3 DEF Resume, ResumeWith
  <2>3. leaseBar[e] = "live" /\ leaseBar' = leaseBar
    BY <2>1, <2>2 DEF leaseBar, LeaseOf
  <2>4. \A d \in Entries : r \notin usersBar[d]
    BY <2>1 DEF usersBar, Holders
  <2>5. usersBar' = [usersBar EXCEPT ![e] = @ \cup {r}]
    BY <2>1, <2>2 DEF usersBar, Holders
  <2> QED
    BY <2>2, <2>3, <2>4, <2>5 DEF Lease!Join
<1>4. ASSUME Reject(r) PROVE UNCHANGED Lease!leaseVars
  <2>1. \A e \in Entries : LeaseOf(e)' = LeaseOf(e) /\ Holders(e)' = Holders(e)
    BY <1>4 DEF Reject, LeaseOf, Holders
  <2> QED
    BY <1>4, <2>1, LeaseStutter DEF Reject
<1>5. ASSUME Cleanup(r) \/ ThrowBeforeTry(r) PROVE \E e \in Entries : Lease!Leave(r, e)
  <2>1. PICK e \in Entries : e = entry[r] /\ pc[r] = "holding"
    BY <1>0, <1>5 DEF Cleanup, Release, Left, ThrowBeforeTry, CoreInv, RefInv
  <2>2. /\ pc'[r] # "holding"
        /\ \A q \in Requests : q # r => pc'[q] = pc[q] /\ entry'[q] = entry[q]
        /\ UNCHANGED <<keyOf, phase>>
    BY <1>5 DEF Cleanup, Release, Left, ThrowBeforeTry
  <2>3. leaseBar' = leaseBar
    BY <2>2 DEF leaseBar, LeaseOf
  <2>4. r \in usersBar[e] /\ usersBar' = [usersBar EXCEPT ![e] = @ \ {r}]
    BY <2>1, <2>2 DEF usersBar, Holders
  <2> QED
    BY <2>2, <2>3, <2>4 DEF Lease!Leave
<1> QED
  BY <1>1, <1>2, <1>3, <1>4, <1>5 DEF RequestStep, Lease!Next

\* The steps of an entry map to steps of the lease.
LEMMA LeaseEntryStep ==
    ASSUME Inv, NEW e \in Entries, EntryStep(e)
    PROVE  [Lease!Next]_(Lease!leaseVars)
<1> USE DEF Inv, TypeOK
<1>0. CoreInv /\ keyOf' = keyOf /\ \A d \in Entries : Holders(d)' = Holders(d)
  BY DEF EntryStep, OpenTunnel, CreationFails, CreatePool, IdleTimerFires, PoolEnds,
     CloseTunnel, Holders
<1>1. usersBar' = usersBar
  BY <1>0 DEF usersBar
<1>2. ASSUME OpenTunnel(e) \/ CreationFails(e) \/ PoolEnds(e) \/ CloseTunnel(e)
      PROVE  UNCHANGED Lease!leaseVars
  <2>1. \A d \in Entries : LeaseOf(d)' = LeaseOf(d)
    BY <1>2 DEF OpenTunnel, CreationFails, PoolEnds, CloseTunnel, LeaseOf
  <2> QED
    BY <1>0, <2>1, LeaseStutter
<1>3. ASSUME CreatePool(e) PROVE Lease!Open(e)
  <2>1. leaseBar[e] = "absent" /\ leaseBar' = [leaseBar EXCEPT ![e] = "live"]
    BY <1>3 DEF CreatePool, leaseBar, LeaseOf
  <2>2. \A d \in Entries : keyOf[d] = keyOf[e] => leaseBar[d] # "live"
    BY <1>0, <1>3 DEF CreatePool, CoreInv, CacheInv, leaseBar, LeaseOf
  <2> QED
    BY <1>0, <1>1, <2>1, <2>2 DEF Lease!Open
<1>4. ASSUME IdleTimerFires(e) PROVE Lease!Retire(e)
  <2>1. phase[e] = "open" /\ Counted(e) = {}
    BY <1>0, <1>4 DEF IdleTimerFires, CoreInv, IdleMeansTimer
  <2>2. inFlight[e] = 0
    BY <1>0, <2>1, RefCountZero DEF CoreInv
  <2>3. phase' = [phase EXCEPT ![e] = "closing"]
    BY <1>4, <2>2 DEF IdleTimerFires
  <2>4. leaseBar[e] = "live" /\ leaseBar' = [leaseBar EXCEPT ![e] = "gone"]
    BY <2>1, <2>3 DEF leaseBar, LeaseOf
  <2>5. usersBar[e] = {}
    BY <2>1 DEF usersBar, Holders, Counted
  <2> QED
    BY <1>0, <1>1, <2>4, <2>5 DEF Lease!Retire
<1> QED
  BY <1>2, <1>3, <1>4 DEF EntryStep, Lease!Next

\* The cache implements the lease: every step opens, joins, leaves or retires
\* a pool as PoolLease allows, or is invisible to it.
THEOREM LeaseRefinement == Spec => ImplementsLease
<1>1. Init => Lease!Init
  BY DEF Init, Lease!Init, leaseBar, usersBar, LeaseOf, Holders
<1>2. Inv /\ [Next]_vars => [Lease!Next]_(Lease!leaseVars)
  <2> SUFFICES ASSUME Inv, [Next]_vars PROVE [Lease!Next]_(Lease!leaseVars)
    OBVIOUS
  <2>1. ASSUME UNCHANGED vars PROVE UNCHANGED Lease!leaseVars
    BY <2>1, LeaseStutter DEF vars, LeaseOf, Holders
  <2> QED
    BY <2>1, LeaseRequestStep, LeaseEntryStep DEF Next
<1> QED
  BY <1>1, <1>2, Invariance, PTL DEF Spec, ImplementsLease, Lease!Spec

-----------------------------------------------------------------------------
(* The connection screens, for every user, schema and reply                *)

Fields == {"kind", "pc", "table", "module", "name", "read", "ungrouped", "known", "plan", "reply", "failed", "met"}
StepsOf(kind) ==
    {"start", "sent back", "answered"}
    \cup (IF kind \in {"test", "sync"} THEN {"note"} ELSE {})
    \cup (IF kind \in {"describe", "edit"} THEN {"read back"} ELSE {})
    \cup (IF kind = "suggest" THEN {"ai", "module", "tables"} ELSE {})
Asking(k) == reqs[k].kind \in {"describe", "edit"}

ReqsTyped ==
    /\ reqs \in Seq(Range(reqs))
    /\ \A k \in DOMAIN reqs :
        /\ DOMAIN reqs[k] = Fields
        /\ reqs[k].pc \in StepsOf(reqs[k].kind) /\ reqs[k].failed \in BOOLEAN
        /\ reqs[k].failed => reqs[k].pc \in {"sent back", "answered"}
        /\ reqs[k].met \subseteq {0} \cup DOMAIN reqs
    /\ fetch.pc \in {"none", "sent", "read", "failed"}
MetaTyped ==
    /\ meta = [t \in StoredTables |-> meta[t]]
    /\ \A t \in StoredTables :
        meta[t] = [group |-> meta[t].group, business |-> meta[t].business, ai |-> meta[t].ai]

\* Requests on their way together have met.
Overlaps ==
    /\ \A j, k \in DOMAIN reqs : j # k /\ Open(j) /\ Open(k) => j \in reqs[k].met
    /\ \A k \in DOMAIN reqs : Open(k) /\ reqs[k].met = {} => ~Fetching

\* A description that met nothing is answered with the table as it is stored.
RepliesFit ==
    \A k \in DOMAIN reqs : Asking(k) /\ reqs[k].met = {} =>
        /\ reqs[k].pc = "read back" => reqs[k].table \in StoredTables
        /\ reqs[k].pc = "sent back" /\ ~reqs[k].failed =>
            reqs[k].table \in StoredTables /\ reqs[k].reply = meta[reqs[k].table]

Undisturbed ==
    /\ status # "gone"
    /\ \A k \in DOMAIN reqs :
        IF Asking(k) THEN reqs[k].met = {}
        ELSE reqs[k].kind \in {"suggest", "sync"} => ~reqs[k].failed
WillFetch(k) ==
    /\ Invalidates(reqs[k].kind) /\ ~reqs[k].failed
    /\ reqs[k].pc \notin {"start", "answered"}
WillPatch(k) ==
    /\ Asking(k) /\ ~reqs[k].failed /\ reqs[k].pc \in {"read back", "sent back"}
    /\ reqs[k].table \in StoredTables /\ reqs[k].table \in DOMAIN cached.tables
    /\ [cached EXCEPT !.tables[reqs[k].table] = meta[reqs[k].table]] = StoredSchema
ShownOrComing ==
    \/ \E k \in DOMAIN reqs : WillFetch(k)
    \/ fetch.pc \in {"sent", "failed"}
    \/ fetch.pc = "read" /\ fetch.value = StoredSchema
    \/ /\ fetch.pc = "none"
       /\ \/ cached \in {None, StoredSchema}
          \/ \E k \in DOMAIN reqs : WillPatch(k)
Settling == Undisturbed => ShownOrComing

Excused(k) == \E j \in reqs[k].met \ {0} : reqs[j].kind \in {"assign", "suggest"}
Grouping(k) == reqs[k].kind = "suggest" /\ reqs[k].pc \in {"ai", "module", "tables"}
ToAssign(k) == IF reqs[k].pc = "ai" THEN reqs[k].ungrouped
               ELSE {t \in reqs[k].ungrouped : \E i \in DOMAIN reqs[k].plan : t \in reqs[k].plan[i].tables}
Apart(plan) == \A i, j \in DOMAIN plan : i # j => plan[i].tables \cap plan[j].tables = {}
GroupFits(k) ==
    Grouping(k) =>
        /\ reqs[k].pc # "ai" => DOMAIN reqs[k].plan \subseteq Nat /\ Apart(reqs[k].plan)
        /\ reqs[k].pc = "tables" => DOMAIN reqs[k].plan # {}
        /\ \A t \in ToAssign(k) \cap StoredTables : meta[t].group = None \/ Excused(k)
GroupsFit == \A k \in DOMAIN reqs : GroupFits(k)


-----------------------------------------------------------------------------
(* Steps of a request                                                      *)

\* One request takes a step, and stays what it is.
Same(q, r) == q.kind = r.kind /\ q.table = r.table /\ q.name = r.name /\ q.met = r.met
Advances(k) ==
    /\ reqs' \in Seq(Range(reqs')) /\ DOMAIN reqs' = DOMAIN reqs
    /\ \A j \in DOMAIN reqs : j # k => reqs'[j] = reqs[j]
    /\ DOMAIN reqs'[k] = Fields
    /\ Same(reqs'[k], reqs[k])

LEMMA Listed ==
    ASSUME NEW n \in Nat, NEW T, NEW f \in [1..n -> T]
    PROVE  f \in Seq(T)
OBVIOUS

LEMMA ReqReplaced ==
    ASSUME ReqsTyped, NEW k \in DOMAIN reqs, NEW r, reqs' = [reqs EXCEPT ![k] = r], DOMAIN r = Fields,
           Same(r, reqs[k])
    PROVE  Advances(k) /\ reqs'[k] = r
<1>1. reqs \in Seq(Range(reqs))
    BY DEF ReqsTyped
<1>2. DOMAIN reqs' = DOMAIN reqs /\ reqs'[k] = r /\ \A j \in DOMAIN reqs : j # k => reqs'[j] = reqs[j]
    BY <1>1
<1>3. Len(reqs) \in Nat /\ DOMAIN reqs = 1..Len(reqs)
    BY <1>1
<1>4. reqs' = [j \in 1..Len(reqs) |-> reqs'[j]]
    BY <1>1, <1>3
<1>5. \A j \in 1..Len(reqs) : reqs'[j] \in Range(reqs')
    BY <1>2, <1>3 DEF Range
<1>6. reqs' \in Seq(Range(reqs'))
    <2> DEFINE S == Range(reqs')
               n == Len(reqs)
    <2>1. n \in Nat /\ reqs' = [j \in 1..n |-> reqs'[j]] /\ \A j \in 1..n : reqs'[j] \in S
        BY <1>3, <1>4, <1>5
    <2> HIDE DEF S, n
    <2>2. reqs' \in [1..n -> S]
        BY <2>1
    <2>3. reqs' \in Seq(S)
        BY <2>1, <2>2, Listed
    <2> QED
        BY <2>3 DEF S
<1> QED
    BY <1>2, <1>6 DEF Advances

LEMMA Stepped ==
    ASSUME ReqsTyped, NEW k \in DOMAIN reqs, NEW a, Step(k, a)
    PROVE  /\ Advances(k) /\ reqs'[k].pc = a
           /\ reqs'[k].failed = reqs[k].failed
<1> DEFINE r == [reqs[k] EXCEPT !.pc = a]
<1>1. DOMAIN reqs[k] = Fields
    BY DEF ReqsTyped
<1>2. DOMAIN r = Fields /\ r.pc = a /\ Same(r, reqs[k]) /\ r.failed = reqs[k].failed
    BY <1>1 DEF Fields, Same
<1>3. reqs' = [reqs EXCEPT ![k] = r]
    BY DEF Step
<1> HIDE DEF r
<1>5. Advances(k) /\ reqs'[k] = r
    BY <1>2, <1>3, ReqReplaced
<1> QED
    BY <1>2, <1>5

LEMMA Failed ==
    ASSUME ReqsTyped, NEW k \in DOMAIN reqs, Fail(k)
    PROVE  /\ Advances(k) /\ reqs'[k].pc = "sent back" /\ reqs'[k].failed
<1> DEFINE r == [reqs[k] EXCEPT !.pc = "sent back", !.failed = TRUE]
<1>1. DOMAIN reqs[k] = Fields
    BY DEF ReqsTyped
<1>2. DOMAIN r = Fields /\ r.pc = "sent back" /\ r.failed /\ Same(r, reqs[k])
    BY <1>1 DEF Fields, Same
<1>3. reqs' = [reqs EXCEPT ![k] = r]
    BY DEF Fail
<1> HIDE DEF r
<1>5. Advances(k) /\ reqs'[k] = r
    BY <1>2, <1>3, ReqReplaced
<1> QED
    BY <1>2, <1>5

LEMMA Replied ==
    ASSUME ReqsTyped, NEW k \in DOMAIN reqs, NEW a, NEW b, reqs' = [reqs EXCEPT ![k].pc = a, ![k].reply = b]
    PROVE  /\ Advances(k) /\ reqs'[k].pc = a /\ reqs'[k].reply = b
           /\ reqs'[k].failed = reqs[k].failed
<1> DEFINE r == [reqs[k] EXCEPT !.pc = a, !.reply = b]
<1>1. DOMAIN reqs[k] = Fields
    BY DEF ReqsTyped
<1>2. DOMAIN r = Fields /\ r.pc = a /\ r.reply = b /\ Same(r, reqs[k]) /\ r.failed = reqs[k].failed
    BY <1>1 DEF Fields, Same
<1>3. reqs' = [reqs EXCEPT ![k] = r]
    OBVIOUS
<1> HIDE DEF r
<1>5. Advances(k) /\ reqs'[k] = r
    BY <1>2, <1>3, ReqReplaced
<1> QED
    BY <1>2, <1>5

\* What the steps of a suggestion write.
LEMMA GroupsRead ==
    ASSUME ReqsTyped, NEW k \in DOMAIN reqs, NEW a, NEW b, NEW c,
           reqs' = [reqs EXCEPT ![k].pc = a, ![k].read = b, ![k].ungrouped = c]
    PROVE  /\ Advances(k) /\ reqs'[k].pc = a /\ reqs'[k].read = b /\ reqs'[k].ungrouped = c
           /\ reqs'[k].failed = reqs[k].failed
<1> DEFINE r == [reqs[k] EXCEPT !.pc = a, !.read = b, !.ungrouped = c]
<1>1. DOMAIN reqs[k] = Fields
    BY DEF ReqsTyped
<1>2. /\ DOMAIN r = Fields /\ r.pc = a /\ r.read = b /\ r.ungrouped = c
      /\ Same(r, reqs[k]) /\ r.failed = reqs[k].failed
    BY <1>1 DEF Fields, Same
<1>3. reqs' = [reqs EXCEPT ![k] = r]
    OBVIOUS
<1> HIDE DEF r
<1>5. Advances(k) /\ reqs'[k] = r
    BY <1>2, <1>3, ReqReplaced
<1> QED
    BY <1>2, <1>5

LEMMA PlanMade ==
    ASSUME ReqsTyped, NEW k \in DOMAIN reqs, NEW a, NEW b, NEW c,
           reqs' = [reqs EXCEPT ![k].plan = b, ![k].known = c, ![k].pc = a]
    PROVE  /\ Advances(k) /\ reqs'[k].pc = a /\ reqs'[k].plan = b
           /\ reqs'[k].failed = reqs[k].failed /\ reqs'[k].ungrouped = reqs[k].ungrouped
<1> DEFINE r == [reqs[k] EXCEPT !.plan = b, !.known = c, !.pc = a]
<1>1. DOMAIN reqs[k] = Fields
    BY DEF ReqsTyped
<1>2. /\ DOMAIN r = Fields /\ r.pc = a /\ r.plan = b
      /\ Same(r, reqs[k]) /\ r.failed = reqs[k].failed /\ r.ungrouped = reqs[k].ungrouped
    BY <1>1 DEF Fields, Same
<1>3. reqs' = [reqs EXCEPT ![k] = r]
    OBVIOUS
<1> HIDE DEF r
<1>5. Advances(k) /\ reqs'[k] = r
    BY <1>2, <1>3, ReqReplaced
<1> QED
    BY <1>2, <1>5

LEMMA ModuleTaken ==
    ASSUME ReqsTyped, NEW k \in DOMAIN reqs, NEW a, NEW b, NEW m,
           reqs' = [reqs EXCEPT ![k].module = b, ![k].known = @ \cup {m}, ![k].pc = a]
    PROVE  /\ Advances(k) /\ reqs'[k].pc = a
           /\ reqs'[k].failed = reqs[k].failed /\ reqs'[k].ungrouped = reqs[k].ungrouped /\ reqs'[k].plan = reqs[k].plan
<1> DEFINE r == [reqs[k] EXCEPT !.module = b, !.known = @ \cup {m}, !.pc = a]
<1>1. DOMAIN reqs[k] = Fields
    BY DEF ReqsTyped
<1>2. /\ DOMAIN r = Fields /\ r.pc = a
      /\ Same(r, reqs[k]) /\ r.failed = reqs[k].failed /\ r.ungrouped = reqs[k].ungrouped /\ r.plan = reqs[k].plan
    BY <1>1 DEF Fields, Same
<1>3. reqs' = [reqs EXCEPT ![k] = r]
    OBVIOUS
<1> HIDE DEF r
<1>5. Advances(k) /\ reqs'[k] = r
    BY <1>2, <1>3, ReqReplaced
<1> QED
    BY <1>2, <1>5

LEMMA PlanShortened ==
    ASSUME ReqsTyped, NEW k \in DOMAIN reqs, NEW a,
           reqs' = [reqs EXCEPT ![k].plan = Restrict(@, DOMAIN @ \ {Turn(@)}), ![k].pc = a]
    PROVE  /\ Advances(k) /\ reqs'[k].pc = a
           /\ reqs'[k].plan = Restrict(reqs[k].plan, DOMAIN reqs[k].plan \ {Turn(reqs[k].plan)})
           /\ reqs'[k].failed = reqs[k].failed /\ reqs'[k].ungrouped = reqs[k].ungrouped
<1> DEFINE b == Restrict(reqs[k].plan, DOMAIN reqs[k].plan \ {Turn(reqs[k].plan)})
           r == [reqs[k] EXCEPT !.plan = b, !.pc = a]
<1>1. DOMAIN reqs[k] = Fields
    BY DEF ReqsTyped
<1>2. reqs' = [reqs EXCEPT ![k] = r]
    OBVIOUS
<1> HIDE DEF b
<1>3. /\ DOMAIN r = Fields /\ r.pc = a /\ r.plan = b
      /\ Same(r, reqs[k]) /\ r.failed = reqs[k].failed /\ r.ungrouped = reqs[k].ungrouped
    BY <1>1 DEF Fields, Same
<1> HIDE DEF r
<1>5. Advances(k) /\ reqs'[k] = r
    BY <1>2, <1>3, ReqReplaced
<1> QED
    BY <1>3, <1>5 DEF b

-----------------------------------------------------------------------------
(* What a step of the server does                                          *)

IsMetadata(m) == m = [group |-> m.group, business |-> m.business, ai |-> m.ai]

\* What is stored stays or is fetched again, unless something failed half-way;
\* or a description that met nothing is written and read back.
Effect(k) ==
    \/ status' = "gone" /\ (Asking(k) => reqs'[k].failed)
    \/ reqs[k].kind \in {"suggest", "sync"} /\ reqs'[k].failed
    \/ Invalidates(reqs[k].kind) /\ ~reqs'[k].failed
    \/ ~Asking(k) /\ ~WillFetch(k) /\ UNCHANGED <<meta, mods>>
    \/ /\ Asking(k) /\ reqs'[k].failed /\ UNCHANGED <<meta, mods>>
       /\ reqs[k].pc = "read back" => reqs[k].table \notin StoredTables
    \/ /\ Asking(k) /\ ~reqs'[k].failed /\ reqs[k].pc = "start" /\ reqs'[k].pc = "read back"
       /\ reqs[k].table \in StoredTables
       /\ meta' = [meta EXCEPT ![reqs[k].table] = meta'[reqs[k].table]] /\ mods' = mods
    \/ /\ Asking(k) /\ ~reqs'[k].failed /\ reqs[k].pc = "read back" /\ reqs'[k].pc = "sent back"
       /\ reqs[k].table \in StoredTables /\ reqs'[k].reply = meta[reqs[k].table]
       /\ UNCHANGED <<meta, mods>>
Serves(k) ==
    /\ Advances(k)
    /\ reqs[k].pc \notin {"sent back", "answered"}
    /\ reqs'[k].pc \in StepsOf(reqs[k].kind) \ {"start", "answered"}
    /\ reqs'[k].failed \in BOOLEAN /\ (reqs'[k].failed => reqs'[k].pc = "sent back")
    /\ status = "gone" => status' = "gone"
    /\ MetaTyped' /\ (StoredTables \subseteq StoredTables' \/ status' = "gone")
    /\ Effect(k)

LEMMA RequestFacts ==
    ASSUME ReqsTyped, NEW k \in DOMAIN reqs
    PROVE  /\ DOMAIN reqs[k] = Fields /\ reqs[k].pc \in StepsOf(reqs[k].kind) /\ reqs[k].failed \in BOOLEAN
           /\ reqs[k].pc \notin {"sent back", "answered"} => reqs[k].failed = FALSE
BY DEF ReqsTyped

LEMMA SameMetadata ==
    ASSUME MetaTyped, meta' = meta
    PROVE  MetaTyped' /\ StoredTables \subseteq StoredTables'
BY DEF MetaTyped, StoredTables

LEMMA OneTableWritten ==
    ASSUME MetaTyped, NEW t \in StoredTables, NEW m, IsMetadata(m), meta' = [meta EXCEPT ![t] = m]
    PROVE  /\ MetaTyped' /\ StoredTables' = StoredTables
           /\ meta'[t] = m /\ \A u \in StoredTables \ {t} : meta'[u] = meta[u]
           /\ meta' = [meta EXCEPT ![t] = meta'[t]]
<1>1. /\ DOMAIN meta' = DOMAIN meta
      /\ meta'[t] = m /\ \A u \in StoredTables \ {t} : meta'[u] = meta[u]
    BY DEF MetaTyped, StoredTables
<1>2. meta' = [u \in StoredTables |-> meta'[u]]
    BY <1>1 DEF MetaTyped, StoredTables
<1>3. \A u \in StoredTables : IsMetadata(meta'[u])
    BY <1>1 DEF MetaTyped, IsMetadata
<1> QED
    BY <1>1, <1>2, <1>3 DEF MetaTyped, StoredTables, IsMetadata

LEMMA AllTablesWritten ==
    ASSUME NEW S, NEW M, meta' = [t \in S |-> M[t]], \A t \in S : IsMetadata(M[t])
    PROVE  MetaTyped' /\ StoredTables' = S
BY DEF MetaTyped, StoredTables, IsMetadata

LEMMA NotFoundServes ==
    ASSUME ReqsTyped, MetaTyped, NEW k \in DOMAIN reqs, NotFound(k)
    PROVE  Serves(k)
<1>1. Advances(k) /\ reqs'[k].pc = "sent back" /\ reqs'[k].failed
    BY Failed DEF NotFound
<1>2. MetaTyped' /\ StoredTables \subseteq StoredTables' /\ status' = "gone"
    BY SameMetadata DEF NotFound, serverVars
<1> QED
    BY <1>1, <1>2 DEF NotFound, Serves, Effect, StepsOf

LEMMA TestServes ==
    ASSUME ReqsTyped, MetaTyped, NEW k \in DOMAIN reqs, TestDatabase(k) \/ NoteTest(k)
    PROVE  Serves(k)
<1>1. reqs[k].kind = "test" /\ reqs[k].pc \in {"start", "note"} /\ reqs[k].failed = FALSE
    BY RequestFacts DEF TestDatabase, NoteTest, Started, At
<1>2. MetaTyped' /\ StoredTables \subseteq StoredTables' /\ UNCHANGED <<meta, mods>>
    BY SameMetadata DEF TestDatabase, NoteTest, serverVars
<1>3. /\ Advances(k) /\ reqs'[k].failed \in BOOLEAN
      /\ reqs'[k].pc = "sent back" \/ (reqs'[k].pc = "note" /\ ~reqs'[k].failed)
    <2>1. CASE TestDatabase(k)
        <3>1. PICK ok \in BOOLEAN : reqs' = [reqs EXCEPT ![k].pc = "note", ![k].reply = ok]
            BY <2>1 DEF TestDatabase
        <3> QED
            BY <1>1, <3>1, Replied
    <2>2. CASE NoteTest(k) /\ Fail(k)
        BY <2>2, Failed
    <2>3. CASE NoteTest(k) /\ Step(k, "sent back")
        BY <1>1, <2>3, Stepped
    <2> QED
        BY <2>1, <2>2, <2>3 DEF NoteTest
<1>4. status = "gone" => status' = "gone"
    BY DEF TestDatabase, NoteTest, serverVars
<1>5. ~Asking(k) /\ ~WillFetch(k)
    BY <1>1 DEF Asking, WillFetch, Invalidates
<1>6. reqs'[k].pc \in StepsOf(reqs[k].kind) \ {"start", "answered"}
    BY <1>1, <1>3 DEF StepsOf
<1> QED
    BY <1>1, <1>2, <1>3, <1>4, <1>5, <1>6 DEF Serves, Effect

LEMMA SyncServes ==
    ASSUME ReqsTyped, MetaTyped, NEW k \in DOMAIN reqs, SyncTables(k) \/ NoteSync(k)
    PROVE  Serves(k)
<1>1. reqs[k].kind = "sync" /\ reqs[k].pc \in {"start", "note"} /\ reqs[k].failed = FALSE
    BY RequestFacts DEF SyncTables, NoteSync, Started, At
<1>2. MetaTyped' /\ StoredTables \subseteq StoredTables'
    <2>1. CASE NoteSync(k)
        BY <2>1, SameMetadata DEF NoteSync
    <2>2. CASE SyncTables(k)
        <3>1. PICK new \in SUBSET DOMAIN database :
                    meta' = [t \in StoredTables \cup new |-> IF t \in StoredTables THEN meta[t] ELSE Blank]
            BY <2>2 DEF SyncTables
        <3> DEFINE M == [t \in StoredTables \cup new |-> IF t \in StoredTables THEN meta[t] ELSE Blank]
        <3>2. \A t \in StoredTables \cup new : IsMetadata(M[t])
            BY DEF MetaTyped, IsMetadata, Blank
        <3>3. meta' = [t \in StoredTables \cup new |-> M[t]]
            BY <3>1
        <3> HIDE DEF M
        <3> QED
            BY <3>2, <3>3, AllTablesWritten DEF StoredTables
    <2> QED
        BY <2>1, <2>2
<1>3. /\ Advances(k) /\ reqs'[k].failed \in BOOLEAN
      /\ reqs'[k].pc = "sent back" \/ (reqs'[k].pc = "note" /\ ~reqs'[k].failed)
    <2>1. CASE Fail(k)
        BY <2>1, Failed
    <2>2. CASE Step(k, "sent back")
        BY <1>1, <2>2, Stepped
    <2>3. CASE Step(k, "note")
        BY <1>1, <2>3, Stepped
    <2> QED
        BY <2>1, <2>2, <2>3 DEF SyncTables, NoteSync
<1>4. status = "gone" => status' = "gone"
    BY DEF SyncTables, NoteSync
<1>5. reqs'[k].pc \in StepsOf(reqs[k].kind) \ {"start", "answered"} /\ Invalidates(reqs[k].kind)
    BY <1>1, <1>3 DEF StepsOf, Invalidates
<1> QED
    BY <1>1, <1>2, <1>3, <1>4, <1>5 DEF Serves, Effect

LEMMA DeleteServes ==
    ASSUME ReqsTyped, MetaTyped, NEW k \in DOMAIN reqs, DeleteConnection(k)
    PROVE  Serves(k)
<1>1. reqs[k].kind = "drop" /\ reqs[k].pc = "start" /\ reqs[k].failed = FALSE /\ status # "gone"
    BY RequestFacts DEF DeleteConnection, Started, At
<1>2. ~Asking(k) /\ ~WillFetch(k)
    BY <1>1 DEF Asking, WillFetch
<1>3. CASE status' = "gone" /\ meta' = [t \in {} |-> Blank] /\ Step(k, "sent back")
    <2>1. Advances(k) /\ reqs'[k].pc = "sent back" /\ reqs'[k].failed = FALSE
        BY <1>1, <1>3, Stepped
    <2>2. MetaTyped'
        BY <1>3 DEF MetaTyped, StoredTables
    <2> QED
        BY <1>1, <1>2, <1>3, <2>1, <2>2 DEF Serves, Effect, StepsOf
<1>4. CASE Fail(k) /\ UNCHANGED serverVars
    <2>1. Advances(k) /\ reqs'[k].pc = "sent back" /\ reqs'[k].failed
        BY <1>4, Failed
    <2>2. MetaTyped' /\ StoredTables \subseteq StoredTables'
        BY <1>4, SameMetadata DEF serverVars
    <2> QED
        BY <1>1, <1>2, <1>4, <2>1, <2>2 DEF Serves, Effect, StepsOf, serverVars
<1> QED
    BY <1>3, <1>4 DEF DeleteConnection

\* A description, or a request that finds no table for it.
LEMMA WriteServes ==
    ASSUME ReqsTyped, MetaTyped, NEW k \in DOMAIN reqs, WriteGenerated(k) \/ WriteTyped(k)
    PROVE  Serves(k)
<1>1. Asking(k) /\ reqs[k].pc = "start" /\ reqs[k].failed = FALSE /\ status' = status /\ mods' = mods
    BY RequestFacts DEF WriteGenerated, WriteTyped, Started, At, Asking
<1>2. CASE Fail(k) /\ UNCHANGED meta
    <2>1. Advances(k) /\ reqs'[k].pc = "sent back" /\ reqs'[k].failed
        BY <1>2, Failed
    <2>2. MetaTyped' /\ StoredTables \subseteq StoredTables'
        BY <1>2, SameMetadata
    <2> QED
        BY <1>1, <1>2, <2>1, <2>2 DEF Serves, Effect, StepsOf
<1>3. ASSUME reqs[k].table \in StoredTables, Step(k, "read back"),
             NEW m, IsMetadata(m), meta' = [meta EXCEPT ![reqs[k].table] = m]
      PROVE  Serves(k)
    <2>1. Advances(k) /\ reqs'[k].pc = "read back" /\ reqs'[k].failed = FALSE
        BY <1>1, <1>3, Stepped
    <2>2. /\ MetaTyped' /\ StoredTables' = StoredTables
          /\ meta' = [meta EXCEPT ![reqs[k].table] = meta'[reqs[k].table]]
        BY <1>3, OneTableWritten
    <2>3. reqs'[k].pc \in StepsOf(reqs[k].kind) \ {"start", "answered"}
        BY <1>1, <2>1 DEF StepsOf, Asking
    <2> QED
        BY <1>1, <1>3, <2>1, <2>2, <2>3 DEF Serves, Effect
<1>4. ASSUME reqs[k].table \in StoredTables
      PROVE  /\ IsMetadata([meta[reqs[k].table] EXCEPT !.ai = k])
             /\ IsMetadata([meta[reqs[k].table] EXCEPT !.business = reqs[k].name])
    BY <1>4 DEF MetaTyped, IsMetadata
<1>5. CASE Step(k, "read back") /\ reqs[k].table \in StoredTables
           /\ meta' = [meta EXCEPT ![reqs[k].table].ai = k]
    <2> DEFINE m == [meta[reqs[k].table] EXCEPT !.ai = k]
    <2>1. IsMetadata(m) /\ meta' = [meta EXCEPT ![reqs[k].table] = m]
        BY <1>4, <1>5
    <2> HIDE DEF m
    <2> QED
        BY <1>3, <1>5, <2>1
<1>6. CASE Step(k, "read back") /\ reqs[k].table \in StoredTables
           /\ meta' = [meta EXCEPT ![reqs[k].table].business = reqs[k].name]
    <2> DEFINE m == [meta[reqs[k].table] EXCEPT !.business = reqs[k].name]
    <2>1. IsMetadata(m) /\ meta' = [meta EXCEPT ![reqs[k].table] = m]
        BY <1>4, <1>6
    <2> HIDE DEF m
    <2> QED
        BY <1>3, <1>6, <2>1
<1> QED
    BY <1>2, <1>5, <1>6 DEF WriteGenerated, WriteTyped

LEMMA ReadBackServes ==
    ASSUME ReqsTyped, MetaTyped, NEW k \in DOMAIN reqs, ReadBack(k)
    PROVE  Serves(k)
<1>1. Asking(k) /\ reqs[k].pc = "read back" /\ reqs[k].failed = FALSE
    BY RequestFacts DEF ReadBack, StepsOf, Asking
<1>2. MetaTyped' /\ StoredTables \subseteq StoredTables' /\ UNCHANGED <<meta, mods, status>>
    BY SameMetadata DEF ReadBack, serverVars
<1>3. CASE reqs[k].table \notin StoredTables /\ Fail(k)
    <2>1. Advances(k) /\ reqs'[k].pc = "sent back" /\ reqs'[k].failed
        BY <1>3, Failed
    <2> QED
        BY <1>1, <1>2, <1>3, <2>1 DEF Serves, Effect, StepsOf
<1>4. CASE /\ reqs[k].table \in StoredTables
           /\ reqs' = [reqs EXCEPT ![k].pc = "sent back", ![k].reply = meta[reqs[k].table]]
    <2> DEFINE m == meta[reqs[k].table]
    <2>1. reqs' = [reqs EXCEPT ![k].pc = "sent back", ![k].reply = m]
        BY <1>4
    <2> HIDE DEF m
    <2>2. Advances(k) /\ reqs'[k].pc = "sent back" /\ reqs'[k].failed = FALSE /\ reqs'[k].reply = m
        BY <1>1, <2>1, Replied
    <2>3. Effect(k)
        BY <1>1, <1>2, <1>4, <2>2 DEF Effect, m
    <2> QED
        BY <1>1, <1>2, <2>2, <2>3 DEF Serves, StepsOf
<1> QED
    BY <1>3, <1>4 DEF ReadBack

\* A request about modules that is answered at once, or refused.
LEMMA ModuleServes ==
    ASSUME ReqsTyped, MetaTyped, NEW k \in DOMAIN reqs,
           CreateModule(k) \/ UpdateModule(k) \/ DeleteModule(k) \/ AssignTableModule(k)
    PROVE  Serves(k)
<1>1. /\ reqs[k].kind \in {"create", "rename", "delete", "assign"} /\ reqs[k].pc = "start"
      /\ reqs[k].failed = FALSE /\ status' = status
    BY RequestFacts DEF CreateModule, UpdateModule, DeleteModule, AssignTableModule, Started, At
<1>2. ~Asking(k) /\ ~WillFetch(k) /\ Invalidates(reqs[k].kind)
    BY <1>1 DEF Asking, WillFetch, Invalidates
<1>3. CASE Fail(k) /\ UNCHANGED <<meta, mods>>
    <2>1. Advances(k) /\ reqs'[k].pc = "sent back" /\ reqs'[k].failed
        BY <1>3, Failed
    <2>2. MetaTyped' /\ StoredTables \subseteq StoredTables'
        BY <1>3, SameMetadata
    <2> QED
        BY <1>1, <1>2, <1>3, <2>1, <2>2 DEF Serves, Effect, StepsOf
<1>4. ASSUME Step(k, "sent back"), MetaTyped', StoredTables \subseteq StoredTables' PROVE Serves(k)
    <2>1. Advances(k) /\ reqs'[k].pc = "sent back" /\ reqs'[k].failed = FALSE
        BY <1>1, <1>4, Stepped
    <2> QED
        BY <1>1, <1>2, <1>4, <2>1 DEF Serves, Effect, StepsOf
<1>5. CASE CreateModule(k) \/ UpdateModule(k)
    <2>1. (Fail(k) /\ UNCHANGED <<meta, mods>>) \/ (Step(k, "sent back") /\ meta' = meta)
        BY <1>5 DEF CreateModule, UpdateModule
    <2> QED
        BY <1>3, <1>4, <2>1, SameMetadata
<1>6. CASE DeleteModule(k)
    <2> DEFINE M == [t \in StoredTables |-> IF meta[t].group = reqs[k].module
                                            THEN [meta[t] EXCEPT !.group = None] ELSE meta[t]]
    <2>1. (Fail(k) /\ UNCHANGED <<meta, mods>>) \/ (Step(k, "sent back") /\ meta' = M)
        BY <1>6 DEF DeleteModule
    <2>2. \A t \in StoredTables : IsMetadata(M[t])
        BY DEF MetaTyped, IsMetadata
    <2>3. M = [t \in StoredTables |-> M[t]]
        OBVIOUS
    <2> HIDE DEF M
    <2>4. meta' = M => MetaTyped' /\ StoredTables' = StoredTables
        BY <2>2, <2>3, AllTablesWritten
    <2> QED
        BY <1>3, <1>4, <2>1, <2>4
<1>7. CASE AssignTableModule(k)
    <2>1. CASE Fail(k) /\ UNCHANGED <<meta, mods>>
        BY <1>3, <2>1
    <2>2. CASE /\ reqs[k].table \in StoredTables /\ Step(k, "sent back")
               /\ meta' = [meta EXCEPT ![reqs[k].table].group = reqs[k].module]
        <3> DEFINE m == [meta[reqs[k].table] EXCEPT !.group = reqs[k].module]
        <3>1. IsMetadata(m)
            <4>1. IsMetadata(meta[reqs[k].table])
                BY <2>2 DEF MetaTyped, IsMetadata
            <4> QED
                BY <4>1 DEF IsMetadata
        <3>2. meta' = [meta EXCEPT ![reqs[k].table] = m]
            BY <2>2
        <3> HIDE DEF m
        <3>3. MetaTyped' /\ StoredTables' = StoredTables
            BY <2>2, <3>1, <3>2, OneTableWritten
        <3> QED
            BY <1>4, <2>2, <3>3
    <2> QED
        BY <1>7, <2>1, <2>2 DEF AssignTableModule
<1> QED
    BY <1>5, <1>6, <1>7

LEMMA SuggestServes ==
    ASSUME ReqsTyped, MetaTyped, NEW k \in DOMAIN reqs,
           ReadGroups(k) \/ ReadModules(k) \/ NextModule(k) \/ NextTables(k) \/ AllAssigned(k)
    PROVE  Serves(k)
<1>1. /\ reqs[k].kind = "suggest" /\ reqs[k].pc \in {"start", "ai", "module", "tables"}
      /\ reqs[k].failed = FALSE /\ status' = status
    BY RequestFacts DEF ReadGroups, ReadModules, NextModule, NextTables, AllAssigned, Started, At, serverVars
<1>2. Invalidates(reqs[k].kind)
    BY <1>1 DEF Invalidates
<1>3. MetaTyped' /\ StoredTables \subseteq StoredTables'
    <2>1. CASE meta' = meta
        BY <2>1, SameMetadata
    <2>2. CASE NextTables(k) /\ meta' # meta
        <3> DEFINE assigned == reqs[k].plan[Turn(reqs[k].plan)].tables \cap reqs[k].ungrouped \cap StoredTables
                   M == [t \in StoredTables |->
                            IF t \in assigned THEN [meta[t] EXCEPT !.group = reqs[k].module] ELSE meta[t]]
        <3>1. meta' = [t \in StoredTables |-> M[t]]
            BY <2>2 DEF NextTables
        <3> HIDE DEF assigned
        <3>2. \A t \in StoredTables : IsMetadata(M[t])
            BY DEF MetaTyped, IsMetadata
        <3> HIDE DEF M
        <3> QED
            BY <3>1, <3>2, AllTablesWritten
    <2> QED
        BY <2>1, <2>2 DEF ReadGroups, ReadModules, NextModule, NextTables, AllAssigned, serverVars
<1>4. CASE Fail(k)
    <2>1. Advances(k) /\ reqs'[k].pc = "sent back" /\ reqs'[k].failed
        BY <1>4, Failed
    <2> QED
        BY <1>1, <1>3, <2>1 DEF Serves, Effect, StepsOf
<1>5. ASSUME Advances(k), reqs'[k].failed = FALSE, reqs'[k].pc \in {"ai", "module", "tables", "sent back"}
      PROVE  Serves(k)
    BY <1>1, <1>2, <1>3, <1>5 DEF Serves, Effect, StepsOf
<1>6. CASE ReadGroups(k) /\ ~Fail(k)
    <2>1. reqs' = [reqs EXCEPT ![k].pc = "ai", ![k].read = StoredTables, ![k].ungrouped = Ungrouped]
        BY <1>6 DEF ReadGroups
    <2>2. Advances(k) /\ reqs'[k].failed = FALSE /\ reqs'[k].pc = "ai"
        BY <1>1, <2>1, GroupsRead
    <2> QED
        BY <1>5, <2>2
<1>7. CASE ReadModules(k) /\ ~Fail(k)
    <2>1. PICK b : reqs' = [reqs EXCEPT ![k].plan = b, ![k].known = mods, ![k].pc = "module"]
        BY <1>7 DEF ReadModules
    <2> QED
        BY <1>1, <1>5, <2>1, PlanMade
<1>8. CASE NextModule(k) /\ ~Fail(k)
    <2>1. PICK m : reqs' = [reqs EXCEPT ![k].module = m.id, ![k].known = @ \cup {m}, ![k].pc = "tables"]
        BY <1>8 DEF NextModule
    <2> QED
        BY <1>1, <1>5, <2>1, ModuleTaken
<1>9. CASE NextTables(k) /\ ~Fail(k)
    <2>1. reqs' = [reqs EXCEPT ![k].plan = Restrict(@, DOMAIN @ \ {Turn(@)}), ![k].pc = "module"]
        BY <1>9 DEF NextTables
    <2> QED
        BY <1>1, <1>5, <2>1, PlanShortened
<1>10. CASE AllAssigned(k)
    BY <1>1, <1>5, <1>10, Stepped DEF AllAssigned
<1> QED
    BY <1>4, <1>6, <1>7, <1>8, <1>9, <1>10

LEMMA Served ==
    ASSUME ReqsTyped, MetaTyped, NEW k \in DOMAIN reqs, ServerStep(k)
    PROVE  Serves(k) /\ UNCHANGED <<cached, fetch>>
BY NotFoundServes, TestServes, SyncServes, DeleteServes, WriteServes, ReadBackServes, ModuleServes, SuggestServes
   DEF ServerStep

-----------------------------------------------------------------------------
(* A request that is sent                                                  *)

\* The requests under way have met the new one, and it has met them.
Newest == Len(reqs) + 1
AsItWas(q, r) ==
    /\ q.kind = r.kind /\ q.pc = r.pc /\ q.table = r.table /\ q.failed = r.failed /\ q.reply = r.reply
    /\ q.ungrouped = r.ungrouped /\ q.plan = r.plan
Sends(kind) ==
    /\ reqs' \in Seq(Range(reqs')) /\ DOMAIN reqs' = DOMAIN reqs \cup {Newest} /\ Newest \notin DOMAIN reqs
    /\ Newest # 0
    /\ \A k \in DOMAIN reqs :
        /\ DOMAIN reqs'[k] = Fields
        /\ AsItWas(reqs'[k], reqs[k])
        /\ reqs'[k].met = IF Open(k) THEN reqs[k].met \cup {Newest} ELSE reqs[k].met
    /\ DOMAIN reqs'[Newest] = Fields
    /\ reqs'[Newest].kind = kind /\ reqs'[Newest].pc = "start" /\ reqs'[Newest].failed = FALSE
    /\ reqs'[Newest].met = {k \in DOMAIN reqs : Open(k)} \cup (IF Fetching THEN {0} ELSE {})

LEMMA Appended ==
    ASSUME NEW T, NEW q \in Seq(T), NEW e \in T
    PROVE  /\ Append(q, e) \in Seq(T)
           /\ DOMAIN Append(q, e) = DOMAIN q \cup {Len(q) + 1}
           /\ Append(q, e)[Len(q) + 1] = e /\ \A k \in DOMAIN q : Append(q, e)[k] = q[k]
           /\ Len(q) + 1 \notin DOMAIN q /\ Len(q) + 1 # 0
OBVIOUS

LEMMA ItsRange ==
    ASSUME NEW T, NEW q \in Seq(T)
    PROVE  q \in Seq(Range(q))
<1> DEFINE n == Len(q)
           S == Range(q)
<1>1. n \in Nat /\ q = [i \in 1..n |-> q[i]] /\ \A i \in 1..n : q[i] \in S
    BY DEF Range
<1> HIDE DEF n, S
<1>2. q \in [1..n -> S]
    BY <1>1
<1>3. q \in Seq(S)
    BY <1>1, <1>2, Listed
<1> QED
    BY <1>3 DEF S

LEMMA Sent ==
    ASSUME ReqsTyped, NEW kind, NEW table, NEW module, NEW name, Send(kind, table, module, name)
    PROVE  Sends(kind)
<1> DEFINE others == {k \in DOMAIN reqs : Open(k)}
           Met(k) == IF k \in others THEN [reqs[k] EXCEPT !.met = @ \cup {Newest}] ELSE reqs[k]
           old == [k \in DOMAIN reqs |-> Met(k)]
           new == [kind |-> kind, pc |-> "start", table |-> table, module |-> module, name |-> name,
                   read |-> {}, ungrouped |-> {}, known |-> {}, plan |-> <<>>, reply |-> None, failed |-> FALSE,
                   met |-> others \cup IF Fetching THEN {0} ELSE {}]
           T == Range(old) \cup {new}
<1>1. reqs' = Append(old, new)
    BY DEF Send, Newest
<1>2. Len(reqs) \in Nat /\ DOMAIN reqs = 1..Len(reqs)
    <2>1. reqs \in Seq(Range(reqs))
        BY DEF ReqsTyped
    <2> QED
        BY <2>1
<1>3. DOMAIN new = Fields /\ new.kind = kind /\ new.pc = "start" /\ new.failed = FALSE
      /\ new.met = others \cup (IF Fetching THEN {0} ELSE {})
    BY DEF Fields
<1>4. \A k \in DOMAIN reqs : old[k] = Met(k)
    OBVIOUS
<1>5. ASSUME NEW k \in DOMAIN reqs
      PROVE  /\ DOMAIN Met(k) = Fields
             /\ AsItWas(Met(k), reqs[k])
             /\ Met(k).met = IF Open(k) THEN reqs[k].met \cup {Newest} ELSE reqs[k].met
    <2>1. DOMAIN reqs[k] = Fields
        BY DEF ReqsTyped
    <2> QED
        BY <2>1 DEF Fields, AsItWas
<1> HIDE DEF new, others, Met
<1>6. old \in [1..Len(reqs) -> T] /\ DOMAIN old = DOMAIN reqs /\ new \in T
    BY <1>2 DEF Range
<1>7. old = [k \in DOMAIN reqs |-> old[k]]
    OBVIOUS
<1> HIDE DEF old, T
<1>8. old \in Seq(T)
    BY <1>2, <1>6, Listed
<1>9. Len(old) = Len(reqs)
    BY <1>2, <1>6, <1>8
<1>10. /\ reqs' \in Seq(T) /\ DOMAIN reqs' = DOMAIN reqs \cup {Newest} /\ Newest \notin DOMAIN reqs
       /\ Newest # 0 /\ reqs'[Newest] = new /\ \A k \in DOMAIN reqs : reqs'[k] = old[k]
    BY <1>1, <1>6, <1>8, <1>9, Appended DEF Newest
<1>11. reqs' \in Seq(Range(reqs'))
    BY <1>10, ItsRange
<1>12. \A k \in DOMAIN reqs : reqs'[k] = Met(k)
    BY <1>4, <1>10
<1>13. \A k \in DOMAIN reqs :
        /\ DOMAIN reqs'[k] = Fields
        /\ AsItWas(reqs'[k], reqs[k])
        /\ reqs'[k].met = IF Open(k) THEN reqs[k].met \cup {Newest} ELSE reqs[k].met
    BY <1>5, <1>12
<1>14. /\ DOMAIN reqs'[Newest] = Fields
       /\ reqs'[Newest].kind = kind /\ reqs'[Newest].pc = "start" /\ reqs'[Newest].failed = FALSE
       /\ reqs'[Newest].met = others \cup (IF Fetching THEN {0} ELSE {})
    BY <1>3, <1>10
<1> QED
    BY <1>10, <1>11, <1>13, <1>14 DEF Sends, others

-----------------------------------------------------------------------------
(* The screen settles                                                      *)

SettleInv == ReqsTyped /\ MetaTyped /\ Overlaps /\ RepliesFit /\ Settling

LEMMA KindsApart ==
    ASSUME NEW k
    PROVE  /\ Asking(k) => ~Invalidates(reqs[k].kind) /\ reqs[k].kind \notin {"suggest", "sync"}
BY DEF Asking, Invalidates

\* A description that has met nothing is alone on its way.
LEMMA Alone ==
    ASSUME ReqsTyped, Overlaps, NEW k \in DOMAIN reqs, Open(k), reqs[k].met = {}
    PROVE  fetch.pc \in {"none", "failed"} /\ \A j \in DOMAIN reqs : Open(j) => j = k
<1>1. ~Fetching /\ \A j \in DOMAIN reqs : Open(j) => j = k
    BY DEF Overlaps
<1>2. fetch.pc \in {"none", "sent", "read", "failed"}
    BY DEF ReqsTyped
<1> QED
    BY <1>1, <1>2 DEF Fetching

LEMMA PatchFits ==
    ASSUME MetaTyped, NEW t \in StoredTables, cached = StoredSchema, meta' = [meta EXCEPT ![t] = meta'[t]], mods' = mods
    PROVE  /\ t \in StoredTables' /\ t \in DOMAIN cached.tables
           /\ [cached EXCEPT !.tables[t] = meta'[t]] = StoredSchema'
<1>1. cached = [tables |-> meta, modules |-> mods]
    BY DEF StoredSchema
<1>2. cached.tables = meta /\ t \in DOMAIN cached.tables
    BY <1>1 DEF StoredTables
<1>3. t \in StoredTables'
    BY DEF StoredTables
<1> DEFINE m == meta'[t]
           n == [meta EXCEPT ![t] = m]
<1>4. [cached EXCEPT !.tables[t] = m] = [cached EXCEPT !.tables = [cached.tables EXCEPT ![t] = m]]
    OBVIOUS
<1>5. [cached EXCEPT !.tables[t] = m] = [cached EXCEPT !.tables = n]
    BY <1>2, <1>4
<1>6. meta' = n
    OBVIOUS
<1> HIDE DEF n
<1>7. [cached EXCEPT !.tables = n] = [tables |-> n, modules |-> mods]
    BY <1>1
<1>8. StoredSchema' = [tables |-> n, modules |-> mods]
    BY <1>6 DEF StoredSchema
<1> QED
    BY <1>2, <1>3, <1>5, <1>7, <1>8

LEMMA StillOpen ==
    ASSUME ReqsTyped, NEW k \in DOMAIN reqs, Serves(k)
    PROVE  /\ Open(k) /\ \A j \in DOMAIN reqs : Open(j)' <=> Open(j)
           /\ reqs[k].failed = FALSE
<1>1. reqs[k].failed = FALSE
    BY RequestFacts DEF Serves
<1> QED
    BY <1>1 DEF Serves, Advances, Open

LEMMA ServeTyped ==
    ASSUME ReqsTyped, NEW k \in DOMAIN reqs, Serves(k), UNCHANGED <<cached, fetch>>
    PROVE  ReqsTyped'
<1>1. /\ reqs' \in Seq(Range(reqs')) /\ DOMAIN reqs' = DOMAIN reqs /\ fetch' = fetch
      /\ \A j \in DOMAIN reqs : j # k => reqs'[j] = reqs[j]
    BY DEF Serves, Advances
<1>2. /\ DOMAIN reqs'[k] = Fields /\ reqs'[k].kind = reqs[k].kind /\ reqs'[k].met = reqs[k].met
      /\ reqs'[k].pc \in StepsOf(reqs[k].kind) /\ reqs'[k].failed \in BOOLEAN
      /\ reqs'[k].failed => reqs'[k].pc = "sent back"
    BY DEF Serves, Advances, Same
<1>3. /\ DOMAIN reqs'[k] = Fields /\ reqs'[k].pc \in StepsOf(reqs'[k].kind) /\ reqs'[k].failed \in BOOLEAN
      /\ (reqs'[k].failed => reqs'[k].pc \in {"sent back", "answered"})
      /\ reqs'[k].met \subseteq {0} \cup DOMAIN reqs'
    BY <1>1, <1>2 DEF ReqsTyped
<1>4. ASSUME NEW j \in DOMAIN reqs, j # k
      PROVE  /\ DOMAIN reqs'[j] = Fields /\ reqs'[j].pc \in StepsOf(reqs'[j].kind) /\ reqs'[j].failed \in BOOLEAN
             /\ (reqs'[j].failed => reqs'[j].pc \in {"sent back", "answered"})
             /\ reqs'[j].met \subseteq {0} \cup DOMAIN reqs'
    BY <1>1, <1>4 DEF ReqsTyped
<1>5. fetch'.pc \in {"none", "sent", "read", "failed"}
    BY <1>1 DEF ReqsTyped
<1> QED
    BY <1>1, <1>3, <1>4, <1>5 DEF ReqsTyped

LEMMA ServeFits ==
    ASSUME ReqsTyped, Overlaps, RepliesFit, NEW k \in DOMAIN reqs, Serves(k), UNCHANGED <<cached, fetch>>
    PROVE  Overlaps' /\ RepliesFit'
<1>1. /\ DOMAIN reqs' = DOMAIN reqs /\ fetch' = fetch
      /\ \A j \in DOMAIN reqs : j # k => reqs'[j] = reqs[j]
      /\ \A j \in DOMAIN reqs : reqs'[j].met = reqs[j].met /\ reqs'[j].kind = reqs[j].kind
                                /\ reqs'[j].table = reqs[j].table
    BY DEF Serves, Advances, Same
<1>2. Overlaps'
    BY <1>1, StillOpen DEF Overlaps, Fetching
<1>3. ASSUME NEW j \in DOMAIN reqs, j # k, Asking(j)', reqs'[j].met = {} PROVE reqs'[j].pc \notin {"read back", "sent back"}
    <2>1. ~Open(j)
        BY <1>1, <1>3, StillOpen DEF Overlaps
    <2> QED
        BY <1>1, <1>3, <2>1 DEF Open
<1>4. ASSUME Asking(k)', reqs'[k].met = {}
      PROVE  /\ reqs'[k].pc = "read back" => reqs'[k].table \in StoredTables'
             /\ reqs'[k].pc = "sent back" /\ ~reqs'[k].failed =>
                reqs'[k].table \in StoredTables' /\ reqs'[k].reply = meta'[reqs'[k].table]
    <2>1. Asking(k) /\ ~Invalidates(reqs[k].kind) /\ reqs[k].kind \notin {"suggest", "sync"}
        BY <1>1, <1>4, KindsApart DEF Asking
    <2>2. reqs'[k].failed => reqs'[k].pc = "sent back"
        BY DEF Serves
    <2>3. CASE reqs'[k].failed
        BY <2>2, <2>3
    <2>4. CASE ~reqs'[k].failed /\ reqs[k].pc = "start" /\ reqs'[k].pc = "read back" /\ reqs[k].table \in StoredTables
               /\ meta' = [meta EXCEPT ![reqs[k].table] = meta'[reqs[k].table]]
        BY <1>1, <2>4 DEF StoredTables
    <2>5. CASE ~reqs'[k].failed /\ reqs[k].pc = "read back" /\ reqs'[k].pc = "sent back" /\ meta' = meta
               /\ reqs[k].table \in StoredTables /\ reqs'[k].reply = meta[reqs[k].table]
        BY <1>1, <2>5 DEF StoredTables
    <2> QED
        BY <2>1, <2>3, <2>4, <2>5 DEF Serves, Effect
<1> QED
    BY <1>1, <1>2, <1>3, <1>4 DEF RepliesFit

LEMMA ServeSettles ==
    ASSUME SettleInv, NEW k \in DOMAIN reqs, Serves(k), UNCHANGED <<cached, fetch>>
    PROVE  Settling'
<1> USE DEF SettleInv
<1> SUFFICES ASSUME Undisturbed', fetch.pc # "failed" PROVE ShownOrComing'
    BY DEF Settling, ShownOrComing
<1>1. /\ DOMAIN reqs' = DOMAIN reqs /\ fetch' = fetch /\ cached' = cached
      /\ \A j \in DOMAIN reqs : j # k => reqs'[j] = reqs[j]
      /\ \A j \in DOMAIN reqs : reqs'[j].met = reqs[j].met /\ reqs'[j].kind = reqs[j].kind
                                /\ reqs'[j].table = reqs[j].table
    BY DEF Serves, Advances, Same
<1>2. Open(k) /\ reqs[k].failed = FALSE /\ reqs[k].pc \notin {"sent back", "answered"}
      /\ reqs'[k].pc \notin {"start", "answered"}
    BY StillOpen DEF Serves
<1>3. Undisturbed
    BY <1>1, <1>2 DEF Undisturbed, Serves, Asking
<1>4. ShownOrComing
    BY <1>3 DEF Settling
<1>5. /\ status' # "gone"
      /\ Asking(k) => reqs[k].met = {}
      /\ reqs[k].kind \in {"suggest", "sync"} => ~reqs'[k].failed
    BY <1>1 DEF Undisturbed, Asking
<1>6. ASSUME NEW j \in DOMAIN reqs, j # k, UNCHANGED <<meta, mods>>
      PROVE  (WillFetch(j) => WillFetch(j)') /\ (WillPatch(j) => WillPatch(j)')
    BY <1>1, <1>6 DEF WillFetch, WillPatch, Asking, StoredTables, StoredSchema
<1>7. ASSUME UNCHANGED <<meta, mods>>, WillFetch(k) => WillFetch(k)', WillPatch(k) => WillPatch(k)'
      PROVE  ShownOrComing'
    <2>1. StoredSchema' = StoredSchema
        BY <1>7 DEF StoredSchema
    <2>2. CASE \E j \in DOMAIN reqs : WillFetch(j)
        BY <1>1, <1>6, <1>7, <2>2 DEF ShownOrComing
    <2>3. CASE fetch.pc = "sent" \/ (fetch.pc = "read" /\ fetch.value = StoredSchema)
        BY <1>1, <2>1, <2>3 DEF ShownOrComing
    <2>4. CASE fetch.pc = "none" /\ cached \in {None, StoredSchema}
        BY <1>1, <2>1, <2>4 DEF ShownOrComing
    <2>5. CASE fetch.pc = "none" /\ \E j \in DOMAIN reqs : WillPatch(j)
        BY <1>1, <1>6, <1>7, <2>5 DEF ShownOrComing
    <2> QED
        BY <1>4, <2>2, <2>3, <2>4, <2>5 DEF ShownOrComing
<1>8. CASE Invalidates(reqs[k].kind) /\ ~reqs'[k].failed
    <2>1. WillFetch(k)'
        BY <1>1, <1>2, <1>8 DEF WillFetch, Invalidates
    <2> QED
        BY <1>1, <2>1 DEF ShownOrComing
<1>9. CASE ~Asking(k) /\ ~WillFetch(k) /\ UNCHANGED <<meta, mods>>
    BY <1>7, <1>9 DEF WillPatch
<1>10. CASE /\ Asking(k) /\ UNCHANGED <<meta, mods>>
            /\ reqs[k].pc = "read back" => reqs[k].table \notin StoredTables
    <2>1. ~WillFetch(k)
        BY <1>10, KindsApart DEF WillFetch
    <2>2. ~WillPatch(k)
        BY <1>2, <1>10 DEF WillPatch
    <2> QED
        BY <1>7, <1>10, <2>1, <2>2
<1>11. CASE /\ Asking(k) /\ ~reqs'[k].failed /\ reqs[k].pc = "start" /\ reqs'[k].pc = "read back"
            /\ reqs[k].table \in StoredTables
            /\ meta' = [meta EXCEPT ![reqs[k].table] = meta'[reqs[k].table]] /\ mods' = mods
    <2>1. fetch.pc = "none" /\ \A j \in DOMAIN reqs : Open(j) => j = k
        BY <1>2, <1>5, <1>11, Alone
    <2>2. ~\E j \in DOMAIN reqs : WillFetch(j)
        BY <1>11, <2>1, KindsApart DEF WillFetch, Open
    <2>3. ~\E j \in DOMAIN reqs : WillPatch(j)
        BY <1>11, <2>1 DEF WillPatch, Open
    <2>4. CASE cached = None
        BY <1>1, <2>1, <2>4 DEF ShownOrComing
    <2>5. CASE cached = StoredSchema
        <3> DEFINE t == reqs[k].table
        <3>1. /\ t \in StoredTables' /\ t \in DOMAIN cached.tables
              /\ [cached EXCEPT !.tables[t] = meta'[t]] = StoredSchema'
            BY <1>11, <2>5, PatchFits
        <3>2. WillPatch(k)'
            BY <1>1, <1>11, <3>1 DEF WillPatch, Asking
        <3> QED
            BY <1>1, <2>1, <3>2 DEF ShownOrComing
    <2> QED
        BY <1>4, <2>1, <2>2, <2>3, <2>4, <2>5 DEF ShownOrComing
<1>12. CASE /\ Asking(k) /\ ~reqs'[k].failed /\ reqs[k].pc = "read back" /\ reqs'[k].pc = "sent back"
            /\ UNCHANGED <<meta, mods>>
    <2>1. ~WillFetch(k)
        BY <1>12, KindsApart DEF WillFetch
    <2>2. WillPatch(k) => WillPatch(k)'
        BY <1>1, <1>12 DEF WillPatch, Asking, StoredTables, StoredSchema
    <2> QED
        BY <1>7, <1>12, <2>1, <2>2
<1> QED
    BY <1>5, <1>8, <1>9, <1>10, <1>11, <1>12 DEF Serves, Effect

LEMMA ServerKeeps ==
    ASSUME SettleInv, NEW k \in DOMAIN reqs, ServerStep(k)
    PROVE  SettleInv'
<1>1. Serves(k) /\ UNCHANGED <<cached, fetch>>
    BY Served DEF SettleInv
<1> QED
    BY <1>1, ServeTyped, ServeFits, ServeSettles DEF SettleInv, Serves

LEMMA AnswerKeeps ==
    ASSUME SettleInv, NEW k \in DOMAIN reqs, Answer(k)
    PROVE  SettleInv'
<1> USE DEF SettleInv
<1>1. /\ Advances(k) /\ reqs'[k].pc = "answered" /\ reqs'[k].failed = reqs[k].failed
      /\ reqs[k].pc = "sent back" /\ Open(k)
    BY Stepped DEF Answer, Open
<1>2. /\ reqs' \in Seq(Range(reqs')) /\ DOMAIN reqs' = DOMAIN reqs
      /\ UNCHANGED <<meta, mods, status>>
      /\ \A j \in DOMAIN reqs : j # k => reqs'[j] = reqs[j]
      /\ \A j \in DOMAIN reqs : reqs'[j].met = reqs[j].met /\ reqs'[j].kind = reqs[j].kind
                                /\ reqs'[j].table = reqs[j].table /\ reqs'[j].failed = reqs[j].failed
    BY <1>1 DEF Advances, Same, Answer, serverVars
<1>3. StoredSchema' = StoredSchema /\ StoredTables' = StoredTables
    BY <1>2 DEF StoredSchema, StoredTables
<1>4. fetch' = IF Invalidates(reqs[k].kind) /\ ~reqs[k].failed THEN [pc |-> "sent", value |-> None] ELSE fetch
    BY DEF Answer
<1>5. ReqsTyped'
    <2>1. fetch'.pc \in {"none", "sent", "read", "failed"}
        BY <1>4 DEF ReqsTyped
    <2>2. /\ DOMAIN reqs'[k] = Fields /\ reqs'[k].pc \in StepsOf(reqs'[k].kind) /\ reqs'[k].failed \in BOOLEAN
          /\ reqs'[k].met \subseteq {0} \cup DOMAIN reqs'
        BY <1>1, <1>2, RequestFacts DEF ReqsTyped, Advances, StepsOf
    <2>3. \A j \in DOMAIN reqs : j # k =>
             /\ DOMAIN reqs'[j] = Fields /\ reqs'[j].pc \in StepsOf(reqs'[j].kind) /\ reqs'[j].failed \in BOOLEAN
             /\ (reqs'[j].failed => reqs'[j].pc \in {"sent back", "answered"})
             /\ reqs'[j].met \subseteq {0} \cup DOMAIN reqs'
        BY <1>2 DEF ReqsTyped
    <2> QED
        BY <1>1, <1>2, <2>1, <2>2, <2>3 DEF ReqsTyped
<1>6. MetaTyped'
    BY <1>2, SameMetadata
<1>7. \A j \in DOMAIN reqs : Open(j)' <=> Open(j) /\ j # k
    BY <1>1, <1>2 DEF Open
<1>8. Overlaps'
    <2>1. \A i, j \in DOMAIN reqs' : i # j /\ Open(i)' /\ Open(j)' => i \in reqs'[j].met
        BY <1>2, <1>7 DEF Overlaps
    <2>2. ASSUME NEW j \in DOMAIN reqs, Open(j)' PROVE reqs'[j].met # {}
        BY <1>1, <1>2, <1>7, <2>2 DEF Overlaps
    <2> QED
        BY <1>2, <2>1, <2>2 DEF Overlaps, Fetching
<1>9. RepliesFit'
    <2>1. ASSUME NEW j \in DOMAIN reqs, j # k, Asking(j)', reqs'[j].met = {}
          PROVE  /\ reqs'[j].pc = "read back" => reqs'[j].table \in StoredTables'
                 /\ reqs'[j].pc = "sent back" /\ ~reqs'[j].failed =>
                    reqs'[j].table \in StoredTables' /\ reqs'[j].reply = meta'[reqs'[j].table]
        <3>1. reqs'[j] = reqs[j] /\ Asking(j)
            BY <1>2, <2>1 DEF Asking
        <3> QED
            BY <1>2, <1>3, <2>1, <3>1 DEF RepliesFit
    <2>2. reqs'[k].pc \notin {"read back", "sent back"}
        BY <1>1
    <2> QED
        BY <1>2, <2>1, <2>2 DEF RepliesFit
<1>10. ASSUME Undisturbed' PROVE ShownOrComing'
    <2>1. Undisturbed
        BY <1>2, <1>10 DEF Undisturbed, Asking
    <2>2. ShownOrComing
        BY <2>1 DEF Settling
    <2>3. CASE Invalidates(reqs[k].kind) /\ ~reqs[k].failed
        BY <1>4, <2>3 DEF ShownOrComing
    <2>6. CASE Asking(k) /\ ~reqs[k].failed /\ fetch.pc = "failed"
        <3>1. fetch' = fetch
            BY <1>4, <2>6, KindsApart
        <3> QED
            BY <2>6, <3>1 DEF ShownOrComing
    <2>4. CASE Asking(k) /\ ~reqs[k].failed /\ fetch.pc # "failed"
        <3> DEFINE t == reqs[k].table
        <3>1. reqs[k].met = {}
            BY <2>1, <2>4 DEF Undisturbed
        <3>2. fetch.pc = "none" /\ \A j \in DOMAIN reqs : Open(j) => j = k
            BY <1>1, <2>4, <3>1, Alone
        <3>3. fetch' = fetch
            BY <1>4, <2>4, KindsApart
        <3>4. t \in StoredTables /\ reqs[k].reply = meta[t]
            BY <1>1, <2>4, <3>1 DEF RepliesFit
        <3>5. cached' = Patched(t, meta[t])
            BY <2>4, <3>4 DEF Answer, Asking
        <3>6. ~\E j \in DOMAIN reqs : WillFetch(j)
            BY <2>4, <3>2, KindsApart DEF WillFetch, Open
        <3>7. cached \in {None, StoredSchema} \/ WillPatch(k)
            BY <2>2, <3>2, <3>6 DEF ShownOrComing, WillPatch, Open
        <3>8. CASE cached = None
            BY <3>2, <3>3, <3>5, <3>8 DEF ShownOrComing, Patched
        <3>9. CASE cached = StoredSchema /\ cached # None
            <4>1. t \in DOMAIN cached.tables
                BY <3>4, <3>9 DEF StoredSchema, StoredTables
            <4>2. meta = [meta EXCEPT ![t] = meta[t]]
                BY <3>4 DEF MetaTyped, StoredTables
            <4> HIDE DEF t
            <4>3. [cached EXCEPT !.tables[t] = meta[t]] = StoredSchema
                BY <3>9, <4>2 DEF StoredSchema
            <4> QED
                BY <1>3, <3>2, <3>3, <3>5, <3>9, <4>1, <4>3 DEF ShownOrComing, Patched
        <3>10. CASE WillPatch(k) /\ cached # None
            BY <1>3, <3>2, <3>3, <3>5, <3>10 DEF ShownOrComing, Patched, WillPatch
        <3> QED
            BY <3>7, <3>8, <3>9, <3>10
    <2>5. CASE ~(Invalidates(reqs[k].kind) /\ ~reqs[k].failed) /\ ~(Asking(k) /\ ~reqs[k].failed)
        <3>1. fetch' = fetch /\ cached' = cached
            BY <1>4, <2>5 DEF Answer, Asking
        <3>2. ASSUME NEW j \in DOMAIN reqs
              PROVE  (WillFetch(j) => WillFetch(j)') /\ (WillPatch(j) => WillPatch(j)')
            <4>1. CASE j = k
                BY <2>5, <4>1 DEF WillFetch, WillPatch
            <4>2. CASE j # k
                BY <1>2, <1>3, <3>1, <4>2 DEF WillFetch, WillPatch, Asking
            <4> QED
                BY <4>1, <4>2
        <3>3. CASE \E j \in DOMAIN reqs : WillFetch(j)
            BY <1>2, <3>2, <3>3 DEF ShownOrComing
        <3>4. CASE ~\E j \in DOMAIN reqs : WillFetch(j)
            BY <1>2, <1>3, <2>2, <3>1, <3>2, <3>4 DEF ShownOrComing
        <3> QED
            BY <3>3, <3>4
    <2> QED
        BY <2>3, <2>4, <2>5, <2>6
<1>11. Settling'
    BY <1>10 DEF Settling
<1> QED
    BY <1>5, <1>6, <1>8, <1>9, <1>11

\* What a step that is no request's business keeps.
LEMMA SameRequests ==
    ASSUME ReqsTyped, RepliesFit, reqs' = reqs, meta' = meta, fetch'.pc \in {"none", "sent", "read", "failed"}
    PROVE  ReqsTyped' /\ RepliesFit'
<1>1. ReqsTyped'
    BY DEF ReqsTyped
<1>2. RepliesFit'
    BY DEF RepliesFit, Asking, StoredTables
<1> QED
    BY <1>1, <1>2

LEMMA FetchReadKeeps ==
    ASSUME SettleInv, FetchRead
    PROVE  SettleInv'
<1> USE DEF SettleInv
<1>1. /\ UNCHANGED <<meta, mods, status, reqs, cached>> /\ fetch.pc = "sent"
      /\ \/ fetch' = [pc |-> "read", value |-> StoredSchema]
         \/ fetch' = [pc |-> "failed", value |-> None]
    BY DEF FetchRead, serverVars
<1>2. ReqsTyped' /\ MetaTyped' /\ RepliesFit'
    <2>1. fetch'.pc \in {"none", "sent", "read", "failed"}
        BY <1>1 DEF Idle
    <2> QED
        BY <1>1, <2>1, SameRequests, SameMetadata
<1>3. Overlaps'
    <2>1. ASSUME NEW j \in DOMAIN reqs, Open(j)' PROVE reqs'[j].met # {}
        BY <1>1, <2>1 DEF Overlaps, Open, Fetching
    <2> QED
        BY <1>1, <2>1 DEF Overlaps, Open
<1>4. Settling'
    <2>1. ASSUME Undisturbed' PROVE ShownOrComing'
        BY <1>1 DEF ShownOrComing, StoredSchema
    <2> QED
        BY <2>1 DEF Settling
<1> QED
    BY <1>2, <1>3, <1>4

LEMMA FetchArrivesKeeps ==
    ASSUME SettleInv, FetchArrives
    PROVE  SettleInv'
<1> USE DEF SettleInv
<1>1. /\ UNCHANGED <<meta, mods, status, reqs>> /\ fetch.pc = "read"
      /\ fetch' = Idle /\ cached' = fetch.value
    BY DEF FetchArrives, serverVars
<1>2. ReqsTyped' /\ MetaTyped' /\ RepliesFit'
    <2>1. fetch'.pc \in {"none", "sent", "read", "failed"}
        BY <1>1 DEF Idle
    <2> QED
        BY <1>1, <2>1, SameRequests, SameMetadata
<1>3. Overlaps'
    <2>1. fetch'.pc = "none"
        BY <1>1 DEF Idle
    <2> QED
        BY <1>1, <2>1 DEF Overlaps, Open, Fetching
<1>4. Settling'
    <2>1. ASSUME Undisturbed' PROVE ShownOrComing'
        <3>1. Undisturbed
            BY <1>1, <2>1 DEF Undisturbed, Asking
        <3>2. CASE \E j \in DOMAIN reqs : WillFetch(j)
            BY <1>1, <3>2 DEF ShownOrComing, WillFetch
        <3>3. CASE fetch.value = StoredSchema
            BY <1>1, <3>3 DEF ShownOrComing, StoredSchema, Idle
        <3> QED
            BY <1>1, <3>1, <3>2, <3>3 DEF Settling, ShownOrComing
    <2> QED
        BY <2>1 DEF Settling
<1> QED
    BY <1>2, <1>3, <1>4

LEMMA SendKeeps ==
    ASSUME SettleInv, NEW kind, Sends(kind), UNCHANGED <<meta, mods, status, cached, fetch>>
    PROVE  SettleInv'
<1> USE DEF SettleInv
<1>1. /\ reqs' \in Seq(Range(reqs')) /\ DOMAIN reqs' = DOMAIN reqs \cup {Newest} /\ Newest \notin DOMAIN reqs
      /\ \A k \in DOMAIN reqs :
            /\ DOMAIN reqs'[k] = Fields
            /\ AsItWas(reqs'[k], reqs[k])
            /\ reqs'[k].met = IF Open(k) THEN reqs[k].met \cup {Newest} ELSE reqs[k].met
      /\ DOMAIN reqs'[Newest] = Fields
      /\ reqs'[Newest].kind = kind /\ reqs'[Newest].pc = "start" /\ reqs'[Newest].failed = FALSE
      /\ reqs'[Newest].met = {k \in DOMAIN reqs : Open(k)} \cup (IF Fetching THEN {0} ELSE {})
    BY DEF Sends
<1>2. ReqsTyped'
    <2>1. ASSUME NEW k \in DOMAIN reqs
          PROVE  /\ DOMAIN reqs'[k] = Fields /\ reqs'[k].pc \in StepsOf(reqs'[k].kind) /\ reqs'[k].failed \in BOOLEAN
                 /\ (reqs'[k].failed => reqs'[k].pc \in {"sent back", "answered"})
                 /\ reqs'[k].met \subseteq {0} \cup DOMAIN reqs'
        BY <1>1, <2>1 DEF ReqsTyped, AsItWas
    <2>2. /\ DOMAIN reqs'[Newest] = Fields /\ reqs'[Newest].pc \in StepsOf(reqs'[Newest].kind)
          /\ reqs'[Newest].failed = FALSE /\ reqs'[Newest].met \subseteq {0} \cup DOMAIN reqs'
        BY <1>1 DEF StepsOf
    <2>3. fetch'.pc \in {"none", "sent", "read", "failed"}
        BY DEF ReqsTyped
    <2> QED
        BY <1>1, <2>1, <2>2, <2>3 DEF ReqsTyped
<1>3. MetaTyped'
    BY SameMetadata
<1>4. \A k \in DOMAIN reqs : Open(k)' <=> Open(k)
    BY <1>1 DEF Open, AsItWas
<1>5. Overlaps'
    <2>1. ASSUME NEW i \in DOMAIN reqs', NEW j \in DOMAIN reqs', i # j, Open(i)', Open(j)'
          PROVE  i \in reqs'[j].met
        <3>1. CASE i \in DOMAIN reqs /\ j \in DOMAIN reqs
            BY <1>1, <1>4, <2>1, <3>1 DEF Overlaps
        <3>2. CASE i = Newest /\ j \in DOMAIN reqs
            BY <1>1, <1>4, <2>1, <3>2
        <3>3. CASE i \in DOMAIN reqs /\ j = Newest
            BY <1>1, <1>4, <2>1, <3>3
        <3> QED
            BY <1>1, <2>1, <3>1, <3>2, <3>3
    <2>2. ASSUME NEW j \in DOMAIN reqs', Open(j)', reqs'[j].met = {}
          PROVE  ~Fetching'
        <3>1. CASE j \in DOMAIN reqs
            BY <1>1, <1>4, <2>2, <3>1
        <3>2. CASE j = Newest
            BY <1>1, <2>2, <3>2 DEF Fetching
        <3> QED
            BY <1>1, <3>1, <3>2
    <2> QED
        BY <2>1, <2>2 DEF Overlaps
<1>6. RepliesFit'
    <2>1. ASSUME NEW k \in DOMAIN reqs, reqs'[k].met = {} PROVE ~Open(k)
        BY <1>1, <2>1
    <2>2. \A k \in DOMAIN reqs : reqs'[k].met = {} => reqs'[k].pc \notin {"read back", "sent back"}
        BY <1>1, <2>1 DEF Open, AsItWas
    <2>3. reqs'[Newest].pc \notin {"read back", "sent back"}
        BY <1>1
    <2> QED
        BY <1>1, <2>2, <2>3 DEF RepliesFit
<1>7. Settling'
    <2>1. ASSUME Undisturbed' PROVE ShownOrComing'
        <3>1. /\ status # "gone"
              /\ \A k \in DOMAIN reqs :
                    IF Asking(k) THEN reqs'[k].met = {}
                    ELSE reqs[k].kind \in {"suggest", "sync"} => ~reqs[k].failed
            BY <1>1, <2>1 DEF Undisturbed, Asking, AsItWas
        <3>2. \A k \in DOMAIN reqs : Asking(k) => reqs[k].met = {} /\ ~Open(k)
            BY <1>1, <3>1
        <3>3. Undisturbed
            BY <3>1, <3>2 DEF Undisturbed
        <3>4. ShownOrComing
            BY <3>3 DEF Settling
        <3>5. ~\E k \in DOMAIN reqs : WillPatch(k)
            BY <3>2 DEF WillPatch, Open
        <3>6. CASE \E k \in DOMAIN reqs : WillFetch(k)
            BY <1>1, <3>6 DEF ShownOrComing, WillFetch, AsItWas
        <3> QED
            BY <3>4, <3>5, <3>6 DEF ShownOrComing, StoredSchema
    <2> QED
        BY <2>1 DEF Settling
<1> QED
    BY <1>2, <1>3, <1>5, <1>6, <1>7

LEMMA NothingKeeps ==
    ASSUME SettleInv, UNCHANGED <<status, meta, mods, reqs, cached, fetch>>
    PROVE  SettleInv'
<1>1. ReqsTyped' /\ MetaTyped' /\ RepliesFit'
    <2>1. fetch'.pc \in {"none", "sent", "read", "failed"}
        BY DEF SettleInv, ReqsTyped
    <2> QED
        BY <2>1, SameRequests, SameMetadata DEF SettleInv
<1>2. Overlaps'
    BY DEF SettleInv, Overlaps, Open, Fetching
<1>3. Settling'
    BY DEF SettleInv, Settling, Undisturbed, ShownOrComing, WillFetch, WillPatch, Asking, StoredSchema, StoredTables
<1> QED
    BY <1>1, <1>2, <1>3 DEF SettleInv

\* What a step of the dashboard does to all of this.
LEMMA StepsOfDashboard ==
    ASSUME ScreenNext
    PROVE  \/ \E k \in DOMAIN reqs : ServerStep(k) \/ Answer(k)
           \/ FetchRead \/ FetchArrives
           \/ UNCHANGED <<status, meta, mods, reqs, cached, fetch>>
           \/ /\ \E kind, table, module, name : Send(kind, table, module, name)
              /\ UNCHANGED <<status, meta, mods, cached, fetch>>
<1>1. CASE PressSync \/ PressTest \/ PressDelete \/ PressSuggest
    BY <1>1 DEF PressSync, PressTest, PressDelete, PressSuggest, AskOnce, Asked, serverVars
<1>2. CASE AddModule \/ SaveModule \/ ConfirmDelete
    BY <1>2 DEF AddModule, SaveModule, ConfirmDelete, Asked, serverVars
<1>3. CASE PickModule \/ PressGenerate \/ SaveText \/ GenerateNext
    BY <1>3 DEF PickModule, PressGenerate, SaveText, GenerateNext, Asked, serverVars
<1>4. CASE PressEdit \/ CancelText \/ SelectTable \/ PressGenerateAll
    BY <1>4 DEF PressEdit, CancelText, SelectTable, PressGenerateAll, serverVars
<1>5. CASE OpenAudit \/ AuditAnswers \/ CloseAudit \/ RunStatement
    BY <1>5 DEF OpenAudit, AuditAnswers, CloseAudit, RunStatement, serverVars
<1> QED
    BY <1>1, <1>2, <1>3, <1>4, <1>5 DEF ScreenNext

LEMMA SettleInductive == ScreenSpec => []SettleInv
<1>1. ScreenInit => SettleInv
    <2> SUFFICES ASSUME ScreenInit PROVE SettleInv
        OBVIOUS
    <2>1. reqs = <<>> /\ DOMAIN reqs = {} /\ fetch.pc = "sent" /\ meta = [t \in visit.synced |-> Blank]
        BY DEF ScreenInit
    <2>2. ReqsTyped
        BY <2>1 DEF ReqsTyped
    <2>3. MetaTyped
        BY <2>1 DEF MetaTyped, StoredTables, Blank
    <2>4. Overlaps /\ RepliesFit /\ Settling
        BY <2>1 DEF Overlaps, RepliesFit, Settling, ShownOrComing
    <2> QED
        BY <2>2, <2>3, <2>4 DEF SettleInv
<1>2. SettleInv /\ [ScreenNext]_screenVars => SettleInv'
    <2> SUFFICES ASSUME SettleInv, ScreenNext \/ UNCHANGED screenVars PROVE SettleInv'
        OBVIOUS
    <2>1. CASE \E k \in DOMAIN reqs : ServerStep(k) \/ Answer(k)
        BY <2>1, ServerKeeps, AnswerKeeps
    <2>2. CASE FetchRead \/ FetchArrives
        BY <2>2, FetchReadKeeps, FetchArrivesKeeps
    <2>3. CASE /\ \E kind, table, module, name : Send(kind, table, module, name)
               /\ UNCHANGED <<status, meta, mods, cached, fetch>>
        <3>1. PICK kind, table, module, name : Send(kind, table, module, name)
            BY <2>3
        <3>2. Sends(kind)
            BY <3>1, Sent DEF SettleInv
        <3> QED
            BY <2>3, <3>2, SendKeeps
    <2>4. CASE UNCHANGED <<status, meta, mods, reqs, cached, fetch>>
        BY <2>4, NothingKeeps
    <2>5. CASE UNCHANGED screenVars
        BY <2>5, NothingKeeps DEF screenVars
    <2> QED
        BY <2>1, <2>2, <2>3, <2>4, <2>5, StepsOfDashboard
<1> QED
    BY <1>1, <1>2, PTL DEF ScreenSpec

\* When nothing is under way the screen shows what is stored, unless a
\* description request raced with something, a request failed half-way or the
\* last fetch failed.
THEOREM ScreenShowsStored == ScreenSpec => []ScreenSettles
<1>1. SettleInv => ScreenSettles
    <2> SUFFICES ASSUME SettleInv,
                        cached # None, fetch.pc = "none", status # "gone", \A k \in DOMAIN reqs : ~Open(k),
                        \A k \in DOMAIN reqs :
                            IF reqs[k].kind \in {"describe", "edit"} THEN reqs[k].met = {}
                            ELSE reqs[k].kind \in {"suggest", "sync"} => ~reqs[k].failed
                 PROVE  cached = StoredSchema
        BY DEF ScreenSettles
    <2>1. ShownOrComing
        BY DEF SettleInv, Settling, Undisturbed, Asking
    <2>2. \A k \in DOMAIN reqs : ~WillFetch(k) /\ ~WillPatch(k)
        BY DEF WillFetch, WillPatch, Open
    <2> QED
        BY <2>1, <2>2 DEF ShownOrComing
<1> QED
    BY <1>1, SettleInductive, PTL

-----------------------------------------------------------------------------
(* A suggestion keeps groups                                               *)

LEMMA LeastOf ==
    ASSUME NEW T, T \subseteq Nat, T # {}
    PROVE  \E x \in T : \A y \in T : x <= y
<1>1. \E x \in T : \A y \in T : ~(<<y, x>> \in OpToRel(<, Nat))
    BY NatLessThanWellFounded, WFMin, Zenon
<1>2. PICK x \in T : \A y \in T : ~(y < x)
    BY <1>1 DEF OpToRel
<1> QED
    BY <1>2

LEMMA LeastIn ==
    ASSUME NEW T, T \subseteq Nat, T # {}
    PROVE  Min(T) \in T
<1>1. \E x \in T : \A y \in T : x <= y
    BY LeastOf
<1> QED
    BY <1>1 DEF Min

\* The modules of a reply share no table.
LEMMA ModulesApart ==
    ASSUME NEW said, said \in Seq(Range(said)), NEW tables
    PROVE  DOMAIN ParseModules(said, tables) \subseteq Nat /\ Apart(ParseModules(said, tables))
<1> DEFINE Means(i) == IF said[i].name = "" THEN {} ELSE UNION {RealNames(t, tables) : t \in said[i].tables}
           Kept(i) == Means(i) \ UNION {Means(j) : j \in 1..(i - 1)}
           kept == {i \in DOMAIN said : Kept(i) # {}}
           plan == [i \in kept |-> [name |-> said[i].name, tables |-> Kept(i)]]
<1>1. ParseModules(said, tables) = plan
    BY DEF ParseModules
<1>2. kept \subseteq Nat \ {0}
    <2>1. DOMAIN said \subseteq Nat \ {0}
        OBVIOUS
    <2> HIDE DEF Kept
    <2> QED
        BY <2>1
<1>3. \A i \in kept : plan[i].tables = Kept(i)
    OBVIOUS
<1>4. DOMAIN plan = kept
    OBVIOUS
<1>5. ASSUME NEW i \in kept, NEW j \in kept, i < j PROVE Kept(i) \cap Kept(j) = {}
    <2> HIDE DEF Means
    <2>1. i \in 1..(j - 1)
        BY <1>2, <1>5
    <2> QED
        BY <2>1
<1> HIDE DEF Kept, kept, plan
<1>6. ASSUME NEW i \in kept, NEW j \in kept, i # j PROVE plan[i].tables \cap plan[j].tables = {}
    <2>1. i < j \/ j < i
        BY <1>2, <1>6
    <2> QED
        BY <1>3, <1>5, <2>1
<1>7. Apart(plan)
    BY <1>4, <1>6 DEF Apart
<1> QED
    BY <1>1, <1>2, <1>4, <1>7

LEMMA PlanSuggested ==
    ASSUME NEW replies \in Suggestions, NEW tables, SuggestModules(replies, tables) # Nothing
    PROVE  /\ DOMAIN SuggestModules(replies, tables).modules \subseteq Nat
           /\ Apart(SuggestModules(replies, tables).modules)
<1> DEFINE Reading(reply) == IF DOMAIN ParseModules(reply, tables) = {} THEN Nothing
                             ELSE [type |-> "modules", modules |-> ParseModules(reply, tables)]
           usable == {i \in DOMAIN replies : replies[i] # NoReply /\ Reading(replies[i]) # Nothing}
           first == Min(usable)
<1>1. SuggestModules(replies, tables) = IF usable = {} THEN Nothing ELSE Reading(replies[first])
    BY DEF SuggestModules, FirstUsable
<1>2. usable # {} /\ usable \subseteq Nat
    <2>1. DOMAIN replies \subseteq Nat
        BY ConnectionScreensAssumption
    <2> HIDE DEF Reading
    <2> QED
        BY <1>1, <2>1
<1>3. first \in usable
    <2> HIDE DEF usable
    <2> QED
        BY <1>2, LeastIn
<1>4. first \in DOMAIN replies /\ replies[first] # NoReply /\ Reading(replies[first]) # Nothing
    <2> HIDE DEF Reading, first
    <2> QED
        BY <1>3
<1>5. replies[first] \in Seq(Range(replies[first]))
    <2> HIDE DEF first
    <2> QED
        BY <1>4, ConnectionScreensAssumption
<1>6. SuggestModules(replies, tables) = Reading(replies[first])
    <2> HIDE DEF Reading, first, usable
    <2> QED
        BY <1>1, <1>2
<1> DEFINE plan == ParseModules(replies[first], tables)
<1>7. Reading(replies[first]).modules = plan
    <2> HIDE DEF first, usable
    <2> QED
        BY <1>4
<1>8. DOMAIN plan \subseteq Nat /\ Apart(plan)
    <2> DEFINE said == replies[first]
    <2> HIDE DEF said, first
    <2> QED
        BY <1>5, ModulesApart DEF said
<1> QED
    BY <1>6, <1>7, <1>8

\* The tables a step leaves in their module, or without one.
GroupsKept ==
    \A t \in StoredTables' : meta'[t].group = None \/ (t \in StoredTables /\ meta'[t].group = meta[t].group)

LEMMA ExcusedStays ==
    ASSUME ReqsTyped, NEW k \in DOMAIN reqs, Excused(k), reqs[k].met \subseteq reqs'[k].met,
           \A j \in DOMAIN reqs : reqs'[j].kind = reqs[j].kind
    PROVE  Excused(k)'
<1>1. PICK j \in reqs[k].met \ {0} : reqs[j].kind \in {"assign", "suggest"}
    BY DEF Excused
<1>2. j \in DOMAIN reqs
    BY DEF ReqsTyped
<1> QED
    BY <1>1, <1>2 DEF Excused

\* A request that waits while something else happens.
LEMMA WaitingFits ==
    ASSUME ReqsTyped, NEW k \in DOMAIN reqs, GroupFits(k), AsItWas(reqs'[k], reqs[k]),
           reqs[k].met \subseteq reqs'[k].met, \A j \in DOMAIN reqs : reqs'[j].kind = reqs[j].kind,
           Excused(k)' \/ GroupsKept
    PROVE  GroupFits(k)'
<1> SUFFICES ASSUME Grouping(k)'
             PROVE  /\ reqs'[k].pc # "ai" => DOMAIN reqs'[k].plan \subseteq Nat /\ Apart(reqs'[k].plan)
                    /\ reqs'[k].pc = "tables" => DOMAIN reqs'[k].plan # {}
                    /\ \A t \in ToAssign(k)' \cap StoredTables' : meta'[t].group = None \/ Excused(k)'
    BY DEF GroupFits
<1>1. Grouping(k) /\ ToAssign(k)' = ToAssign(k)
    BY DEF Grouping, ToAssign, AsItWas
<1>2. Excused(k) => Excused(k)'
    BY ExcusedStays
<1>3. \A t \in ToAssign(k)' \cap StoredTables' : meta'[t].group = None \/ Excused(k)'
    BY <1>1, <1>2 DEF GroupsKept, GroupFits
<1> QED
    BY <1>1, <1>3 DEF GroupFits, AsItWas

LEMMA GroupsLeft ==
    ASSUME MetaTyped, meta' = meta
    PROVE  GroupsKept
BY DEF GroupsKept, StoredTables

\* Only an assignment and a suggestion give a table a module.
LEMMA GroupsChanged ==
    ASSUME MetaTyped, NEW k \in DOMAIN reqs, ServerStep(k), reqs[k].kind \notin {"assign", "suggest"}
    PROVE  GroupsKept
<1>1. CASE meta' = meta
    BY <1>1, GroupsLeft
<1>2. CASE SyncTables(k) /\ meta' # meta
    <2>1. PICK new \in SUBSET DOMAIN database :
                meta' = [t \in StoredTables \cup new |-> IF t \in StoredTables THEN meta[t] ELSE Blank]
        BY <1>2 DEF SyncTables
    <2> QED
        BY <2>1 DEF GroupsKept, StoredTables, Blank
<1>3. CASE DeleteConnection(k) /\ meta' # meta
    BY <1>3 DEF DeleteConnection, GroupsKept, StoredTables, serverVars
<1>4. ASSUME reqs[k].table \in StoredTables, NEW m, m.group = meta[reqs[k].table].group,
             meta' = [meta EXCEPT ![reqs[k].table] = m]
      PROVE  GroupsKept
    BY <1>4 DEF GroupsKept, StoredTables, MetaTyped
<1>5. CASE WriteGenerated(k) /\ meta' # meta
    <2> DEFINE m == [meta[reqs[k].table] EXCEPT !.ai = k]
    <2>1. reqs[k].table \in StoredTables /\ meta' = [meta EXCEPT ![reqs[k].table] = m]
        BY <1>5 DEF WriteGenerated
    <2>2. m.group = meta[reqs[k].table].group
        BY <2>1 DEF MetaTyped
    <2> HIDE DEF m
    <2> QED
        BY <1>4, <2>1, <2>2
<1>6. CASE WriteTyped(k) /\ meta' # meta
    <2> DEFINE m == [meta[reqs[k].table] EXCEPT !.business = reqs[k].name]
    <2>1. reqs[k].table \in StoredTables /\ meta' = [meta EXCEPT ![reqs[k].table] = m]
        BY <1>6 DEF WriteTyped
    <2>2. m.group = meta[reqs[k].table].group
        BY <2>1 DEF MetaTyped
    <2> HIDE DEF m
    <2> QED
        BY <1>4, <2>1, <2>2
<1>7. CASE DeleteModule(k) /\ meta' # meta
    <2>1. meta' = [t \in StoredTables |-> IF meta[t].group = reqs[k].module
                                          THEN [meta[t] EXCEPT !.group = None] ELSE meta[t]]
        BY <1>7 DEF DeleteModule
    <2>2. \A t \in StoredTables : [meta[t] EXCEPT !.group = None].group = None
        BY DEF MetaTyped
    <2> QED
        BY <2>1, <2>2 DEF GroupsKept, StoredTables
<1> QED
    BY <1>1, <1>2, <1>3, <1>5, <1>6, <1>7
    DEF ServerStep, NotFound, TestDatabase, NoteTest, NoteSync, ReadBack, CreateModule, UpdateModule,
        AssignTableModule, ReadGroups, ReadModules, NextModule, NextTables, AllAssigned, Started, At, serverVars

\* The tables a suggestion assigns next.
Assigned(k) == reqs[k].plan[Turn(reqs[k].plan)].tables \cap reqs[k].ungrouped \cap StoredTables

LEMMA TurnInPlan ==
    ASSUME NEW k \in DOMAIN reqs, GroupFits(k), At(k, "suggest", "tables")
    PROVE  /\ Turn(reqs[k].plan) \in DOMAIN reqs[k].plan
           /\ Assigned(k) \subseteq ToAssign(k) \cap StoredTables
<1>1. DOMAIN reqs[k].plan \subseteq Nat /\ DOMAIN reqs[k].plan # {}
    BY DEF GroupFits, Grouping, At
<1>2. Turn(reqs[k].plan) \in DOMAIN reqs[k].plan
    BY <1>1, LeastIn DEF Turn
<1> QED
    BY <1>2 DEF Assigned, ToAssign, At

LEMMA TablesMoved ==
    ASSUME MetaTyped, NEW k \in DOMAIN reqs, NextTables(k)
    PROVE  StoredTables' = StoredTables /\ \A t \in StoredTables \ Assigned(k) : meta'[t] = meta[t]
BY DEF NextTables, Assigned, StoredTables

GroupsReadBy(k, b, c) == [reqs EXCEPT ![k].pc = "ai", ![k].read = b, ![k].ungrouped = c]
PlanMadeBy(k, b, c) == [reqs EXCEPT ![k].plan = b, ![k].known = c, ![k].pc = "module"]

LEMMA GroupsNowRead ==
    ASSUME ReqsTyped, NEW k \in DOMAIN reqs, NEW b, NEW c, reqs' = GroupsReadBy(k, b, c)
    PROVE  reqs'[k].pc = "ai" /\ reqs'[k].ungrouped = c
<1> DEFINE r == [reqs[k] EXCEPT !.pc = "ai", !.read = b, !.ungrouped = c]
<1>1. DOMAIN reqs[k] = Fields
    BY DEF ReqsTyped
<1>2. DOMAIN r = Fields /\ r.pc = "ai" /\ r.ungrouped = c /\ Same(r, reqs[k])
    BY <1>1 DEF Fields, Same
<1>3. reqs' = [reqs EXCEPT ![k] = r]
    BY DEF GroupsReadBy
<1> HIDE DEF r
<1>4. Advances(k) /\ reqs'[k] = r
    BY <1>2, <1>3, ReqReplaced
<1> QED
    BY <1>2, <1>4
LEMMA PlanNowMade ==
    ASSUME ReqsTyped, NEW k \in DOMAIN reqs, NEW b, NEW c, reqs' = PlanMadeBy(k, b, c)
    PROVE  reqs'[k].pc = "module" /\ reqs'[k].plan = b /\ reqs'[k].ungrouped = reqs[k].ungrouped
<1> DEFINE r == [reqs[k] EXCEPT !.plan = b, !.known = c, !.pc = "module"]
<1>1. DOMAIN reqs[k] = Fields
    BY DEF ReqsTyped
<1>2. DOMAIN r = Fields /\ r.pc = "module" /\ r.plan = b /\ r.ungrouped = reqs[k].ungrouped /\ Same(r, reqs[k])
    BY <1>1 DEF Fields, Same
<1>3. reqs' = [reqs EXCEPT ![k] = r]
    BY DEF PlanMadeBy
<1> HIDE DEF r
<1>4. Advances(k) /\ reqs'[k] = r
    BY <1>2, <1>3, ReqReplaced
<1> QED
    BY <1>2, <1>4

\* A suggestion takes its own next step.
LEMMA OwnFits ==
    ASSUME ReqsTyped, MetaTyped, NEW k \in DOMAIN reqs, GroupFits(k), ServerStep(k)
    PROVE  GroupFits(k)'
<1>1. Serves(k)
    BY Served
<1>2. /\ reqs'[k].kind = reqs[k].kind /\ reqs[k].met = reqs'[k].met
      /\ \A j \in DOMAIN reqs : reqs'[j].kind = reqs[j].kind
    BY <1>1 DEF Serves, Advances, Same
<1>3. Excused(k) => Excused(k)'
    BY <1>2, ExcusedStays
<1> SUFFICES ASSUME Grouping(k)'
             PROVE  /\ reqs'[k].pc # "ai" => DOMAIN reqs'[k].plan \subseteq Nat /\ Apart(reqs'[k].plan)
                    /\ reqs'[k].pc = "tables" => DOMAIN reqs'[k].plan # {}
                    /\ \A t \in ToAssign(k)' \cap StoredTables' : meta'[t].group = None \/ Excused(k)'
    BY DEF GroupFits
<1>4. reqs[k].kind = "suggest" /\ reqs'[k].pc \in {"ai", "module", "tables"}
    BY <1>2 DEF Grouping
<1>5. ~Fail(k) /\ ~Step(k, "sent back")
    <2>1. Fail(k) => reqs'[k].pc = "sent back"
        BY Failed
    <2>2. ASSUME NEW a, Step(k, a) PROVE reqs'[k].pc = a
        BY <2>2, Stepped
    <2> QED
        BY <1>4, <2>1, <2>2
<1>6. CASE ReadGroups(k)
    <2>1. /\ reqs' = [reqs EXCEPT ![k].pc = "ai", ![k].read = StoredTables, ![k].ungrouped = Ungrouped]
          /\ meta' = meta
        BY <1>5, <1>6 DEF ReadGroups, serverVars
    <2>2. reqs' = GroupsReadBy(k, StoredTables, Ungrouped)
        BY <2>1 DEF GroupsReadBy
    <2>3. reqs'[k].pc = "ai" /\ reqs'[k].ungrouped = Ungrouped
        BY <2>2, GroupsNowRead
    <2> QED
        BY <2>1, <2>3 DEF ToAssign, Ungrouped, StoredTables
<1>7. CASE ReadModules(k)
    <2>1. PICK replies \in Suggestions :
            LET answer == SuggestModules(replies, SetToSeq(reqs[k].read)) IN
            /\ answer # Nothing
            /\ reqs' = [reqs EXCEPT ![k].plan = answer.modules, ![k].known = mods, ![k].pc = "module"]
        BY <1>5, <1>7 DEF ReadModules
    <2> DEFINE plan == SuggestModules(replies, SetToSeq(reqs[k].read)).modules
    <2>2. DOMAIN plan \subseteq Nat /\ Apart(plan)
        BY <2>1, PlanSuggested
    <2>3. reqs' = [reqs EXCEPT ![k].plan = plan, ![k].known = mods, ![k].pc = "module"]
        BY <2>1
    <2> HIDE DEF plan
    <2>4. reqs'[k].pc = "module" /\ reqs'[k].plan = plan /\ reqs'[k].ungrouped = reqs[k].ungrouped
        <3>1. reqs' = PlanMadeBy(k, plan, mods)
            BY <2>3 DEF PlanMadeBy
        <3> QED
            BY <3>1, PlanNowMade
    <2>5. meta' = meta /\ reqs[k].pc = "ai"
        BY <1>7 DEF ReadModules, serverVars, At
    <2>6. ToAssign(k)' \subseteq ToAssign(k)
        BY <2>4, <2>5 DEF ToAssign
    <2> QED
        BY <1>3, <1>4, <2>2, <2>4, <2>5, <2>6 DEF GroupFits, Grouping, StoredTables
<1>8. CASE NextModule(k)
    <2>1. PICK m : reqs' = [reqs EXCEPT ![k].module = m.id, ![k].known = @ \cup {m}, ![k].pc = "tables"]
        BY <1>5, <1>8 DEF NextModule
    <2>2. reqs'[k].pc = "tables" /\ reqs'[k].plan = reqs[k].plan /\ reqs'[k].ungrouped = reqs[k].ungrouped
        BY <2>1, ModuleTaken
    <2>3. meta' = meta /\ reqs[k].pc = "module" /\ DOMAIN reqs[k].plan # {}
        BY <1>8 DEF NextModule, At
    <2>4. ToAssign(k)' = ToAssign(k)
        BY <2>2, <2>3 DEF ToAssign
    <2> QED
        BY <1>3, <1>4, <2>2, <2>3, <2>4 DEF GroupFits, Grouping, StoredTables
<1>9. CASE NextTables(k)
    <2> DEFINE plan == reqs[k].plan
               turn == Turn(plan)
    <2>1. reqs' = [reqs EXCEPT ![k].plan = Restrict(@, DOMAIN @ \ {Turn(@)}), ![k].pc = "module"]
        BY <1>5, <1>9 DEF NextTables
    <2>2. /\ reqs'[k].pc = "module" /\ reqs'[k].plan = Restrict(plan, DOMAIN plan \ {turn})
          /\ reqs'[k].ungrouped = reqs[k].ungrouped
        BY <2>1, PlanShortened
    <2>3. At(k, "suggest", "tables") /\ reqs[k].pc = "tables"
        BY <1>9 DEF NextTables, At
    <2>4. turn \in DOMAIN plan /\ DOMAIN plan \subseteq Nat /\ Apart(plan)
        BY <1>4, <2>3, TurnInPlan DEF GroupFits, Grouping
    <2>5. /\ DOMAIN reqs'[k].plan = DOMAIN plan \ {turn}
          /\ \A i \in DOMAIN plan \ {turn} : reqs'[k].plan[i] = plan[i]
        BY <2>2 DEF Restrict
    <2>6. Apart(reqs'[k].plan)
        BY <2>4, <2>5 DEF Apart
    <2>7. ToAssign(k)' \subseteq ToAssign(k) \ Assigned(k)
        BY <2>2, <2>3, <2>4, <2>5 DEF ToAssign, Assigned, Apart
    <2>8. StoredTables' = StoredTables /\ \A t \in StoredTables \ Assigned(k) : meta'[t] = meta[t]
        BY <1>9, TablesMoved
    <2> QED
        BY <1>3, <1>4, <2>2, <2>3, <2>4, <2>5, <2>6, <2>7, <2>8 DEF GroupFits, Grouping
<1>10. reqs[k].pc # "read back"
    BY <1>4, RequestFacts DEF StepsOf
<1>11. ReadGroups(k) \/ ReadModules(k) \/ NextModule(k) \/ NextTables(k)
    <2>1. ~NotFound(k) /\ ~AllAssigned(k) /\ ~ReadBack(k)
        BY <1>5, <1>10 DEF NotFound, AllAssigned, ReadBack
    <2>2. ~TestDatabase(k) /\ ~NoteTest(k) /\ ~SyncTables(k) /\ ~NoteSync(k) /\ ~DeleteConnection(k)
        BY <1>4 DEF TestDatabase, NoteTest, SyncTables, NoteSync, DeleteConnection, Started, At
    <2>3. ~WriteGenerated(k) /\ ~WriteTyped(k) /\ ~CreateModule(k) /\ ~UpdateModule(k)
        BY <1>4 DEF WriteGenerated, WriteTyped, CreateModule, UpdateModule, Started, At
    <2>4. ~DeleteModule(k) /\ ~AssignTableModule(k)
        BY <1>4 DEF DeleteModule, AssignTableModule, Started, At
    <2> QED
        BY <2>1, <2>2, <2>3, <2>4 DEF ServerStep
<1> QED
    BY <1>6, <1>7, <1>8, <1>9, <1>11

LEMMA GroupsStep ==
    ASSUME SettleInv, GroupsFit, ScreenNext \/ UNCHANGED screenVars
    PROVE  GroupsFit'
<1> USE DEF SettleInv
<1>1. ASSUME NEW j \in DOMAIN reqs, ServerStep(j) PROVE GroupsFit'
    <2>1. Serves(j)
        BY <1>1, Served
    <2>2. /\ DOMAIN reqs' = DOMAIN reqs /\ \A k \in DOMAIN reqs : k # j => reqs'[k] = reqs[k]
          /\ \A k \in DOMAIN reqs : reqs'[k].kind = reqs[k].kind
        BY <2>1 DEF Serves, Advances, Same
    <2>3. ASSUME NEW k \in DOMAIN reqs, k # j, Grouping(k) PROVE GroupFits(k)'
        <3>1. AsItWas(reqs'[k], reqs[k]) /\ reqs[k].met \subseteq reqs'[k].met
            BY <2>2, <2>3 DEF AsItWas
        <3>2. Open(j) /\ Open(k)
            BY <2>1, <2>3 DEF Serves, Open, Grouping
        <3>3. j \in reqs[k].met
            BY <2>2, <2>3, <3>2 DEF Overlaps
        <3>4. j # 0
            <4>1. reqs \in Seq(Range(reqs))
                BY DEF ReqsTyped
            <4> QED
                BY <4>1
        <3>5. CASE reqs[j].kind \in {"assign", "suggest"}
            <4>1. Excused(k)'
                BY <2>2, <2>3, <3>1, <3>3, <3>4, <3>5 DEF Excused
            <4> QED
                BY <2>2, <3>1, <4>1, WaitingFits DEF GroupsFit
        <3>6. CASE reqs[j].kind \notin {"assign", "suggest"}
            BY <1>1, <2>2, <3>1, <3>6, GroupsChanged, WaitingFits DEF GroupsFit
        <3> QED
            BY <3>5, <3>6
    <2>4. ASSUME NEW k \in DOMAIN reqs, k # j, ~Grouping(k) PROVE GroupFits(k)'
        BY <2>2, <2>4 DEF GroupFits, Grouping
    <2>5. GroupFits(j)'
        BY <1>1, OwnFits DEF GroupsFit
    <2> QED
        BY <2>2, <2>3, <2>4, <2>5 DEF GroupsFit
<1>2. ASSUME NEW j \in DOMAIN reqs, Answer(j) PROVE GroupsFit'
    <2>1. Advances(j) /\ reqs'[j].pc = "answered" /\ meta' = meta
        BY <1>2, Stepped DEF Answer, serverVars
    <2>2. /\ DOMAIN reqs' = DOMAIN reqs /\ \A k \in DOMAIN reqs : k # j => reqs'[k] = reqs[k]
          /\ \A k \in DOMAIN reqs : reqs'[k].kind = reqs[k].kind
        BY <2>1 DEF Advances, Same
    <2>3. ASSUME NEW k \in DOMAIN reqs, k # j PROVE GroupFits(k)'
        <3>1. AsItWas(reqs'[k], reqs[k]) /\ reqs[k].met \subseteq reqs'[k].met
            BY <2>2, <2>3 DEF AsItWas
        <3> QED
            BY <2>1, <2>2, <3>1, WaitingFits, GroupsLeft DEF GroupsFit
    <2>4. GroupFits(j)'
        BY <2>1 DEF GroupFits, Grouping
    <2> QED
        BY <2>2, <2>3, <2>4 DEF GroupsFit
<1>3. ASSUME NEW kind, Sends(kind), meta' = meta PROVE GroupsFit'
    <2>1. ASSUME NEW k \in DOMAIN reqs PROVE GroupFits(k)'
        <3>1. AsItWas(reqs'[k], reqs[k]) /\ reqs[k].met \subseteq reqs'[k].met
            BY <1>3 DEF Sends
        <3>2. \A j \in DOMAIN reqs : reqs'[j].kind = reqs[j].kind
            BY <1>3 DEF Sends, AsItWas
        <3> QED
            BY <1>3, <3>1, <3>2, WaitingFits, GroupsLeft DEF GroupsFit
    <2>2. ASSUME NEW k \in DOMAIN reqs' \ DOMAIN reqs PROVE GroupFits(k)'
        <3>1. reqs'[k].pc = "start"
            BY <1>3 DEF Sends
        <3> QED
            BY <3>1 DEF GroupFits, Grouping
    <2> QED
        BY <2>1, <2>2 DEF GroupsFit
<1>4. ASSUME UNCHANGED <<meta, reqs>> PROVE GroupsFit'
    <2>1. ASSUME NEW k \in DOMAIN reqs PROVE GroupFits(k)'
        <3>1. AsItWas(reqs'[k], reqs[k])
            BY <1>4 DEF AsItWas
        <3> QED
            BY <1>4, <3>1, WaitingFits, GroupsLeft DEF GroupsFit
    <2> QED
        BY <1>4, <2>1 DEF GroupsFit
<1>5. CASE /\ \E kind, table, module, name : Send(kind, table, module, name)
           /\ UNCHANGED <<status, meta, mods, cached, fetch>>
    <2>1. PICK kind, table, module, name : Send(kind, table, module, name)
        BY <1>5
    <2>2. Sends(kind)
        BY <2>1, Sent
    <2> QED
        BY <1>3, <1>5, <2>2
<1>6. CASE FetchRead \/ FetchArrives \/ UNCHANGED screenVars
    BY <1>4, <1>6 DEF FetchRead, FetchArrives, screenVars, serverVars
<1> QED
    BY <1>1, <1>2, <1>4, <1>5, <1>6, StepsOfDashboard

\* A suggestion moves a table from one module to another only if an
\* assignment or another suggestion overlapped it.
THEOREM SuggestionKeepsGroups == ScreenSpec => SuggestKeepsGroups
<1>1. ScreenInit => GroupsFit
    BY DEF ScreenInit, GroupsFit
<1>2. SettleInv /\ GroupsFit /\ [ScreenNext]_screenVars => GroupsFit'
    BY GroupsStep
<1>3. SettleInv /\ GroupsFit =>
        \A k \in DOMAIN reqs : NextTables(k) =>
            \A t \in StoredTables : meta[t].group \notin {None, meta'[t].group} =>
                \E j \in reqs[k].met \ {0} : reqs[j].kind \in {"assign", "suggest"}
    <2> SUFFICES ASSUME SettleInv, GroupsFit, NEW k \in DOMAIN reqs, NextTables(k),
                        NEW t \in StoredTables, meta[t].group # None, meta[t].group # meta'[t].group
                 PROVE  Excused(k)
        BY DEF Excused
    <2>1. At(k, "suggest", "tables")
        BY DEF NextTables
    <2>2. t \in ToAssign(k) \cap StoredTables
        BY <2>1, TurnInPlan, TablesMoved DEF GroupsFit, SettleInv
    <2> QED
        BY <2>1, <2>2 DEF GroupsFit, GroupFits, Grouping, At
<1> QED
    BY <1>1, <1>2, <1>3, SettleInductive, PTL DEF ScreenSpec, SuggestKeepsGroups

-----------------------------------------------------------------------------
(* The audit says the same on every engine                                 *)

Kinds == {"int", "big", "single", "double", "exact", "string", "text", "flag", "time"}
Floating == {"float", "double"}
Textual == {"varchar", "char", "text"}

LEMMA KindsNamed == DOMAIN Native("mysql") = Kinds
BY DEF Native, Kinds

\* Only flags, and on Oracle integers, are read as other types.
LEMMA PgTypes ==
    \A k \in Kinds : MapPgType(Native("postgres")[k]) = IF k = "flag" THEN "boolean" ELSE Native("mysql")[k]
<1>1. LET n == Native("postgres") IN
      /\ n["int"] = "integer" /\ n["big"] = "bigint" /\ n["single"] = "real" /\ n["double"] = "double precision"
      /\ n["exact"] = "numeric" /\ n["string"] = "character varying" /\ n["text"] = "text"
      /\ n["flag"] = "boolean" /\ n["time"] = "timestamp"
    BY DEF Native
<1>2. LET n == Native("mysql") IN
      /\ n["int"] = "int" /\ n["big"] = "bigint" /\ n["single"] = "float" /\ n["double"] = "double"
      /\ n["exact"] = "decimal" /\ n["string"] = "varchar" /\ n["text"] = "text" /\ n["time"] = "timestamp"
    BY DEF Native
<1>3. /\ MapPgType("integer") = "int" /\ MapPgType("bigint") = "bigint" /\ MapPgType("real") = "float"
      /\ MapPgType("double precision") = "double" /\ MapPgType("numeric") = "decimal"
      /\ MapPgType("character varying") = "varchar" /\ MapPgType("text") = "text"
      /\ MapPgType("boolean") = "boolean" /\ MapPgType("timestamp") = "timestamp"
    BY DEF MapPgType, Renamed
<1> QED
    BY <1>1, <1>2, <1>3 DEF Kinds
LEMMA SqlServerTypes ==
    \A k \in Kinds : MapMssqlType(Native("sqlserver")[k]) =
        IF k = "flag" THEN "boolean" ELSE IF k = "time" THEN "datetime2" ELSE Native("mysql")[k]
BY DEF Kinds, Native, MapMssqlType, Renamed
LEMMA OracleTypes ==
    \A k \in Kinds : MapOracleType(Native("oracle")[k]) =
        IF k \in {"int", "big", "flag"} THEN "decimal" ELSE Native("mysql")[k]
BY DEF Kinds, Native, MapOracleType, Renamed

\* What the rules tell apart of a type, with integers or without.
SameType(a, b, ints) ==
    /\ (a \in Floating <=> b \in Floating) /\ (a \in Textual <=> b \in Textual)
    /\ ints => (a = "int" <=> b = "int")
LEMMA TypesAlike ==
    ASSUME NEW k \in Kinds
    PROVE  /\ SameType(MapPgType(Native("postgres")[k]), Native("mysql")[k], TRUE)
           /\ SameType(MapMssqlType(Native("sqlserver")[k]), Native("mysql")[k], TRUE)
           /\ SameType(MapOracleType(Native("oracle")[k]), Native("mysql")[k], FALSE)
<1>1. /\ Native("mysql")["flag"] = "tinyint" /\ Native("mysql")["time"] = "timestamp"
      /\ Native("mysql")["int"] = "int" /\ Native("mysql")["big"] = "bigint"
    BY DEF Native
<1> QED
    BY <1>1, PgTypes, SqlServerTypes, OracleTypes DEF SameType, Floating, Textual

\* Columns, tables and schemas the rules cannot tell apart.
SameColumn(c, d, ints) ==
    /\ c.name = d.name /\ c.nullable = d.nullable /\ c.auto = d.auto /\ c.len = d.len
    /\ SameType(c.type, d.type, ints)
Covers(C, D, ints) == \A c \in C : \E d \in D : SameColumn(c, d, ints)
SameTable(t, u, ints) ==
    /\ t.view = u.view /\ t.large = u.large /\ t.pk = u.pk /\ t.fks = u.fks /\ t.indexes = u.indexes
    /\ Covers(t.columns, u.columns, ints) /\ Covers(u.columns, t.columns, ints)
Alike(m, w, ints) == DOMAIN m = DOMAIN w /\ \A n \in DOMAIN m : SameTable(m[n], w[n], ints)

\* What the statements leave true of a table that is read.
WellFormed(t) ==
    /\ DOMAIN t = {"view", "storage", "utf8mb4", "large", "columns", "pk", "key", "fks", "indexes"}
    /\ IsFiniteSet(t.columns)
    /\ \A c \in t.columns :
        DOMAIN c = {"name", "type", "len", "nullable", "auto"} /\ c.type \in DOMAIN Native("mysql")
    /\ \A i \in t.indexes : i.columns \in Seq(Range(i.columns))
    /\ t.fks \subseteq Names(t)
AllWellFormed(live) == IsFiniteSet(DOMAIN live) /\ \A n \in DOMAIN live : WellFormed(live[n])

LEMMA SchemaWellFormed ==
    ASSUME NEW live, IsSchema(live)
    PROVE  AllWellFormed(live)
<1>1. ASSUME NEW T, NEW q \in Seq(T) PROVE q \in Seq(Range(q))
    <2>1. /\ q = [k \in 1..Len(q) |-> q[k]] /\ Len(q) \in Nat /\ DOMAIN q = 1..Len(q)
          /\ \A k \in 1..Len(q) : q[k] \in Range(q)
        BY DEF Range
    <2> HIDE DEF Range
    <2> QED
        BY <2>1
<1>2. ASSUME NEW t, IsTable(t) PROVE WellFormed(t)
    BY <1>1, <1>2 DEF IsTable, WellFormed
<1> QED
    BY <1>2 DEF IsSchema, AllWellFormed

\* A table without what sets the engines apart.
Plain(t) == t.key = t.pk /\ \A i \in t.indexes : i.includes = <<>>

\* The columns of a table, read with the types T gives.
ReadAs(S, T) == {ColumnModel(c, T[c]) : c \in S}

LEMMA ColumnsAlike ==
    ASSUME NEW S, NEW T, NEW U, NEW ints, \A c \in S : SameType(T[c], U[c], ints)
    PROVE  Covers(ReadAs(S, T), ReadAs(S, U), ints) /\ Covers(ReadAs(S, U), ReadAs(S, T), ints)
<1>1. ASSUME NEW c, NEW a, NEW b, SameType(a, b, ints)
      PROVE  SameColumn(ColumnModel(c, a), ColumnModel(c, b), ints)
    BY <1>1 DEF SameColumn, ColumnModel
<1>2. \A c \in S : SameType(U[c], T[c], ints)
    BY DEF SameType
<1> QED
    BY <1>1, <1>2 DEF Covers, ReadAs

LEMMA NothingAppended ==
    ASSUME NEW T, NEW q \in Seq(T)
    PROVE  q \o <<>> = q /\ <<>> \o q = q
OBVIOUS

LEMMA PostgresAlike ==
    ASSUME NEW t, WellFormed(t), Plain(t)
    PROVE  SameTable(IntrospectPostgres(t), IntrospectMysql(t), TRUE)
<1> DEFINE T == [c \in t.columns |-> MapPgType(Native("postgres")[c.type])]
           U == [c \in t.columns |-> Native("mysql")[c.type]]
<1>1. IntrospectPostgres(t).columns = ReadAs(t.columns, T)
    BY DEF IntrospectPostgres, TableModel, ReadAs
<1>2. IntrospectMysql(t).columns = ReadAs(t.columns, U)
    BY DEF IntrospectMysql, TableModel, ReadAs
<1>3. \A c \in t.columns : SameType(T[c], U[c], TRUE)
    BY TypesAlike, KindsNamed DEF WellFormed
<1>4. IntrospectPostgres(t).indexes = IntrospectMysql(t).indexes
    <2>1. \A i \in t.indexes : i.columns \o i.includes = i.columns
        BY NothingAppended DEF WellFormed, Plain
    <2> QED
        BY <2>1 DEF IntrospectPostgres, IntrospectMysql, TableModel
<1>5. LET p == IntrospectPostgres(t) q == IntrospectMysql(t) IN
      p.view = q.view /\ p.large = q.large /\ p.pk = q.pk /\ p.fks = q.fks
    BY DEF IntrospectPostgres, IntrospectMysql, TableModel, Plain
<1> HIDE DEF T, U
<1> QED
    BY <1>1, <1>2, <1>3, <1>4, <1>5, ColumnsAlike DEF SameTable
LEMMA SqlServerAlike ==
    ASSUME NEW t, WellFormed(t), Plain(t)
    PROVE  SameTable(IntrospectSqlServer(t), IntrospectMysql(t), TRUE)
<1> DEFINE T == [c \in t.columns |-> MapMssqlType(Native("sqlserver")[c.type])]
           U == [c \in t.columns |-> Native("mysql")[c.type]]
<1>1. IntrospectSqlServer(t).columns = ReadAs(t.columns, T)
    BY DEF IntrospectSqlServer, TableModel, ReadAs
<1>2. IntrospectMysql(t).columns = ReadAs(t.columns, U)
    BY DEF IntrospectMysql, TableModel, ReadAs
<1>3. \A c \in t.columns : SameType(T[c], U[c], TRUE)
    BY TypesAlike, KindsNamed DEF WellFormed
<1>4. IntrospectSqlServer(t).indexes = IntrospectMysql(t).indexes
    <2>1. \A i \in t.indexes : i.includes \o i.columns = i.columns
        BY NothingAppended DEF WellFormed, Plain
    <2> QED
        BY <2>1 DEF IntrospectSqlServer, IntrospectMysql, TableModel
<1>5. LET p == IntrospectSqlServer(t) q == IntrospectMysql(t) IN
      p.view = q.view /\ p.large = q.large /\ p.pk = q.pk /\ p.fks = q.fks
    BY DEF IntrospectSqlServer, IntrospectMysql, TableModel, Plain
<1> HIDE DEF T, U
<1> QED
    BY <1>1, <1>2, <1>3, <1>4, <1>5, ColumnsAlike DEF SameTable
LEMMA OracleAlike ==
    ASSUME NEW t, WellFormed(t), Plain(t)
    PROVE  SameTable(IntrospectOracle(t), IntrospectMysql(t), FALSE)
<1> DEFINE T == [c \in t.columns |-> MapOracleType(Native("oracle")[c.type])]
           U == [c \in t.columns |-> Native("mysql")[c.type]]
<1>1. IntrospectOracle(t).columns = ReadAs(t.columns, T)
    BY DEF IntrospectOracle, TableModel, ReadAs
<1>2. IntrospectMysql(t).columns = ReadAs(t.columns, U)
    BY DEF IntrospectMysql, TableModel, ReadAs
<1>3. \A c \in t.columns : SameType(T[c], U[c], FALSE)
    BY TypesAlike, KindsNamed DEF WellFormed
<1>4. IntrospectOracle(t).indexes = IntrospectMysql(t).indexes
    BY DEF IntrospectOracle, IntrospectMysql, TableModel
<1>5. LET p == IntrospectOracle(t) q == IntrospectMysql(t) IN
      p.view = q.view /\ p.large = q.large /\ p.pk = q.pk /\ p.fks = q.fks
    BY DEF IntrospectOracle, IntrospectMysql, TableModel, Plain
<1> HIDE DEF T, U
<1> QED
    BY <1>1, <1>2, <1>3, <1>4, <1>5, ColumnsAlike DEF SameTable
LEMMA MysqlAlike ==
    ASSUME NEW t, NEW ints
    PROVE  SameTable(t, t, ints)
BY DEF SameTable, Covers, SameColumn, SameType

\* One schema, read on two engines.
LEMMA ModelsAlike ==
    ASSUME NEW live, AllWellFormed(live), \A n \in DOMAIN live : Plain(live[n])
    PROVE  /\ \A e \in Engines : Alike(Introspect(e, live), Introspect("mysql", live), FALSE)
           /\ \A e \in {"postgres", "sqlserver"} : Alike(Introspect(e, live), Introspect("mysql", live), TRUE)
<1>1. ASSUME NEW n \in DOMAIN live PROVE WellFormed(live[n]) /\ Plain(live[n])
    BY <1>1 DEF AllWellFormed
<1>2. /\ DOMAIN Introspect("mysql", live) = DOMAIN live
      /\ \A n \in DOMAIN live : Introspect("mysql", live)[n] = IntrospectMysql(live[n])
    BY DEF Introspect
<1>3. ASSUME NEW t, NEW u, SameTable(t, u, TRUE) PROVE SameTable(t, u, FALSE)
    BY <1>3 DEF SameTable, Covers, SameColumn, SameType
<1>4. Alike(Introspect("postgres", live), Introspect("mysql", live), TRUE)
    <2>1. /\ DOMAIN Introspect("postgres", live) = DOMAIN live
          /\ \A n \in DOMAIN live : Introspect("postgres", live)[n] = IntrospectPostgres(live[n])
        BY DEF Introspect
    <2> QED
        BY <1>1, <1>2, <2>1, PostgresAlike DEF Alike
<1>5. Alike(Introspect("sqlserver", live), Introspect("mysql", live), TRUE)
    <2>1. /\ DOMAIN Introspect("sqlserver", live) = DOMAIN live
          /\ \A n \in DOMAIN live : Introspect("sqlserver", live)[n] = IntrospectSqlServer(live[n])
        BY DEF Introspect
    <2> QED
        BY <1>1, <1>2, <2>1, SqlServerAlike DEF Alike
<1>6. Alike(Introspect("oracle", live), Introspect("mysql", live), FALSE)
    <2>1. /\ DOMAIN Introspect("oracle", live) = DOMAIN live
          /\ \A n \in DOMAIN live : Introspect("oracle", live)[n] = IntrospectOracle(live[n])
        BY DEF Introspect
    <2> QED
        BY <1>1, <1>2, <2>1, OracleAlike DEF Alike
<1>7. ASSUME NEW e \in Engines \ {"postgres", "sqlserver", "oracle"}
      PROVE  Alike(Introspect(e, live), Introspect("mysql", live), FALSE)
    <2>1. /\ DOMAIN Introspect(e, live) = DOMAIN live
          /\ \A n \in DOMAIN live : Introspect(e, live)[n] = IntrospectMysql(live[n])
        BY <1>7 DEF Introspect
    <2> QED
        BY <1>2, <2>1, MysqlAlike DEF Alike
<1>8. \A m, w : Alike(m, w, TRUE) => Alike(m, w, FALSE)
    BY <1>3 DEF Alike
<1> QED
    BY <1>4, <1>5, <1>6, <1>7, <1>8

LEMMA OtherWay ==
    ASSUME NEW m, NEW w, NEW ints, Alike(m, w, ints)
    PROVE  Alike(w, m, ints)
BY DEF Alike, SameTable

-----------------------------------------------------------------------------
(* The rules cannot tell them apart                                        *)

LEMMA PlacesAlike ==
    ASSUME NEW m, NEW w, NEW ints, Alike(m, w, ints), NEW S \in SUBSET DOMAIN m, NEW p \in Places(m, S)
    PROVE  /\ p = <<p[1], p[2]>> /\ p[1] \in S
           /\ \E q \in Places(w, S) : q = <<q[1], q[2]>> /\ q[1] = p[1] /\ SameColumn(p[2], q[2], ints)
<1>1. PICK n \in S : \E c \in m[n].columns : p = <<n, c>>
    BY DEF Places
<1>2. PICK c \in m[n].columns : p = <<n, c>>
    BY <1>1
<1>3. PICK d \in w[n].columns : SameColumn(c, d, ints)
    BY DEF Alike, SameTable, Covers
<1>4. <<n, d>> \in Places(w, S)
    BY DEF Places
<1> QED
    BY <1>2, <1>3, <1>4

LEMMA SameBases ==
    ASSUME NEW m, NEW w, NEW ints, Alike(m, w, ints)
    PROVE  BaseTables(m) = BaseTables(w) /\ BaseTables(m) \subseteq DOMAIN m
BY DEF Alike, SameTable, BaseTables

LEMMA TableRules ==
    ASSUME NEW m, NEW w, NEW ints, Alike(m, w, ints)
    PROVE  NoPk(m) = NoPk(w) /\ Naming(m) = Naming(w)
<1>1. BaseTables(m) = BaseTables(w) /\ BaseTables(m) \subseteq DOMAIN m
    BY SameBases
<1>2. NoPk(m) = NoPk(w)
    BY <1>1 DEF NoPk, Alike, SameTable
<1>3. Naming(m) = Naming(w)
    BY <1>1 DEF Naming
<1> QED
    BY <1>2, <1>3

\* A rule about places finds in w what it finds in m.
LEMMA PlaceRules ==
    ASSUME NEW m, NEW w, NEW ints, Alike(m, w, ints)
    PROVE  /\ ImplicitFk(m) \subseteq ImplicitFk(w) /\ UnindexedId(m) \subseteq UnindexedId(w)
           /\ NullableFk(m) \subseteq NullableFk(w) /\ UniqueKey(m) \subseteq UniqueKey(w)
           /\ Sensitive(m) \subseteq Sensitive(w)
<1>1. \A rule, severity, n, c, d, kind :
        c.name = d.name => ColumnFinding(rule, severity, n, c, kind) = ColumnFinding(rule, severity, n, d, kind)
    BY DEF ColumnFinding
<1>2. BaseTables(m) = BaseTables(w) /\ BaseTables(m) \in SUBSET DOMAIN m
    BY SameBases
<1>3. DOMAIN m = DOMAIN w
    BY DEF Alike
<1>4. \A n \in DOMAIN m : m[n].pk = w[n].pk /\ m[n].fks = w[n].fks /\ m[n].indexes = w[n].indexes
    BY DEF Alike, SameTable
<1>5. \A n \in DOMAIN m : \A column : IndexedFirst(m[n], column) <=> IndexedFirst(w[n], column)
    BY <1>4 DEF IndexedFirst
<1>6. ASSUME NEW S \in SUBSET DOMAIN m, NEW p \in Places(m, S)
      PROVE  p[1] \in S /\ \E q \in Places(w, S) : q[1] = p[1] /\ SameColumn(p[2], q[2], ints)
    BY <1>6, PlacesAlike
<1>7. ImplicitFk(m) \subseteq ImplicitFk(w)
    <2> SUFFICES ASSUME NEW f \in ImplicitFk(m) PROVE f \in ImplicitFk(w)
        OBVIOUS
    <2>1. PICK p \in Places(m, BaseTables(m)) :
            /\ IsRef(p[2].name) /\ p[2].name \notin m[p[1]].fks \cup m[p[1]].pk
            /\ \E ref \in Target(DOMAIN m, p[2].name) :
                f = Finding("implicit_fk", "medium", p[1], p[2].name, Fix("addForeignKey", p[1], p[2].name, ref))
        BY DEF ImplicitFk
    <2>2. PICK q \in Places(w, BaseTables(w)) : q[1] = p[1] /\ SameColumn(p[2], q[2], ints)
        BY <1>2, <1>6
    <2>3. /\ IsRef(q[2].name) /\ q[2].name \notin w[q[1]].fks \cup w[q[1]].pk
          /\ \E ref \in Target(DOMAIN w, q[2].name) :
                f = Finding("implicit_fk", "medium", q[1], q[2].name, Fix("addForeignKey", q[1], q[2].name, ref))
        BY <1>2, <1>3, <1>4, <1>6, <2>1, <2>2 DEF SameColumn
    <2> DEFINE G(x) == {Finding("implicit_fk", "medium", x[1], x[2].name,
                                Fix("addForeignKey", x[1], x[2].name, ref)) : ref \in Target(DOMAIN w, x[2].name)}
               Q == {x \in Places(w, BaseTables(w)) :
                        IsRef(x[2].name) /\ x[2].name \notin w[x[1]].fks \cup w[x[1]].pk}
    <2>4. f \in G(q) /\ q \in Q
        BY <2>3
    <2>5. ImplicitFk(w) = UNION {G(x) : x \in Q}
        BY DEF ImplicitFk
    <2> HIDE DEF G, Q
    <2> QED
        BY <2>4, <2>5
<1>8. UnindexedId(m) \subseteq UnindexedId(w)
    <2> SUFFICES ASSUME NEW f \in UnindexedId(m) PROVE f \in UnindexedId(w)
        OBVIOUS
    <2>1. PICK p \in Places(m, BaseTables(m)) :
            /\ IsRef(p[2].name) /\ p[2].name \notin m[p[1]].pk /\ ~IndexedFirst(m[p[1]], p[2].name)
            /\ f = ColumnFinding("unindexed_id", "medium", p[1], p[2], "createIndex")
        BY DEF UnindexedId
    <2>2. PICK q \in Places(w, BaseTables(w)) : q[1] = p[1] /\ SameColumn(p[2], q[2], ints)
        BY <1>2, <1>6
    <2>3. p[1] \in DOMAIN m /\ q[1] = p[1] /\ q[2].name = p[2].name
        BY <1>2, <1>6, <2>2 DEF SameColumn
    <2>4. ~IndexedFirst(w[q[1]], q[2].name)
        BY <1>5, <2>1, <2>3
    <2>5. /\ IsRef(q[2].name) /\ q[2].name \notin w[q[1]].pk
          /\ f = ColumnFinding("unindexed_id", "medium", q[1], q[2], "createIndex")
        BY <1>1, <1>4, <2>1, <2>3
    <2> QED
        BY <2>4, <2>5 DEF UnindexedId
<1>9. NullableFk(m) \subseteq NullableFk(w)
    <2> SUFFICES ASSUME NEW f \in NullableFk(m) PROVE f \in NullableFk(w)
        OBVIOUS
    <2>1. PICK p \in Places(m, DOMAIN m) :
            /\ p[2].name \in m[p[1]].fks /\ p[2].nullable
            /\ f = ColumnFinding("nullable_fk", "low", p[1], p[2], "none")
        BY DEF NullableFk
    <2>2. PICK q \in Places(w, DOMAIN w) : q[1] = p[1] /\ SameColumn(p[2], q[2], ints)
        BY <1>3, <1>6
    <2>3. /\ q[2].name \in w[q[1]].fks /\ q[2].nullable
          /\ f = ColumnFinding("nullable_fk", "low", q[1], q[2], "none")
        BY <1>1, <1>4, <1>6, <2>1, <2>2 DEF SameColumn
    <2> QED
        BY <2>3 DEF NullableFk
<1>10. UniqueKey(m) \subseteq UniqueKey(w)
    <2> SUFFICES ASSUME NEW f \in UniqueKey(m) PROVE f \in UniqueKey(w)
        OBVIOUS
    <2>1. PICK p \in Places(m, BaseTables(m)) :
            /\ "natural" \in Class[p[2].name]
            /\ ~\E i \in m[p[1]].indexes : i.unique /\ i.columns = <<p[2].name>>
            /\ f = ColumnFinding("unique_key", "low", p[1], p[2], "createUniqueIndex")
        BY DEF UniqueKey
    <2>2. PICK q \in Places(w, BaseTables(w)) : q[1] = p[1] /\ SameColumn(p[2], q[2], ints)
        BY <1>2, <1>6
    <2>3. /\ "natural" \in Class[q[2].name]
          /\ ~\E i \in w[q[1]].indexes : i.unique /\ i.columns = <<q[2].name>>
          /\ f = ColumnFinding("unique_key", "low", q[1], q[2], "createUniqueIndex")
        BY <1>1, <1>2, <1>4, <1>6, <2>1, <2>2 DEF SameColumn
    <2> QED
        BY <2>3 DEF UniqueKey
<1>11. Sensitive(m) \subseteq Sensitive(w)
    <2> SUFFICES ASSUME NEW f \in Sensitive(m) PROVE f \in Sensitive(w)
        OBVIOUS
    <2>1. PICK p \in Places(m, DOMAIN m) :
            "sensitive" \in Class[p[2].name] /\ f = ColumnFinding("sensitive", "medium", p[1], p[2], "none")
        BY DEF Sensitive
    <2>2. PICK q \in Places(w, DOMAIN w) : q[1] = p[1] /\ SameColumn(p[2], q[2], ints)
        BY <1>3, <1>6
    <2>3. "sensitive" \in Class[q[2].name] /\ f = ColumnFinding("sensitive", "medium", q[1], q[2], "none")
        BY <1>1, <2>1, <2>2 DEF SameColumn
    <2> QED
        BY <2>3 DEF Sensitive
<1> QED
    BY <1>7, <1>8, <1>9, <1>10, <1>11

\* So does one about types.
LEMMA TypeRules ==
    ASSUME NEW m, NEW w, NEW ints \in BOOLEAN, Alike(m, w, ints)
    PROVE  /\ MoneyFloat(m) \subseteq MoneyFloat(w) /\ BoolString(m) \subseteq BoolString(w)
           /\ PlaintextPw(m) \subseteq PlaintextPw(w)
           /\ ints => IntPk(m) \subseteq IntPk(w)
<1>1. \A rule, severity, n, c, d, kind :
        c.name = d.name => ColumnFinding(rule, severity, n, c, kind) = ColumnFinding(rule, severity, n, d, kind)
    BY DEF ColumnFinding
<1>2. BaseTables(m) = BaseTables(w) /\ BaseTables(m) \in SUBSET DOMAIN m
    BY SameBases
<1>3. \A n \in DOMAIN m : m[n].pk = w[n].pk /\ m[n].large = w[n].large
    BY DEF Alike, SameTable
<1>4. ASSUME NEW S \in SUBSET DOMAIN m, NEW p \in Places(m, S)
      PROVE  p[1] \in S /\ \E q \in Places(w, S) : q[1] = p[1] /\ SameColumn(p[2], q[2], ints)
    BY <1>4, PlacesAlike
<1>5. ASSUME NEW class, NEW types \in {Floating, Textual}, NEW p \in Mistyped(m, class, types)
      PROVE  \E q \in Mistyped(w, class, types) : q[1] = p[1] /\ SameColumn(p[2], q[2], ints)
    <2>1. p \in Places(m, DOMAIN m) /\ class \in Class[p[2].name] /\ p[2].type \in types
        BY <1>5 DEF Mistyped
    <2>2. PICK q \in Places(w, DOMAIN w) : q[1] = p[1] /\ SameColumn(p[2], q[2], ints)
        BY <1>4, <2>1 DEF Alike
    <2>3. class \in Class[q[2].name] /\ q[2].type \in types
        BY <1>5, <2>1, <2>2 DEF SameColumn, SameType
    <2> QED
        BY <2>2, <2>3 DEF Mistyped
<1>6. MoneyFloat(m) \subseteq MoneyFloat(w)
    <2> SUFFICES ASSUME NEW p \in Mistyped(m, "money", Floating)
                 PROVE  \E q \in Mistyped(w, "money", Floating) :
                            ColumnFinding("money_float", "medium", p[1], p[2], "setColumnDecimal")
                            = ColumnFinding("money_float", "medium", q[1], q[2], "setColumnDecimal")
        BY DEF MoneyFloat, Floating
    <2> QED
        BY <1>1, <1>5 DEF SameColumn
<1>7. BoolString(m) \subseteq BoolString(w)
    <2> SUFFICES ASSUME NEW p \in Mistyped(m, "flag", Textual)
                 PROVE  \E q \in Mistyped(w, "flag", Textual) :
                            ColumnFinding("bool_string", "low", p[1], p[2], "setColumnBoolean")
                            = ColumnFinding("bool_string", "low", q[1], q[2], "setColumnBoolean")
        BY DEF BoolString, Textual
    <2> QED
        BY <1>1, <1>5 DEF SameColumn
<1>8. PlaintextPw(m) \subseteq PlaintextPw(w)
    <2> SUFFICES ASSUME NEW p \in Mistyped(m, "password", Textual), p[2].len < 60
                 PROVE  \E q \in Mistyped(w, "password", Textual) : q[2].len < 60 /\
                            ColumnFinding("plaintext_pw", "high", p[1], p[2], "none")
                            = ColumnFinding("plaintext_pw", "high", q[1], q[2], "none")
        BY DEF PlaintextPw, Textual
    <2> QED
        BY <1>1, <1>5 DEF SameColumn
<1>9. ASSUME ints PROVE IntPk(m) \subseteq IntPk(w)
    <2> SUFFICES ASSUME NEW f \in IntPk(m) PROVE f \in IntPk(w)
        OBVIOUS
    <2>1. PICK p \in Places(m, BaseTables(m)) :
            /\ p[2].name \in m[p[1]].pk /\ p[2].auto /\ p[2].type = "int" /\ p[2].name = FirstSerial(m[p[1]])
            /\ f = ColumnFinding("int_pk", IF m[p[1]].large THEN "medium" ELSE "low", p[1], p[2], "widenPkToBigint")
        BY DEF IntPk
    <2>2. PICK q \in Places(w, BaseTables(w)) : q[1] = p[1] /\ SameColumn(p[2], q[2], ints)
        BY <1>2, <1>4
    <2>3. p[1] \in DOMAIN m
        BY <1>2, <1>4
    <2>4. /\ q[2].name \in w[q[1]].pk /\ q[2].auto /\ q[2].type = "int"
          /\ f = ColumnFinding("int_pk", IF w[q[1]].large THEN "medium" ELSE "low", q[1], q[2], "widenPkToBigint")
        BY <1>1, <1>3, <1>9, <2>1, <2>2, <2>3 DEF SameColumn, SameType
    <2>5. q[2].name = FirstSerial(w[q[1]])
        <3>1. Covers(m[p[1]].columns, w[p[1]].columns, ints) /\ Covers(w[p[1]].columns, m[p[1]].columns, ints)
            BY <2>3 DEF Alike, SameTable
        <3>2. Autos(m[p[1]]) = Autos(w[p[1]])
            BY <3>1 DEF Covers, SameColumn, Autos
        <3>3. FirstSerial(m[p[1]]) = FirstSerial(w[p[1]])
            BY <1>3, <2>3, <3>2 DEF FirstSerial
        <3> QED
            BY <2>1, <2>2, <3>3 DEF SameColumn
    <2> QED
        BY <2>4, <2>5 DEF IntPk
<1> QED
    BY <1>6, <1>7, <1>8, <1>9

LEMMA TimestampRule ==
    ASSUME NEW m, NEW w, NEW ints, Alike(m, w, ints)
    PROVE  NoTimestamps(m) = NoTimestamps(w)
<1>1. BaseTables(m) = BaseTables(w) /\ BaseTables(m) \subseteq DOMAIN m
    BY SameBases
<1>2. ASSUME NEW n \in DOMAIN m
      PROVE  {Lower[c.name] : c \in m[n].columns} = {Lower[c.name] : c \in w[n].columns}
    <2>1. Covers(m[n].columns, w[n].columns, ints) /\ Covers(w[n].columns, m[n].columns, ints)
        BY DEF Alike, SameTable
    <2> QED
        BY <2>1 DEF Covers, SameColumn
<1> QED
    BY <1>1, <1>2 DEF NoTimestamps

\* Each rule puts its name on its findings, and offers statements there are.
FixKinds == {"addIdPk", "addForeignKey", "createIndex", "createUniqueIndex", "addTimestamps",
             "setColumnDecimal", "setColumnBoolean", "widenPkToBigint", "useInnoDB", "useUtf8mb4"}
Offers(f, rule) == f.rule = rule /\ (f.fix # NoFix => f.fix.kind \in FixKinds)

LEMMA FindingOffers ==
    ASSUME NEW rule, NEW severity, NEW n, NEW kind \in FixKinds \cup {"none"}
    PROVE  /\ Offers(TableFinding(rule, severity, n, kind), rule)
           /\ \A c : Offers(ColumnFinding(rule, severity, n, c, kind), rule)
           /\ \A c, ref : Offers(Finding(rule, severity, n, c, Fix("addForeignKey", n, c, ref)), rule)
<1>1. ASSUME NEW fix, fix # NoFix => fix.kind \in FixKinds, NEW c
      PROVE  Offers(Finding(rule, severity, n, c, fix), rule)
    BY <1>1 DEF Finding, Offers
<1>2. \A k, c, ref : Fix(k, n, c, ref).kind = k
    BY DEF Fix
<1>3. "addForeignKey" \in FixKinds
    BY DEF FixKinds
<1> QED
    BY <1>1, <1>2, <1>3 DEF TableFinding, ColumnFinding

LEMMA RulesOffer ==
    ASSUME NEW m
    PROVE  /\ \A f \in NoPk(m) : Offers(f, "no_pk")
           /\ \A f \in ImplicitFk(m) : Offers(f, "implicit_fk")
           /\ \A f \in UnindexedId(m) : Offers(f, "unindexed_id")
           /\ \A f \in NullableFk(m) : Offers(f, "nullable_fk")
           /\ \A f \in NoTimestamps(m) : Offers(f, "no_timestamps")
           /\ \A f \in MoneyFloat(m) : Offers(f, "money_float")
           /\ \A f \in BoolString(m) : Offers(f, "bool_string")
           /\ \A f \in Naming(m) : Offers(f, "naming")
           /\ \A f \in StorageEngine(m) : Offers(f, "engine")
           /\ \A f \in Charset(m) : Offers(f, "charset")
           /\ \A f \in IntPk(m) : Offers(f, "int_pk")
           /\ \A f \in PlaintextPw(m) : Offers(f, "plaintext_pw")
           /\ \A f \in Sensitive(m) : Offers(f, "sensitive")
           /\ \A f \in UniqueKey(m) : Offers(f, "unique_key")
<1>1. FixKinds = {"addIdPk", "addForeignKey", "createIndex", "createUniqueIndex", "addTimestamps",
                  "setColumnDecimal", "setColumnBoolean", "widenPkToBigint", "useInnoDB", "useUtf8mb4"}
    BY DEF FixKinds
<1>2. \A f \in NoPk(m) : Offers(f, "no_pk")
    BY <1>1, FindingOffers DEF NoPk
<1>3. \A f \in ImplicitFk(m) : Offers(f, "implicit_fk")
    <2> SUFFICES ASSUME NEW f \in ImplicitFk(m) PROVE Offers(f, "implicit_fk")
        OBVIOUS
    <2>1. \E p, ref : f = Finding("implicit_fk", "medium", p[1], p[2].name, Fix("addForeignKey", p[1], p[2].name, ref))
        BY DEF ImplicitFk
    <2> QED
        BY <2>1, FindingOffers
<1>4. \A f \in UnindexedId(m) : Offers(f, "unindexed_id")
    BY <1>1, FindingOffers DEF UnindexedId
<1>5. \A f \in NullableFk(m) : Offers(f, "nullable_fk")
    BY <1>1, FindingOffers DEF NullableFk
<1>6. \A f \in NoTimestamps(m) : Offers(f, "no_timestamps")
    BY <1>1, FindingOffers DEF NoTimestamps
<1>7. \A f \in MoneyFloat(m) : Offers(f, "money_float")
    BY <1>1, FindingOffers DEF MoneyFloat
<1>8. \A f \in BoolString(m) : Offers(f, "bool_string")
    BY <1>1, FindingOffers DEF BoolString
<1>9. \A f \in Naming(m) : Offers(f, "naming")
    BY <1>1, FindingOffers DEF Naming
<1>10. \A f \in StorageEngine(m) : Offers(f, "engine")
    BY <1>1, FindingOffers DEF StorageEngine
<1>11. \A f \in Charset(m) : Offers(f, "charset")
    BY <1>1, FindingOffers DEF Charset
<1>12. \A f \in IntPk(m) : Offers(f, "int_pk")
    BY <1>1, FindingOffers DEF IntPk
<1>13. \A f \in PlaintextPw(m) : Offers(f, "plaintext_pw")
    BY <1>1, FindingOffers DEF PlaintextPw
<1>14. \A f \in Sensitive(m) : Offers(f, "sensitive")
    BY <1>1, FindingOffers DEF Sensitive
<1>15. \A f \in UniqueKey(m) : Offers(f, "unique_key")
    BY <1>1, FindingOffers DEF UniqueKey
<1> QED
    BY <1>2, <1>3, <1>4, <1>5, <1>6, <1>7, <1>8, <1>9, <1>10, <1>11, <1>12, <1>13, <1>14, <1>15

\* The findings that are compared.
LEMMA FindingsAlike ==
    ASSUME NEW m, NEW w, NEW ints \in BOOLEAN, Alike(m, w, ints)
    PROVE  /\ Portable(Findings(m)) = Portable(Findings(w))
           /\ ints => {f \in Findings(m) : f.rule = "int_pk"} = {f \in Findings(w) : f.rule = "int_pk"}
<1> DEFINE Common(n) ==
        NoPk(n) \cup ImplicitFk(n) \cup UnindexedId(n) \cup NullableFk(n) \cup NoTimestamps(n)
        \cup MoneyFloat(n) \cup BoolString(n) \cup Naming(n) \cup PlaintextPw(n) \cup Sensitive(n) \cup UniqueKey(n)
<1>1. ASSUME NEW n
      PROVE  Portable(Findings(n)) = Common(n) /\ {f \in Findings(n) : f.rule = "int_pk"} = IntPk(n)
    <2>1. Findings(n) = Common(n) \cup StorageEngine(n) \cup Charset(n) \cup IntPk(n)
        BY DEF Findings
    <2>2. \A f \in Common(n) : f.rule \notin {"engine", "charset", "int_pk"}
        BY RulesOffer DEF Offers
    <2>3. /\ \A f \in StorageEngine(n) \cup Charset(n) : f.rule \in {"engine", "charset"}
          /\ \A f \in IntPk(n) : f.rule = "int_pk"
        BY RulesOffer DEF Offers
    <2> HIDE DEF Common
    <2> QED
        BY <2>1, <2>2, <2>3 DEF Portable
<1>2. Alike(w, m, ints)
    BY OtherWay
<1>3. Common(m) = Common(w)
    <2>1. NoPk(m) = NoPk(w) /\ Naming(m) = Naming(w) /\ NoTimestamps(m) = NoTimestamps(w)
        BY TableRules, TimestampRule
    <2>2. /\ ImplicitFk(m) = ImplicitFk(w) /\ UnindexedId(m) = UnindexedId(w) /\ NullableFk(m) = NullableFk(w)
          /\ UniqueKey(m) = UniqueKey(w) /\ Sensitive(m) = Sensitive(w)
        <3>1. /\ ImplicitFk(m) \subseteq ImplicitFk(w) /\ UnindexedId(m) \subseteq UnindexedId(w)
              /\ NullableFk(m) \subseteq NullableFk(w) /\ UniqueKey(m) \subseteq UniqueKey(w)
              /\ Sensitive(m) \subseteq Sensitive(w)
            BY PlaceRules
        <3>2. /\ ImplicitFk(w) \subseteq ImplicitFk(m) /\ UnindexedId(w) \subseteq UnindexedId(m)
              /\ NullableFk(w) \subseteq NullableFk(m) /\ UniqueKey(w) \subseteq UniqueKey(m)
              /\ Sensitive(w) \subseteq Sensitive(m)
            BY <1>2, PlaceRules
        <3> QED
            BY <3>1, <3>2
    <2>3. MoneyFloat(m) = MoneyFloat(w) /\ BoolString(m) = BoolString(w) /\ PlaintextPw(m) = PlaintextPw(w)
        <3>1. /\ MoneyFloat(m) \subseteq MoneyFloat(w) /\ BoolString(m) \subseteq BoolString(w)
              /\ PlaintextPw(m) \subseteq PlaintextPw(w)
            BY TypeRules
        <3>2. /\ MoneyFloat(w) \subseteq MoneyFloat(m) /\ BoolString(w) \subseteq BoolString(m)
              /\ PlaintextPw(w) \subseteq PlaintextPw(m)
            BY <1>2, TypeRules
        <3> QED
            BY <3>1, <3>2
    <2> QED
        BY <2>1, <2>2, <2>3
<1>4. ints => IntPk(m) = IntPk(w)
    <2>1. ints => IntPk(m) \subseteq IntPk(w)
        BY TypeRules
    <2>2. ints => IntPk(w) \subseteq IntPk(m)
        BY <1>2, TypeRules
    <2> QED
        BY <2>1, <2>2
<1> HIDE DEF Common
<1> QED
    BY <1>1, <1>3, <1>4

-----------------------------------------------------------------------------
(* The database stays readable                                             *)

\* The values of a function on a finite set.
LEMMA Imaged ==
    ASSUME NEW S, IsFiniteSet(S), NEW f, f = [x \in S |-> f[x]]
    PROVE  IsFiniteSet({f[x] : x \in S})
<1> DEFINE T == {f[x] : x \in S}
<1>1. f \in Surjection(S, T)
    BY DEF Surjection
<1> QED
    BY <1>1, FS_Surjection

IsNewColumn(c) == DOMAIN c = {"name", "type", "len", "nullable", "auto"} /\ c.type \in DOMAIN Native("mysql")

LEMMA NewColumnFacts ==
    ASSUME NEW name, NEW type, NEW auto
    PROVE  /\ NewColumn(name, type, auto).name = name /\ NewColumn(name, type, auto).type = type
           /\ NewColumn(name, type, auto).nullable = ~auto /\ NewColumn(name, type, auto).auto = auto
           /\ type \in DOMAIN Native("mysql") => IsNewColumn(NewColumn(name, type, auto))
<1>1. /\ DOMAIN NewColumn(name, type, auto) = {"name", "type", "len", "nullable", "auto"}
      /\ NewColumn(name, type, auto).name = name /\ NewColumn(name, type, auto).type = type
      /\ NewColumn(name, type, auto).nullable = ~auto /\ NewColumn(name, type, auto).auto = auto
    BY DEF NewColumn
<1> QED
    BY <1>1 DEF IsNewColumn

LEMMA NewIndexFacts ==
    ASSUME NEW column, NEW unique
    PROVE  /\ NewIndex(column, unique).columns = <<column>> /\ NewIndex(column, unique).includes = <<>>
           /\ NewIndex(column, unique).unique = unique
           /\ \A i \in {NewIndex(column, unique)} : i.columns \in Seq(Range(i.columns))
<1>1. /\ NewIndex(column, unique).columns = <<column>> /\ NewIndex(column, unique).includes = <<>>
      /\ NewIndex(column, unique).unique = unique
    BY DEF NewIndex
<1>2. <<column>> \in Seq({column}) /\ Range(<<column>>) = {column}
    BY DEF Range
<1>3. <<column>> \in Seq(Range(<<column>>))
    BY <1>2
<1> QED
    BY <1>1, <1>3

\* The columns after one of them was given another type.
NewType(e, t, c, column, type) == IF c.name = column THEN Altered(e, t, c, type) ELSE c

LEMMA NewTypeFacts ==
    ASSUME NEW e, NEW t, NEW c, DOMAIN c = {"name", "type", "len", "nullable", "auto"}, NEW column, NEW type
    PROVE  LET d == NewType(e, t, c, column, type)
           IN /\ DOMAIN d = {"name", "type", "len", "nullable", "auto"}
              /\ d.name = c.name
              /\ d.type = IF c.name = column THEN type ELSE c.type
              /\ c.name # column => d = c
              /\ c.name = column =>
                    d.nullable = NullLeft(e, t, c, type) /\ d.auto = AutoLeft(e, c, type)
BY DEF NewType, Altered

IsRetyped(e, t, u, column, type) ==
    /\ WellFormed(u) /\ Names(u) = Names(t)
    /\ u.columns = {NewType(e, t, c, column, type) : c \in t.columns}
    /\ \A field \in DOMAIN t \ {"columns", "key"} : u[field] = t[field]

LEMMA RetypedFacts ==
    ASSUME NEW e, NEW t, WellFormed(t), NEW column, NEW type \in DOMAIN Native("mysql"), NEW key
    PROVE  IsRetyped(e, t, [Retyped(e, t, column, type) EXCEPT !.key = key], column, type)
<1> DEFINE columns == {NewType(e, t, c, column, type) : c \in t.columns}
           u == [[t EXCEPT !.columns = columns] EXCEPT !.key = key]
<1>1. [Retyped(e, t, column, type) EXCEPT !.key = key] = u
    BY DEF Retyped, NewType
<1>2. /\ \A c \in t.columns :
            DOMAIN c = {"name", "type", "len", "nullable", "auto"} /\ c.type \in DOMAIN Native("mysql")
      /\ DOMAIN t = {"view", "storage", "utf8mb4", "large", "columns", "pk", "key", "fks", "indexes"}
      /\ IsFiniteSet(t.columns) /\ t.fks \subseteq Names(t)
      /\ \A i \in t.indexes : i.columns \in Seq(Range(i.columns))
    BY DEF WellFormed
<1>3. IsFiniteSet(columns)
    <2> DEFINE f == [c \in t.columns |-> NewType(e, t, c, column, type)]
    <2>1. columns = {f[c] : c \in t.columns} /\ f = [c \in t.columns |-> f[c]]
        OBVIOUS
    <2> HIDE DEF f, columns
    <2> QED
        BY <1>2, <2>1, Imaged
<1>4. \A d \in columns :
        DOMAIN d = {"name", "type", "len", "nullable", "auto"} /\ d.type \in DOMAIN Native("mysql")
    BY <1>2, NewTypeFacts
<1>5. {d.name : d \in columns} = {c.name : c \in t.columns}
    BY <1>2, NewTypeFacts
<1> HIDE DEF columns
<1>6. DOMAIN u = DOMAIN t /\ u.columns = columns /\ \A field \in DOMAIN t \ {"columns", "key"} : u[field] = t[field]
    BY <1>2
<1> HIDE DEF u
<1>7. Names(u) = Names(t)
    BY <1>5, <1>6 DEF Names
<1>8. WellFormed(u)
    BY <1>2, <1>3, <1>4, <1>6, <1>7 DEF WellFormed
<1>9. IsRetyped(e, t, u, column, type)
    BY <1>6, <1>7, <1>8 DEF columns, IsRetyped
<1> QED
    BY <1>1, <1>9, Zenon

\* A table with more columns and indexes is well-formed.
Grows(t, u) == WellFormed(u) /\ Names(t) \subseteq Names(u)
LEMMA Grown ==
    ASSUME NEW t, WellFormed(t), NEW u, DOMAIN u = DOMAIN t,
           NEW N, IsFiniteSet(N), \A c \in N : IsNewColumn(c), u.columns = t.columns \cup N,
           NEW I, \A i \in I : i.columns \in Seq(Range(i.columns)), u.indexes \subseteq t.indexes \cup I,
           u.fks \subseteq Names(t)
    PROVE  Grows(t, u)
<1>1. Names(t) \subseteq Names(u)
    BY DEF Names
<1>2. IsFiniteSet(u.columns)
    <2>1. IsFiniteSet(t.columns)
        BY DEF WellFormed
    <2> QED
        BY <2>1, FS_Union
<1> QED
    BY <1>1, <1>2 DEF WellFormed, IsNewColumn, Grows

\* What each statement does to a table, field by field.
Keeps(t, u, fields) == DOMAIN u = DOMAIN t /\ \A field \in DOMAIN t \ fields : u[field] = t[field]

WithKey(t, u) ==
    /\ Keeps(t, u, {"columns", "pk", "key", "indexes"})
    /\ u.columns = t.columns \cup {NewColumn("id", "big", TRUE)} /\ u.pk = {"id"} /\ u.key = {"id"}
    /\ u.indexes = t.indexes \cup {NewIndex("id", TRUE)}

LEMMA KeyAdded ==
    ASSUME NEW t, WellFormed(t), NEW engine, NEW fix, fix.kind = "addIdPk"
    PROVE  LET u == Changed(engine, t, fix)
           IN Grows(t, u) /\ WithKey(t, u)
<1> DEFINE N == {NewColumn("id", "big", TRUE)}
           I == {NewIndex("id", TRUE)}
           u == [t EXCEPT !.columns = t.columns \cup N, !.pk = {"id"}, !.key = {"id"}, !.indexes = t.indexes \cup I]
<1>0. DOMAIN t = {"view", "storage", "utf8mb4", "large", "columns", "pk", "key", "fks", "indexes"}
    BY DEF WellFormed
<1>1. Changed(engine, t, fix) = u
    BY DEF Changed
<1>2. IsFiniteSet(N) /\ \A c \in N : IsNewColumn(c)
    <2>1. "big" \in DOMAIN Native("mysql")
        BY KindsNamed DEF Kinds
    <2>2. IsNewColumn(NewColumn("id", "big", TRUE))
        BY <2>1, NewColumnFacts
    <2> QED
        BY <2>2, FS_Singleton
<1>3. \A i \in I : i.columns \in Seq(Range(i.columns))
    BY NewIndexFacts
<1> HIDE DEF N, I
<1>4. /\ Keeps(t, u, {"columns", "pk", "key", "indexes"})
      /\ u.columns = t.columns \cup N /\ u.pk = {"id"} /\ u.key = {"id"} /\ u.indexes = t.indexes \cup I
    BY <1>0 DEF Keeps
<1> HIDE DEF u
<1>5. u.fks \subseteq Names(t) /\ DOMAIN u = DOMAIN t
    BY <1>4 DEF Keeps, WellFormed
<1>6. Grows(t, u)
    BY <1>2, <1>3, <1>4, <1>5, Grown
<1> QED
    BY <1>1, <1>4, <1>6 DEF N, I, WithKey

WithForeignKey(engine, t, u, column) ==
    /\ Keeps(t, u, {"fks", "indexes"})
    /\ u.fks = IF MysqlFamily(engine) /\ t.storage # "InnoDB" THEN t.fks ELSE t.fks \cup {column}
    /\ t.indexes \subseteq u.indexes

LEMMA ForeignKeyAdded ==
    ASSUME NEW t, WellFormed(t), NEW engine, NEW fix, fix.kind = "addForeignKey", fix.column \in Names(t)
    PROVE  LET u == Changed(engine, t, fix)
           IN Grows(t, u) /\ WithForeignKey(engine, t, u, fix.column)
<1> DEFINE I == IF MysqlFamily(engine) THEN {NewIndex(fix.column, FALSE)} ELSE {}
           fks == IF MysqlFamily(engine) /\ t.storage # "InnoDB" THEN t.fks ELSE t.fks \cup {fix.column}
           u == [t EXCEPT !.fks = fks, !.indexes = t.indexes \cup I]
<1>0. DOMAIN t = {"view", "storage", "utf8mb4", "large", "columns", "pk", "key", "fks", "indexes"}
    BY DEF WellFormed
<1>1. Changed(engine, t, fix) = u
    <2>1. (IF MysqlFamily(engine) THEN t.indexes \cup {NewIndex(fix.column, FALSE)} ELSE t.indexes) = t.indexes \cup I
        OBVIOUS
    <2> QED
        BY <2>1 DEF Changed
<1>2. \A i \in I : i.columns \in Seq(Range(i.columns))
    BY NewIndexFacts
<1>3. fks \subseteq Names(t)
    BY DEF WellFormed
<1> HIDE DEF I, fks
<1>4. Keeps(t, u, {"fks", "indexes"}) /\ u.fks = fks /\ u.indexes = t.indexes \cup I
    BY <1>0 DEF Keeps
<1> HIDE DEF u
<1>5. DOMAIN u = DOMAIN t /\ u.columns = t.columns \cup {}
    BY <1>4 DEF Keeps, WellFormed
<1>6. Grows(t, u)
    BY <1>2, <1>3, <1>4, <1>5, Grown, FS_EmptySet
<1> QED
    BY <1>1, <1>4, <1>6 DEF fks, WithForeignKey

WithIndex(t, u, column, unique) ==
    /\ Keeps(t, u, {"indexes", "key"})
    /\ u.indexes = t.indexes \cup {NewIndex(column, unique)}
    /\ u.key = IF unique /\ t.key = {} /\ column \notin Nullable(t) THEN {column} ELSE t.key

LEMMA IndexAdded ==
    ASSUME NEW t, WellFormed(t), NEW engine, NEW fix, fix.kind \in {"createIndex", "createUniqueIndex"}
    PROVE  LET u == Changed(engine, t, fix)
               unique == fix.kind = "createUniqueIndex"
           IN Grows(t, u) /\ WithIndex(t, u, fix.column, unique)
<1> DEFINE unique == fix.kind = "createUniqueIndex"
           I == {NewIndex(fix.column, unique)}
           key == IF unique /\ t.key = {} /\ fix.column \notin Nullable(t) THEN {fix.column} ELSE t.key
           u == Changed(engine, t, fix)
<1>0. DOMAIN t = {"view", "storage", "utf8mb4", "large", "columns", "pk", "key", "fks", "indexes"}
    BY DEF WellFormed
<1>1. \A i \in I : i.columns \in Seq(Range(i.columns))
    BY NewIndexFacts
<1>2. u = [t EXCEPT !.indexes = t.indexes \cup I, !.key = key] \/ (~unique /\ u = [t EXCEPT !.indexes = t.indexes \cup I])
    <2>1. CASE unique
        BY <2>1 DEF Changed
    <2>2. CASE ~unique
        BY <2>2 DEF Changed
    <2> QED
        BY <2>1, <2>2
<1>3. ~unique => key = t.key
    OBVIOUS
<1> HIDE DEF unique, I, key, u
<1>5. Keeps(t, u, {"indexes", "key"}) /\ u.indexes = t.indexes \cup I /\ u.key = key
    BY <1>0, <1>2, <1>3 DEF Keeps
<1>6. DOMAIN u = DOMAIN t /\ u.columns = t.columns \cup {} /\ u.fks = t.fks
    BY <1>5 DEF Keeps, WellFormed
<1>7. Grows(t, u)
    <2>1. u.fks \subseteq Names(t) /\ u.indexes \subseteq t.indexes \cup I
        BY <1>5, <1>6 DEF WellFormed
    <2> QED
        BY <1>1, <1>6, <2>1, Grown, FS_EmptySet
<1> QED
    BY <1>5, <1>7 DEF u, unique, I, key, WithIndex

WithTimestamps(t, u) ==
    /\ Keeps(t, u, {"columns"})
    /\ u.columns = t.columns \cup {NewColumn(n, "time", FALSE) : n \in {"created_at", "updated_at"}}

LEMMA TimestampsAdded ==
    ASSUME NEW t, WellFormed(t), NEW engine, NEW fix, fix.kind = "addTimestamps"
    PROVE  LET u == Changed(engine, t, fix)
           IN Grows(t, u) /\ WithTimestamps(t, u)
<1>0. DOMAIN t = {"view", "storage", "utf8mb4", "large", "columns", "pk", "key", "fks", "indexes"}
    BY DEF WellFormed
<1> DEFINE N == {NewColumn(n, "time", FALSE) : n \in {"created_at", "updated_at"}}
           u == [t EXCEPT !.columns = t.columns \cup N]
<1>1. Changed(engine, t, fix) = u
    BY DEF Changed
<1>2. IsFiniteSet(N)
    <2>1. N = {NewColumn("created_at", "time", FALSE)} \cup {NewColumn("updated_at", "time", FALSE)}
        OBVIOUS
    <2>2. \A x : IsFiniteSet({x})
        BY FS_Singleton
    <2> HIDE DEF N
    <2> QED
        BY <2>1, <2>2, FS_Union
<1>3. \A c \in N : IsNewColumn(c)
    <2>1. "time" \in DOMAIN Native("mysql")
        BY KindsNamed DEF Kinds
    <2>2. \A n : IsNewColumn(NewColumn(n, "time", FALSE))
        BY <2>1, NewColumnFacts
    <2> QED
        BY <2>2
<1> HIDE DEF N
<1>4. Keeps(t, u, {"columns"}) /\ u.columns = t.columns \cup N
    BY <1>0 DEF Keeps
<1> HIDE DEF u
<1>5. DOMAIN u = DOMAIN t /\ u.fks \subseteq Names(t) /\ u.indexes = t.indexes
    BY <1>4 DEF Keeps, WellFormed
<1>6. Grows(t, u)
    <2> DEFINE I == {}
    <2>1. (\A i \in I : i.columns \in Seq(Range(i.columns))) /\ u.indexes \subseteq t.indexes \cup I
        BY <1>5
    <2> HIDE DEF I
    <2> QED
        BY <1>2, <1>3, <1>4, <1>5, <2>1, Grown
<1> QED
    BY <1>1, <1>4, <1>6 DEF N, WithTimestamps

WithOption(t, u, kind) ==
    IF kind = "useInnoDB" THEN Keeps(t, u, {"storage"}) /\ u.storage = "InnoDB"
    ELSE Keeps(t, u, {"utf8mb4"}) /\ u.utf8mb4 = TRUE

LEMMA OptionChanged ==
    ASSUME NEW t, WellFormed(t), NEW engine, NEW fix, fix.kind \in {"useInnoDB", "useUtf8mb4"}
    PROVE  LET u == Changed(engine, t, fix)
           IN Grows(t, u) /\ WithOption(t, u, fix.kind)
<1>0. DOMAIN t = {"view", "storage", "utf8mb4", "large", "columns", "pk", "key", "fks", "indexes"}
    BY DEF WellFormed
<1> DEFINE u == Changed(engine, t, fix)
<1>1. /\ fix.kind = "useInnoDB" => u = [t EXCEPT !.storage = "InnoDB"]
      /\ fix.kind = "useUtf8mb4" => u = [t EXCEPT !.utf8mb4 = TRUE]
    BY DEF Changed
<1> HIDE DEF u
<1>2. /\ fix.kind = "useInnoDB" => Keeps(t, u, {"storage"}) /\ u.storage = "InnoDB"
      /\ fix.kind = "useUtf8mb4" => Keeps(t, u, {"utf8mb4"}) /\ u.utf8mb4 = TRUE
    BY <1>0, <1>1 DEF Keeps
<1>3. DOMAIN u = DOMAIN t /\ u.columns = t.columns /\ u.fks = t.fks /\ u.indexes = t.indexes
    BY <1>0, <1>2 DEF Keeps
<1>4. Names(u) = Names(t)
    BY <1>3 DEF Names
<1>5. Grows(t, u)
    BY <1>3, <1>4 DEF WellFormed, Grows
<1> QED
    BY <1>2, <1>5 DEF u, WithOption

TypeGiven(kind) == IF kind = "setColumnDecimal" THEN "exact" ELSE IF kind = "setColumnBoolean" THEN "flag" ELSE "big"

LEMMA TypeChanged ==
    ASSUME NEW t, WellFormed(t), NEW engine, NEW fix, fix.kind \in Retypes, NEW u \in Outcomes(engine, t, fix)
    PROVE  /\ Grows(t, u)
           /\ Keeps(t, u, {"columns", "key"})
           /\ u.columns = {NewType(engine, t, c, fix.column, TypeGiven(fix.kind)) : c \in t.columns}
<1> DEFINE type == TypeGiven(fix.kind)
<1>1. Changed(engine, t, fix) = Retyped(engine, t, fix.column, type)
    BY DEF Changed, TypeGiven, Retypes
<1>2. type \in DOMAIN Native("mysql")
    BY KindsNamed DEF Kinds, TypeGiven
<1> HIDE DEF type
<1>5. PICK key : u = [Retyped(engine, t, fix.column, type) EXCEPT !.key = key]
    BY <1>1 DEF Outcomes
<1>3. IsRetyped(engine, t, u, fix.column, type)
    BY <1>2, <1>5, RetypedFacts
<1>4. DOMAIN u = DOMAIN t
    BY <1>3 DEF IsRetyped, WellFormed
<1> QED
    BY <1>3, <1>4 DEF type, Keeps, Grows, IsRetyped

\* A foreign key is offered for a column of the table.
Suits(fix, t) == fix.kind \in FixKinds /\ (fix.kind = "addForeignKey" => fix.column \in Names(t))

LEMMA OneOutcome ==
    ASSUME NEW t, NEW engine, NEW fix, fix.kind \notin Retypes, NEW u \in Outcomes(engine, t, fix)
    PROVE  u = Changed(engine, t, fix)
BY DEF Outcomes

LEMMA ChangedTable ==
    ASSUME NEW t, WellFormed(t), NEW engine, NEW fix, Suits(fix, t), NEW u \in Outcomes(engine, t, fix)
    PROVE  Grows(t, u)
<1>0. fix.kind \notin Retypes => u = Changed(engine, t, fix)
    BY OneOutcome
<1>1. CASE fix.kind = "addIdPk"
    BY <1>0, <1>1, KeyAdded DEF Retypes
<1>2. CASE fix.kind = "addForeignKey"
    BY <1>0, <1>2, ForeignKeyAdded DEF Suits, Retypes
<1>3. CASE fix.kind \in {"createIndex", "createUniqueIndex"}
    BY <1>0, <1>3, IndexAdded DEF Retypes
<1>4. CASE fix.kind = "addTimestamps"
    BY <1>0, <1>4, TimestampsAdded DEF Retypes
<1>5. CASE fix.kind \in {"useInnoDB", "useUtf8mb4"}
    BY <1>0, <1>5, OptionChanged DEF Retypes
<1>6. CASE fix.kind \in Retypes
    BY <1>6, TypeChanged
<1> QED
    BY <1>1, <1>2, <1>3, <1>4, <1>5, <1>6 DEF FixKinds, Suits, Retypes

LEMMA FixRun ==
    ASSUME NEW live, AllWellFormed(live), NEW engine, NEW fix, fix.table \in DOMAIN live => Suits(fix, live[fix.table]),
           NEW new \in RunFix(engine, live, fix)
    PROVE  /\ AllWellFormed(new) /\ DOMAIN new = DOMAIN live
           /\ \E u \in Outcomes(engine, live[fix.table], fix) :
                \A n \in DOMAIN live : new[n] = IF n = fix.table THEN u ELSE live[n]
           /\ \A n \in DOMAIN live : Names(live[n]) \subseteq Names(new[n])
<1>0. PICK u \in Outcomes(engine, live[fix.table], fix) : new = [live EXCEPT ![fix.table] = u]
    BY DEF RunFix
<1>1. /\ DOMAIN new = DOMAIN live
      /\ \A n \in DOMAIN live : new[n] = IF n = fix.table THEN u ELSE live[n]
    BY <1>0
<1>2. IsFiniteSet(DOMAIN live) /\ \A n \in DOMAIN live : WellFormed(live[n])
    BY DEF AllWellFormed
<1>3. ASSUME NEW n \in DOMAIN live PROVE WellFormed(new[n]) /\ Names(live[n]) \subseteq Names(new[n])
    BY <1>1, <1>2, ChangedTable DEF Grows
<1>4. AllWellFormed(new)
    BY <1>1, <1>2, <1>3 DEF AllWellFormed
<1> QED
    BY <1>1, <1>3, <1>4

-----------------------------------------------------------------------------
(* A schema that has become better                                         *)

\* Types no rule finds fault with.
Inert == {"decimal", "tinyint", "boolean", "bigint"}

\* No reference may be NULL that might not be.
NoLooser(C, D, fks) == \A d \in D : d.nullable /\ d.name \in fks => \E c \in C : c.name = d.name /\ c.nullable

\* A column as it was but for what its statement changes, and one no rule
\* finds fault with.
Kin(c, d) ==
    /\ d.name = c.name
    /\ (d.type = c.type /\ d.len = c.len /\ d.auto = c.auto) \/ d.type \in Inert
Harmless(d, u) ==
    /\ ~IsRef(d.name) /\ Class[d.name] \cap {"money", "flag", "password", "sensitive", "natural"} = {}
    /\ d.name \notin u.fks /\ d.type # "int"

\* A table u that is t with more or better columns, keys, references and
\* indexes; X and Y are the columns that have become references and keys.
Better(t, u, X, Y) ==
    /\ u.view = t.view /\ u.large = t.large
    /\ \A d \in u.columns : (\E c \in t.columns : Kin(c, d)) \/ Harmless(d, u)
    /\ \A c \in t.columns : \E d \in u.columns : d.name = c.name
    /\ t.pk \subseteq u.pk /\ \A c \in t.columns : c.name \in u.pk => c.name \in t.pk \cup Y
    /\ t.fks \subseteq u.fks /\ u.fks \subseteq t.fks \cup X
    /\ t.indexes \subseteq u.indexes
    /\ u.storage \in {t.storage, "InnoDB"} /\ (t.utf8mb4 => u.utf8mb4)
    /\ NoLooser(t.columns, u.columns, u.fks)
    /\ t.pk = {} \/ Autos(u) \cap u.pk \in {Autos(t) \cap t.pk, {}}
OnlyOf(n, k, X) == IF k = n THEN X ELSE {}
Improves(m, w, n, X, Y) ==
    DOMAIN m = DOMAIN w /\ \A k \in DOMAIN m : Better(m[k], w[k], OnlyOf(n, k, X), OnlyOf(n, k, Y))

\* What may be found then that was not found before.
NullableFound(n, X) == {Finding("nullable_fk", "low", n, x, NoFix) : x \in X}
IntFound(m, n, Y) ==
    {Finding("int_pk", IF m[n].large THEN "medium" ELSE "low", n, y, Fix("widenPkToBigint", n, y, "")) : y \in Y}

LEMMA StillBetter ==
    ASSUME NEW t
    PROVE  Better(t, t, {}, {})
<1>1. \A c : Kin(c, c)
    BY DEF Kin
<1> QED
    BY <1>1 DEF Better, NoLooser

LEMMA BetterTables ==
    ASSUME NEW m, NEW w, NEW n, NEW X, NEW Y, Improves(m, w, n, X, Y)
    PROVE  /\ DOMAIN m = DOMAIN w /\ BaseTables(m) = BaseTables(w) /\ BaseTables(m) \in SUBSET DOMAIN m
           /\ \A k \in DOMAIN m : Better(m[k], w[k], OnlyOf(n, k, X), OnlyOf(n, k, Y))
<1>1. DOMAIN m = DOMAIN w /\ \A k \in DOMAIN m : Better(m[k], w[k], OnlyOf(n, k, X), OnlyOf(n, k, Y))
    BY DEF Improves
<1>2. \A k \in DOMAIN m : w[k].view = m[k].view
    BY <1>1 DEF Better
<1> QED
    BY <1>1, <1>2 DEF BaseTables

\* A place of the one is a place of the other, or a harmless one.
LEMMA BetterPlaces ==
    ASSUME NEW m, NEW w, NEW n, NEW X, NEW Y, Improves(m, w, n, X, Y),
           NEW S \in SUBSET DOMAIN m, NEW p \in Places(w, S)
    PROVE  /\ p[1] \in S /\ p[1] \in DOMAIN m
           /\ Better(m[p[1]], w[p[1]], OnlyOf(n, p[1], X), OnlyOf(n, p[1], Y))
           /\ \/ \E q \in Places(m, S) : q[1] = p[1] /\ q[2] \in m[p[1]].columns /\ Kin(q[2], p[2])
              \/ Harmless(p[2], w[p[1]])
<1>1. PICK k \in S : \E d \in w[k].columns : p = <<k, d>>
    BY DEF Places
<1>2. PICK d \in w[k].columns : p = <<k, d>>
    BY <1>1
<1>3. p[1] = k /\ p[2] = d
    BY <1>2
<1>4. Better(m[k], w[k], OnlyOf(n, k, X), OnlyOf(n, k, Y))
    BY BetterTables
<1>5. (\E c \in m[k].columns : Kin(c, d)) \/ Harmless(d, w[k])
    BY <1>4 DEF Better
<1>6. ASSUME NEW c \in m[k].columns, Kin(c, d)
      PROVE  \E q \in Places(m, S) : q[1] = k /\ q[2] \in m[k].columns /\ Kin(q[2], d)
    <2>1. <<k, c>> \in Places(m, S)
        BY DEF Places
    <2> QED
        BY <2>1, <1>6
<1> QED
    BY <1>3, <1>4, <1>5, <1>6

LEMMA BetterTableRules ==
    ASSUME NEW m, NEW w, NEW n, NEW X, NEW Y, Improves(m, w, n, X, Y)
    PROVE  /\ NoPk(w) \subseteq NoPk(m) /\ Naming(w) = Naming(m)
           /\ StorageEngine(w) \subseteq StorageEngine(m) /\ Charset(w) \subseteq Charset(m)
<1>1. BaseTables(m) = BaseTables(w) /\ BaseTables(m) \subseteq DOMAIN m
    BY BetterTables
<1>2. \A k \in BaseTables(m) :
        /\ m[k].pk \subseteq w[k].pk /\ w[k].storage \in {m[k].storage, "InnoDB"} /\ (m[k].utf8mb4 => w[k].utf8mb4)
    BY <1>1, BetterTables DEF Better
<1>3. NoPk(w) \subseteq NoPk(m)
    BY <1>1, <1>2 DEF NoPk
<1>4. Naming(w) = Naming(m)
    BY <1>1 DEF Naming
<1>5. StorageEngine(w) \subseteq StorageEngine(m)
    BY <1>1, <1>2 DEF StorageEngine
<1>6. Charset(w) \subseteq Charset(m)
    BY <1>1, <1>2 DEF Charset
<1> QED
    BY <1>3, <1>4, <1>5, <1>6

LEMMA BetterTimestamps ==
    ASSUME NEW m, NEW w, NEW n, NEW X, NEW Y, Improves(m, w, n, X, Y)
    PROVE  NoTimestamps(w) \subseteq NoTimestamps(m)
<1>1. BaseTables(m) = BaseTables(w) /\ BaseTables(m) \subseteq DOMAIN m
    BY BetterTables
<1>2. ASSUME NEW k \in BaseTables(m)
      PROVE  {Lower[c.name] : c \in m[k].columns} \subseteq {Lower[c.name] : c \in w[k].columns}
    <2>1. \A c \in m[k].columns : \E d \in w[k].columns : d.name = c.name
        BY <1>1, BetterTables DEF Better
    <2> QED
        BY <2>1
<1> DEFINE L(x, k) == {Lower[c.name] : c \in x[k].columns}
           A == {"created_at", "created", "createdat"}
           B == {"updated_at", "updated", "updatedat"}
<1>3. \A x : NoTimestamps(x) =
        {TableFinding("no_timestamps", "low", k, "addTimestamps") :
            k \in {y \in BaseTables(x) : L(x, y) \cap A = {} \/ L(x, y) \cap B = {}}}
    BY DEF NoTimestamps
<1>4. \A k \in BaseTables(m) : L(m, k) \subseteq L(w, k)
    BY <1>2
<1> HIDE DEF L, A, B
<1> QED
    BY <1>1, <1>3, <1>4

LEMMA FindingOfName ==
    ASSUME NEW c, NEW d, c.name = d.name
    PROVE  \A rule, severity, n, kind :
            ColumnFinding(rule, severity, n, c, kind) = ColumnFinding(rule, severity, n, d, kind)
BY DEF ColumnFinding

\* The rules about references and keys.
LEMMA BetterPlaceRules ==
    ASSUME NEW m, NEW w, NEW n, NEW X, NEW Y, Improves(m, w, n, X, Y)
    PROVE  /\ ImplicitFk(w) \subseteq ImplicitFk(m) /\ UnindexedId(w) \subseteq UnindexedId(m)
           /\ NullableFk(w) \subseteq NullableFk(m) \cup NullableFound(n, X)
           /\ UniqueKey(w) \subseteq UniqueKey(m) /\ Sensitive(w) \subseteq Sensitive(m)
<1>1. DOMAIN m = DOMAIN w /\ BaseTables(m) = BaseTables(w) /\ BaseTables(m) \in SUBSET DOMAIN m
    BY BetterTables
<1>2. ASSUME NEW S \in SUBSET DOMAIN m, NEW p \in Places(w, S), ~Harmless(p[2], w[p[1]])
      PROVE  \E q \in Places(m, S) : q[1] = p[1] /\ q[2] \in m[p[1]].columns /\ Kin(q[2], p[2])
    BY <1>2, BetterPlaces
<1>3. ASSUME NEW S \in SUBSET DOMAIN m, NEW p \in Places(w, S)
      PROVE  /\ m[p[1]].pk \subseteq w[p[1]].pk /\ m[p[1]].indexes \subseteq w[p[1]].indexes
             /\ m[p[1]].fks \subseteq w[p[1]].fks /\ w[p[1]].fks \subseteq m[p[1]].fks \cup OnlyOf(n, p[1], X)
    BY BetterPlaces DEF Better
<1>4. ImplicitFk(w) \subseteq ImplicitFk(m)
    <2> SUFFICES ASSUME NEW f \in ImplicitFk(w) PROVE f \in ImplicitFk(m)
        OBVIOUS
    <2>1. PICK p \in Places(w, BaseTables(w)) :
            /\ IsRef(p[2].name) /\ p[2].name \notin w[p[1]].fks \cup w[p[1]].pk
            /\ \E ref \in Target(DOMAIN w, p[2].name) :
                f = Finding("implicit_fk", "medium", p[1], p[2].name, Fix("addForeignKey", p[1], p[2].name, ref))
        BY DEF ImplicitFk
    <2>2. ~Harmless(p[2], w[p[1]])
        BY <2>1 DEF Harmless
    <2>3. PICK q \in Places(m, BaseTables(m)) : q[1] = p[1] /\ Kin(q[2], p[2])
        BY <1>1, <1>2, <2>2
    <2>4. /\ IsRef(q[2].name) /\ q[2].name \notin m[q[1]].fks \cup m[q[1]].pk
          /\ \E ref \in Target(DOMAIN m, q[2].name) :
                f = Finding("implicit_fk", "medium", q[1], q[2].name, Fix("addForeignKey", q[1], q[2].name, ref))
        BY <1>1, <1>3, <2>1, <2>3 DEF Kin
    <2> DEFINE G(x) == {Finding("implicit_fk", "medium", x[1], x[2].name,
                                Fix("addForeignKey", x[1], x[2].name, ref)) : ref \in Target(DOMAIN m, x[2].name)}
               Q == {x \in Places(m, BaseTables(m)) :
                        IsRef(x[2].name) /\ x[2].name \notin m[x[1]].fks \cup m[x[1]].pk}
    <2>5. f \in G(q) /\ q \in Q
        BY <2>4
    <2>6. ImplicitFk(m) = UNION {G(x) : x \in Q}
        BY DEF ImplicitFk
    <2> HIDE DEF G, Q
    <2> QED
        BY <2>5, <2>6
<1>5. UnindexedId(w) \subseteq UnindexedId(m)
    <2> SUFFICES ASSUME NEW f \in UnindexedId(w) PROVE f \in UnindexedId(m)
        OBVIOUS
    <2>1. PICK p \in Places(w, BaseTables(w)) :
            /\ IsRef(p[2].name) /\ p[2].name \notin w[p[1]].pk /\ ~IndexedFirst(w[p[1]], p[2].name)
            /\ f = ColumnFinding("unindexed_id", "medium", p[1], p[2], "createIndex")
        BY DEF UnindexedId
    <2>2. ~Harmless(p[2], w[p[1]])
        BY <2>1 DEF Harmless
    <2>3. PICK q \in Places(m, BaseTables(m)) : q[1] = p[1] /\ Kin(q[2], p[2])
        BY <1>1, <1>2, <2>2
    <2>4. q[2].name = p[2].name
        BY <2>3 DEF Kin
    <2>5. ~IndexedFirst(m[q[1]], q[2].name)
        BY <1>1, <1>3, <2>1, <2>3, <2>4 DEF IndexedFirst
    <2>6. /\ IsRef(q[2].name) /\ q[2].name \notin m[q[1]].pk
          /\ f = ColumnFinding("unindexed_id", "medium", q[1], q[2], "createIndex")
        BY <1>1, <1>3, <2>1, <2>3, <2>4, FindingOfName
    <2> QED
        BY <2>5, <2>6 DEF UnindexedId
<1>6. NullableFk(w) \subseteq NullableFk(m) \cup NullableFound(n, X)
    <2> SUFFICES ASSUME NEW f \in NullableFk(w) PROVE f \in NullableFk(m) \cup NullableFound(n, X)
        OBVIOUS
    <2>1. PICK p \in Places(w, DOMAIN w) :
            /\ p[2].name \in w[p[1]].fks /\ p[2].nullable
            /\ f = ColumnFinding("nullable_fk", "low", p[1], p[2], "none")
        BY DEF NullableFk
    <2>2. NoLooser(m[p[1]].columns, w[p[1]].columns, w[p[1]].fks) /\ p[1] \in DOMAIN m
        BY <1>1, BetterPlaces DEF Better
    <2>8. PICK k, d : k \in DOMAIN w /\ d \in w[k].columns /\ p = <<k, d>>
        BY DEF Places
    <2>9. PICK c \in m[p[1]].columns : c.name = p[2].name /\ c.nullable
        BY <2>1, <2>2, <2>8 DEF NoLooser
    <2>10. <<p[1], c>> \in Places(m, DOMAIN m)
        BY <2>2 DEF Places
    <2>3. PICK q \in Places(m, DOMAIN m) : q = <<p[1], c>>
        BY <2>10
    <2>4. q[1] = p[1] /\ q[2].name = p[2].name /\ q[2].nullable
        BY <2>3, <2>9
    <2>5. f = ColumnFinding("nullable_fk", "low", q[1], q[2], "none")
        BY <2>1, <2>4, FindingOfName
    <2>6. CASE q[2].name \in m[q[1]].fks
        BY <2>4, <2>5, <2>6 DEF NullableFk
    <2>7. CASE q[2].name \notin m[q[1]].fks
        <3>1. q[1] = n /\ q[2].name \in X
            BY <1>1, <1>3, <2>1, <2>4, <2>7 DEF OnlyOf
        <3>2. f = Finding("nullable_fk", "low", n, q[2].name, NoFix)
            BY <2>5, <3>1 DEF ColumnFinding
        <3> QED
            BY <3>1, <3>2 DEF NullableFound
    <2> QED
        BY <2>6, <2>7
<1>7. UniqueKey(w) \subseteq UniqueKey(m)
    <2> SUFFICES ASSUME NEW f \in UniqueKey(w) PROVE f \in UniqueKey(m)
        OBVIOUS
    <2>1. PICK p \in Places(w, BaseTables(w)) :
            /\ "natural" \in Class[p[2].name]
            /\ ~\E i \in w[p[1]].indexes : i.unique /\ i.columns = <<p[2].name>>
            /\ f = ColumnFinding("unique_key", "low", p[1], p[2], "createUniqueIndex")
        BY DEF UniqueKey
    <2>2. ~Harmless(p[2], w[p[1]])
        BY <2>1 DEF Harmless
    <2>3. PICK q \in Places(m, BaseTables(m)) : q[1] = p[1] /\ Kin(q[2], p[2])
        BY <1>1, <1>2, <2>2
    <2>4. q[2].name = p[2].name
        BY <2>3 DEF Kin
    <2>5. /\ "natural" \in Class[q[2].name]
          /\ ~\E i \in m[q[1]].indexes : i.unique /\ i.columns = <<q[2].name>>
        BY <1>1, <1>3, <2>1, <2>3, <2>4
    <2>6. f = ColumnFinding("unique_key", "low", q[1], q[2], "createUniqueIndex")
        BY <2>1, <2>3, <2>4, FindingOfName
    <2> QED
        BY <2>5, <2>6 DEF UniqueKey
<1>8. Sensitive(w) \subseteq Sensitive(m)
    <2> SUFFICES ASSUME NEW f \in Sensitive(w) PROVE f \in Sensitive(m)
        OBVIOUS
    <2>1. PICK p \in Places(w, DOMAIN w) :
            "sensitive" \in Class[p[2].name] /\ f = ColumnFinding("sensitive", "medium", p[1], p[2], "none")
        BY DEF Sensitive
    <2>2. ~Harmless(p[2], w[p[1]])
        BY <2>1 DEF Harmless
    <2>3. PICK q \in Places(m, DOMAIN m) : q[1] = p[1] /\ Kin(q[2], p[2])
        BY <1>1, <1>2, <2>2
    <2>4. q[2].name = p[2].name
        BY <2>3 DEF Kin
    <2>5. "sensitive" \in Class[q[2].name] /\ f = ColumnFinding("sensitive", "medium", q[1], q[2], "none")
        BY <2>1, <2>3, <2>4, FindingOfName
    <2> QED
        BY <2>5 DEF Sensitive
<1> QED
    BY <1>4, <1>5, <1>6, <1>7, <1>8

\* The rules about types.
LEMMA BetterTypeRules ==
    ASSUME NEW m, NEW w, NEW n, NEW X, NEW Y, Improves(m, w, n, X, Y)
    PROVE  /\ MoneyFloat(w) \subseteq MoneyFloat(m) /\ BoolString(w) \subseteq BoolString(m)
           /\ PlaintextPw(w) \subseteq PlaintextPw(m)
           /\ IntPk(w) \subseteq IntPk(m) \cup IntFound(m, n, Y)
<1>1. DOMAIN m = DOMAIN w /\ BaseTables(m) = BaseTables(w) /\ BaseTables(m) \in SUBSET DOMAIN m
    BY BetterTables
<1>2. ASSUME NEW S \in SUBSET DOMAIN m, NEW p \in Places(w, S), ~Harmless(p[2], w[p[1]])
      PROVE  \E q \in Places(m, S) : q[1] = p[1] /\ q[2] \in m[p[1]].columns /\ Kin(q[2], p[2])
    BY <1>2, BetterPlaces
<1>3. ASSUME NEW class \in {"money", "flag", "password"}, NEW types \in {Floating, Textual},
             NEW p \in Mistyped(w, class, types)
      PROVE  \E q \in Mistyped(m, class, types) : q[1] = p[1] /\ q[2].name = p[2].name /\ q[2].len = p[2].len
    <2>1. p \in Places(w, DOMAIN m) /\ class \in Class[p[2].name] /\ p[2].type \in types
        BY <1>1 DEF Mistyped
    <2>2. ~Harmless(p[2], w[p[1]])
        BY <2>1 DEF Harmless
    <2>3. PICK q \in Places(m, DOMAIN m) : q[1] = p[1] /\ Kin(q[2], p[2])
        BY <1>2, <2>1, <2>2
    <2>4. p[2].type \notin Inert
        BY <2>1 DEF Floating, Textual, Inert
    <2>5. q[2].name = p[2].name /\ q[2].len = p[2].len /\ q[2].type = p[2].type
        BY <2>3, <2>4 DEF Kin
    <2> QED
        BY <2>1, <2>3, <2>5 DEF Mistyped
<1>4. MoneyFloat(w) \subseteq MoneyFloat(m)
    <2> SUFFICES ASSUME NEW p \in Mistyped(w, "money", Floating)
                 PROVE  \E q \in Mistyped(m, "money", Floating) :
                            ColumnFinding("money_float", "medium", p[1], p[2], "setColumnDecimal")
                            = ColumnFinding("money_float", "medium", q[1], q[2], "setColumnDecimal")
        BY DEF MoneyFloat, Floating
    <2> QED
        BY <1>3, FindingOfName
<1>5. BoolString(w) \subseteq BoolString(m)
    <2> SUFFICES ASSUME NEW p \in Mistyped(w, "flag", Textual)
                 PROVE  \E q \in Mistyped(m, "flag", Textual) :
                            ColumnFinding("bool_string", "low", p[1], p[2], "setColumnBoolean")
                            = ColumnFinding("bool_string", "low", q[1], q[2], "setColumnBoolean")
        BY DEF BoolString, Textual
    <2> QED
        BY <1>3, FindingOfName
<1>6. PlaintextPw(w) \subseteq PlaintextPw(m)
    <2> SUFFICES ASSUME NEW p \in Mistyped(w, "password", Textual), p[2].len < 60
                 PROVE  \E q \in Mistyped(m, "password", Textual) : q[2].len < 60 /\
                            ColumnFinding("plaintext_pw", "high", p[1], p[2], "none")
                            = ColumnFinding("plaintext_pw", "high", q[1], q[2], "none")
        BY DEF PlaintextPw, Textual
    <2> QED
        BY <1>3, FindingOfName
<1>7. IntPk(w) \subseteq IntPk(m) \cup IntFound(m, n, Y)
    <2> SUFFICES ASSUME NEW f \in IntPk(w) PROVE f \in IntPk(m) \cup IntFound(m, n, Y)
        OBVIOUS
    <2>1. PICK p \in Places(w, BaseTables(w)) :
            /\ p[2].name \in w[p[1]].pk /\ p[2].auto /\ p[2].type = "int" /\ p[2].name = FirstSerial(w[p[1]])
            /\ f = ColumnFinding("int_pk", IF w[p[1]].large THEN "medium" ELSE "low", p[1], p[2], "widenPkToBigint")
        BY DEF IntPk
    <2>2. ~Harmless(p[2], w[p[1]])
        BY <2>1 DEF Harmless
    <2>3. PICK q \in Places(m, BaseTables(m)) :
            q[1] = p[1] /\ q[2] \in m[p[1]].columns /\ Kin(q[2], p[2])
        BY <1>1, <1>2, <2>2
    <2>4. Better(m[q[1]], w[q[1]], OnlyOf(n, q[1], X), OnlyOf(n, q[1], Y))
        BY <1>1, <2>3, BetterPlaces
    <2>5. q[2].name = p[2].name /\ q[2].auto /\ q[2].type = "int"
        BY <2>1, <2>3 DEF Kin, Inert
    <2>6. f = ColumnFinding("int_pk", IF m[q[1]].large THEN "medium" ELSE "low", q[1], q[2], "widenPkToBigint")
        <3>1. w[q[1]].large = m[q[1]].large
            BY <2>4 DEF Better
        <3> QED
            BY <2>1, <2>3, <2>5, <3>1, FindingOfName
    <2>7. CASE q[2].name \in m[q[1]].pk
        <3>1. PICK k, d : k \in BaseTables(w) /\ d \in w[k].columns /\ p = <<k, d>>
            BY DEF Places
        <3>2. p[2].name \in Autos(w[p[1]]) \cap w[p[1]].pk
            BY <2>1, <3>1 DEF Autos
        <3>3. Autos(w[q[1]]) \cap w[q[1]].pk = Autos(m[q[1]]) \cap m[q[1]].pk
            BY <2>3, <2>4, <2>7, <3>2 DEF Better
        <3>4. q[2].name = FirstSerial(m[q[1]])
            BY <2>1, <2>3, <2>5, <3>3 DEF FirstSerial
        <3> QED
            BY <2>5, <2>6, <2>7, <3>4 DEF IntPk
    <2>8. CASE q[2].name \notin m[q[1]].pk
        <3>1. q[2].name \in OnlyOf(n, q[1], Y)
            BY <2>1, <2>3, <2>4, <2>5, <2>8 DEF Better
        <3>2. q[1] = n /\ q[2].name \in Y
            BY <3>1 DEF OnlyOf
        <3>3. f = Finding("int_pk", IF m[n].large THEN "medium" ELSE "low", n, q[2].name,
                          Fix("widenPkToBigint", n, q[2].name, ""))
            BY <2>6, <3>2 DEF ColumnFinding
        <3> QED
            BY <3>2, <3>3 DEF IntFound
    <2> QED
        BY <2>7, <2>8
<1> QED
    BY <1>4, <1>5, <1>6, <1>7

\* Nothing is found that was not found before, but for the columns that have
\* become references or keys.
LEMMA BetterFindings ==
    ASSUME NEW m, NEW w, NEW n, NEW X, NEW Y, Improves(m, w, n, X, Y)
    PROVE  Findings(w) \subseteq Findings(m) \cup NullableFound(n, X) \cup IntFound(m, n, Y)
<1>1. /\ NoPk(w) \subseteq NoPk(m) /\ Naming(w) = Naming(m)
      /\ StorageEngine(w) \subseteq StorageEngine(m) /\ Charset(w) \subseteq Charset(m)
      /\ NoTimestamps(w) \subseteq NoTimestamps(m)
    BY BetterTableRules, BetterTimestamps
<1>2. /\ ImplicitFk(w) \subseteq ImplicitFk(m) /\ UnindexedId(w) \subseteq UnindexedId(m)
      /\ NullableFk(w) \subseteq NullableFk(m) \cup NullableFound(n, X)
      /\ UniqueKey(w) \subseteq UniqueKey(m) /\ Sensitive(w) \subseteq Sensitive(m)
    BY BetterPlaceRules
<1>3. /\ MoneyFloat(w) \subseteq MoneyFloat(m) /\ BoolString(w) \subseteq BoolString(m)
      /\ PlaintextPw(w) \subseteq PlaintextPw(m)
      /\ IntPk(w) \subseteq IntPk(m) \cup IntFound(m, n, Y)
    BY BetterTypeRules
<1> QED
    BY <1>1, <1>2, <1>3 DEF Findings

-----------------------------------------------------------------------------
(* The findings are finitely many                                          *)

\* Finitely many finite sets.
LEMMA FiniteUnion ==
    ASSUME NEW S, IsFiniteSet(S), NEW F, \A x \in S : IsFiniteSet(F[x])
    PROVE  IsFiniteSet(UNION {F[x] : x \in S})
<1> DEFINE All(T) == UNION {F[x] : x \in T}
           Sizes == {k \in Nat : \E T \in SUBSET S : Cardinality(T) = k /\ ~IsFiniteSet(All(T))}
<1>1. SUFFICES ASSUME ~IsFiniteSet(All(S)) PROVE FALSE
    OBVIOUS
<1>2. \A T \in SUBSET S : IsFiniteSet(T) /\ Cardinality(T) \in Nat
    BY FS_Subset, FS_CardinalityType
<1>3. Cardinality(S) \in Sizes
    BY <1>1, <1>2
<1>4. PICK k \in Sizes : \A l \in Sizes : k <= l
    <2> HIDE DEF Sizes
    <2>1. Sizes \subseteq Nat
        BY DEF Sizes
    <2> QED
        BY <1>3, <2>1, LeastOf
<1>5. PICK T \in SUBSET S : Cardinality(T) = k /\ ~IsFiniteSet(All(T))
    OBVIOUS
<1>6. PICK x \in T : TRUE
    <2>1. ASSUME T = {} PROVE All(T) = {}
        BY <2>1
    <2> QED
        BY <1>5, <2>1, FS_EmptySet
<1>7. IsFiniteSet(T \ {x}) /\ Cardinality(T \ {x}) = k - 1 /\ k \in Nat
    BY <1>2, <1>5, <1>6, FS_RemoveElement
<1>8. k - 1 \notin Sizes
    <2> HIDE DEF Sizes
    <2>1. k - 1 \in Sizes => k <= k - 1
        BY <1>4
    <2> QED
        BY <1>7, <2>1
<1>9. IsFiniteSet(All(T \ {x}))
    BY <1>2, <1>7, <1>8
<1>10. All(T) = All(T \ {x}) \cup F[x]
    BY <1>6
<1>11. IsFiniteSet(F[x])
    BY <1>5, <1>6
<1> HIDE DEF All
<1>12. IsFiniteSet(All(T \ {x}) \cup F[x])
    BY <1>9, <1>11, FS_Union
<1> QED
    BY <1>5, <1>10, <1>12

FiniteModel(m) == IsFiniteSet(DOMAIN m) /\ \A n \in DOMAIN m : IsFiniteSet(m[n].columns)

LEMMA FinitePlaces ==
    ASSUME NEW m, FiniteModel(m)
    PROVE  IsFiniteSet(Places(m, DOMAIN m))
<1> DEFINE F == [n \in DOMAIN m |-> {<<n, c>> : c \in m[n].columns}]
<1>1. ASSUME NEW n \in DOMAIN m PROVE IsFiniteSet(F[n])
    <2> DEFINE g == [c \in m[n].columns |-> <<n, c>>]
    <2>1. F[n] = {g[c] : c \in m[n].columns} /\ g = [c \in m[n].columns |-> g[c]]
        OBVIOUS
    <2>2. IsFiniteSet(m[n].columns)
        BY DEF FiniteModel
    <2> HIDE DEF g, F
    <2> QED
        BY <2>1, <2>2, Imaged
<1>2. Places(m, DOMAIN m) = UNION {F[n] : n \in DOMAIN m}
    BY DEF Places
<1>3. IsFiniteSet(DOMAIN m)
    BY DEF FiniteModel
<1> HIDE DEF F
<1> QED
    BY <1>1, <1>2, <1>3, FiniteUnion

\* Within the values of a function on a finite set.
LEMMA WithinImage ==
    ASSUME NEW S, IsFiniteSet(S), NEW g, g = [x \in S |-> g[x]], NEW T, \A y \in T : \E x \in S : y = g[x]
    PROVE  IsFiniteSet(T)
<1>1. IsFiniteSet({g[x] : x \in S})
    BY Imaged
<1>2. T \in SUBSET {g[x] : x \in S}
    OBVIOUS
<1> QED
    BY <1>1, <1>2, FS_Subset

\* What a rule finds that looks at tables, or at columns.
OfTables(rule, severity, kind, S) == {TableFinding(rule, severity, n, kind) : n \in S}
OfColumns(rule, severity, kind, S) == {ColumnFinding(rule, severity, p[1], p[2], kind) : p \in S}

LEMMA FiniteRules ==
    ASSUME NEW m, FiniteModel(m), NEW rule, NEW severity, NEW kind
    PROVE  /\ \A S \in SUBSET DOMAIN m : IsFiniteSet(OfTables(rule, severity, kind, S))
           /\ \A S \in SUBSET Places(m, DOMAIN m) : IsFiniteSet(OfColumns(rule, severity, kind, S))
<1>1. ASSUME NEW S \in SUBSET DOMAIN m PROVE IsFiniteSet(OfTables(rule, severity, kind, S))
    <2> DEFINE g == [n \in S |-> TableFinding(rule, severity, n, kind)]
               T == OfTables(rule, severity, kind, S)
    <2>1. (\A y \in T : \E x \in S : y = g[x]) /\ g = [x \in S |-> g[x]]
        BY DEF OfTables, OfColumns
    <2>2. IsFiniteSet(S)
        BY FS_Subset DEF FiniteModel
    <2> HIDE DEF g, T
    <2>3. IsFiniteSet(T)
        BY <2>1, <2>2, WithinImage
    <2> QED
        BY <2>3 DEF T
<1>2. ASSUME NEW S \in SUBSET Places(m, DOMAIN m)
      PROVE  IsFiniteSet(OfColumns(rule, severity, kind, S))
    <2> DEFINE g == [p \in S |-> ColumnFinding(rule, severity, p[1], p[2], kind)]
               T == OfColumns(rule, severity, kind, S)
    <2>1. (\A y \in T : \E x \in S : y = g[x]) /\ g = [x \in S |-> g[x]]
        BY DEF OfTables, OfColumns
    <2>2. IsFiniteSet(S)
        BY FinitePlaces, FS_Subset
    <2> HIDE DEF g, T
    <2>3. IsFiniteSet(T)
        BY <2>1, <2>2, WithinImage
    <2> QED
        BY <2>3 DEF T
<1> QED
    BY <1>1, <1>2

\* The one table a name refers to.
LEMMA OneTarget ==
    ASSUME NEW tables, NEW column
    PROVE  \A x, y \in Target(tables, column) : x = y
<1>1. PICK S : S = Target(tables, column) /\ (S = {} \/ \E h : S = {h})
    BY DEF Target
<1> QED
    BY <1>1

LEMMA FiniteFindings ==
    ASSUME NEW m, FiniteModel(m)
    PROVE  IsFiniteSet(Findings(m))
<1> DEFINE P == Places(m, DOMAIN m)
<1>1. BaseTables(m) \subseteq DOMAIN m /\ Places(m, BaseTables(m)) \subseteq P
    BY DEF BaseTables, Places
<1>2. \A class, types : Mistyped(m, class, types) \subseteq P
    BY DEF Mistyped
<1>3. IsFiniteSet(P)
    BY FinitePlaces
<1> HIDE DEF P
<1>4. \A rule, severity, kind : \A S \in SUBSET DOMAIN m : IsFiniteSet(OfTables(rule, severity, kind, S))
    BY FiniteRules
<1>5. \A rule, severity, kind : \A S \in SUBSET P : IsFiniteSet(OfColumns(rule, severity, kind, S))
    BY FiniteRules DEF P
<1>6. IsFiniteSet(NoPk(m))
    <2> DEFINE S == {x \in BaseTables(m) : m[x].pk = {}}
    <2>1. S \in SUBSET DOMAIN m
        BY <1>1, <1>2
    <2>2. NoPk(m) = OfTables("no_pk", "high", "addIdPk", S)
        BY DEF NoPk, OfTables
    <2> HIDE DEF S
    <2> QED
        BY <1>4, <2>1, <2>2
<1>7. IsFiniteSet(ImplicitFk(m))
    <2> DEFINE Of(p, ref) == Finding("implicit_fk", "medium", p[1], p[2].name, Fix("addForeignKey", p[1], p[2].name, ref))
               g == [p \in P |-> Of(p, CHOOSE ref \in Target(DOMAIN m, p[2].name) : TRUE)]
    <2>1. \A f \in ImplicitFk(m) : \E p \in P : \E ref \in Target(DOMAIN m, p[2].name) : f = Of(p, ref)
        BY <1>1 DEF ImplicitFk
    <2> HIDE DEF Of
    <2>2. ASSUME NEW f \in ImplicitFk(m) PROVE \E p \in P : f = g[p]
        <3>1. PICK p \in P : \E ref \in Target(DOMAIN m, p[2].name) : f = Of(p, ref)
            BY <2>1
        <3>2. PICK ref \in Target(DOMAIN m, p[2].name) : f = Of(p, ref)
            BY <3>1
        <3> DEFINE other == CHOOSE r \in Target(DOMAIN m, p[2].name) : TRUE
        <3>3. other \in Target(DOMAIN m, p[2].name)
            BY <3>2
        <3>4. other = ref
            BY <3>2, <3>3, OneTarget
        <3> QED
            BY <3>2, <3>4
    <2>3. g = [p \in P |-> g[p]]
        OBVIOUS
    <2> HIDE DEF g
    <2> QED
        BY <1>3, <2>2, <2>3, WithinImage
<1>8. IsFiniteSet(UnindexedId(m))
    <2> DEFINE S == {q \in Places(m, BaseTables(m)) :
                    IsRef(q[2].name) /\ q[2].name \notin m[q[1]].pk /\ ~IndexedFirst(m[q[1]], q[2].name)}
    <2>1. S \in SUBSET P
        BY <1>1, <1>2
    <2>2. UnindexedId(m) = OfColumns("unindexed_id", "medium", "createIndex", S)
        BY DEF UnindexedId, OfColumns
    <2> HIDE DEF S
    <2> QED
        BY <1>5, <2>1, <2>2
<1>9. IsFiniteSet(NullableFk(m))
    <2> DEFINE S == {q \in P : q[2].name \in m[q[1]].fks /\ q[2].nullable}
    <2>1. S \in SUBSET P
        BY <1>1, <1>2 DEF P
    <2>2. NullableFk(m) = OfColumns("nullable_fk", "low", "none", S)
        BY DEF NullableFk, OfColumns, P
    <2> HIDE DEF S
    <2> QED
        BY <1>5, <2>1, <2>2
<1>10. IsFiniteSet(NoTimestamps(m))
    <2> DEFINE S == {x \in BaseTables(m) :
                    \/ {Lower[c.name] : c \in m[x].columns} \cap {"created_at", "created", "createdat"} = {}
                    \/ {Lower[c.name] : c \in m[x].columns} \cap {"updated_at", "updated", "updatedat"} = {}}
    <2>1. S \in SUBSET DOMAIN m
        BY <1>1, <1>2
    <2>2. NoTimestamps(m) = OfTables("no_timestamps", "low", "addTimestamps", S)
        BY DEF NoTimestamps, OfTables
    <2> HIDE DEF S
    <2> QED
        BY <1>4, <2>1, <2>2
<1>11. IsFiniteSet(MoneyFloat(m))
    <2> DEFINE S == Mistyped(m, "money", {"float", "double"})
    <2>1. S \in SUBSET P
        BY <1>1, <1>2
    <2>2. MoneyFloat(m) = OfColumns("money_float", "medium", "setColumnDecimal", S)
        BY DEF MoneyFloat, OfColumns
    <2> HIDE DEF S
    <2> QED
        BY <1>5, <2>1, <2>2
<1>12. IsFiniteSet(BoolString(m))
    <2> DEFINE S == Mistyped(m, "flag", {"varchar", "char", "text"})
    <2>1. S \in SUBSET P
        BY <1>1, <1>2
    <2>2. BoolString(m) = OfColumns("bool_string", "low", "setColumnBoolean", S)
        BY DEF BoolString, OfColumns
    <2> HIDE DEF S
    <2> QED
        BY <1>5, <2>1, <2>2
<1>13. IsFiniteSet(StorageEngine(m))
    <2> DEFINE S == {x \in BaseTables(m) : m[x].storage \notin {"", "InnoDB"}}
    <2>1. S \in SUBSET DOMAIN m
        BY <1>1, <1>2
    <2>2. StorageEngine(m) = OfTables("engine", "medium", "useInnoDB", S)
        BY DEF StorageEngine, OfTables
    <2> HIDE DEF S
    <2> QED
        BY <1>4, <2>1, <2>2
<1>14. IsFiniteSet(Naming(m))
    <2> DEFINE S == {x \in BaseTables(m) \ {n \in BaseTables(m) : "snake" \in Class[n]} : "underscore" \notin Class[x]}
    <2>1. S \in SUBSET DOMAIN m
        BY <1>1
    <2>2. Naming(m) = {} \/ Naming(m) = OfTables("naming", "medium", "none", S)
        BY DEF Naming, OfTables
    <2> HIDE DEF S
    <2> QED
        BY <1>4, <2>1, <2>2, FS_EmptySet
<1>15. IsFiniteSet(Charset(m))
    <2> DEFINE S == {x \in BaseTables(m) : ~m[x].utf8mb4}
    <2>1. S \in SUBSET DOMAIN m
        BY <1>1, <1>2
    <2>2. Charset(m) = OfTables("charset", "low", "useUtf8mb4", S)
        BY DEF Charset, OfTables
    <2> HIDE DEF S
    <2> QED
        BY <1>4, <2>1, <2>2
<1>16. IsFiniteSet(PlaintextPw(m))
    <2> DEFINE S == {q \in Mistyped(m, "password", {"varchar", "char", "text"}) : q[2].len < 60}
    <2>1. S \in SUBSET P
        BY <1>1, <1>2
    <2>2. PlaintextPw(m) = OfColumns("plaintext_pw", "high", "none", S)
        BY DEF PlaintextPw, OfColumns
    <2> HIDE DEF S
    <2> QED
        BY <1>5, <2>1, <2>2
<1>17. IsFiniteSet(IntPk(m))
    <2> DEFINE Of(severity) == OfColumns("int_pk", severity, "widenPkToBigint", P)
    <2>1. IntPk(m) \in SUBSET (Of("medium") \cup Of("low"))
        <3> SUFFICES ASSUME NEW f \in IntPk(m) PROVE f \in Of("medium") \cup Of("low")
            OBVIOUS
        <3>1. PICK p \in P :
                f = ColumnFinding("int_pk", IF m[p[1]].large THEN "medium" ELSE "low", p[1], p[2], "widenPkToBigint")
            BY <1>1 DEF IntPk
        <3>2. \A severity : ColumnFinding("int_pk", severity, p[1], p[2], "widenPkToBigint") \in Of(severity)
            BY DEF OfColumns
        <3> HIDE DEF Of
        <3> QED
            BY <3>1, <3>2
    <2>2. IsFiniteSet(Of("medium")) /\ IsFiniteSet(Of("low"))
        BY <1>5
    <2> HIDE DEF Of
    <2> QED
        BY <2>1, <2>2, FS_Union, FS_Subset
<1>18. IsFiniteSet(Sensitive(m))
    <2> DEFINE S == {q \in P : "sensitive" \in Class[q[2].name]}
    <2>1. S \in SUBSET P
        BY <1>1, <1>2 DEF P
    <2>2. Sensitive(m) = OfColumns("sensitive", "medium", "none", S)
        BY DEF Sensitive, OfColumns, P
    <2> HIDE DEF S
    <2> QED
        BY <1>5, <2>1, <2>2
<1>19. IsFiniteSet(UniqueKey(m))
    <2> DEFINE S == {q \in Places(m, BaseTables(m)) :
                    "natural" \in Class[q[2].name] /\
                    ~\E i \in m[q[1]].indexes : i.unique /\ i.columns = <<q[2].name>>}
    <2>1. S \in SUBSET P
        BY <1>1, <1>2
    <2>2. UniqueKey(m) = OfColumns("unique_key", "low", "createUniqueIndex", S)
        BY DEF UniqueKey, OfColumns
    <2> HIDE DEF S
    <2> QED
        BY <1>5, <2>1, <2>2
<1> QED
    <2>1. IsFiniteSet(NoPk(m) \cup ImplicitFk(m) \cup UnindexedId(m) \cup NullableFk(m) \cup NoTimestamps(m))
        BY <1>6, <1>7, <1>8, <1>9, <1>10, FS_Union
    <2>2. IsFiniteSet(MoneyFloat(m) \cup BoolString(m) \cup Naming(m) \cup StorageEngine(m) \cup Charset(m))
        BY <1>11, <1>12, <1>13, <1>14, <1>15, FS_Union
    <2>3. IsFiniteSet(IntPk(m) \cup PlaintextPw(m) \cup Sensitive(m) \cup UniqueKey(m))
        BY <1>16, <1>17, <1>18, <1>19, FS_Union
    <2> DEFINE A == NoPk(m) \cup ImplicitFk(m) \cup UnindexedId(m) \cup NullableFk(m) \cup NoTimestamps(m)
               B == MoneyFloat(m) \cup BoolString(m) \cup Naming(m) \cup StorageEngine(m) \cup Charset(m)
               C == IntPk(m) \cup PlaintextPw(m) \cup Sensitive(m) \cup UniqueKey(m)
    <2>4. Findings(m) = (A \cup B) \cup C
        BY DEF Findings
    <2> HIDE DEF A, B, C
    <2>5. IsFiniteSet(A) /\ IsFiniteSet(B) /\ IsFiniteSet(C)
        BY <2>1, <2>2, <2>3 DEF A, B, C
    <2> QED
        BY <2>4, <2>5, FS_Union

-----------------------------------------------------------------------------
(* What the findings cost                                                  *)

LEMMA PenaltyOf ==
    ASSUME NEW A
    PROVE  Penalty(A) = 12 * CountOf(A, "high") + 5 * CountOf(A, "medium") + 2 * CountOf(A, "low")
BY DEF Penalty, Weigh

\* One finding fewer, and at most those of E more.
LEMMA CountDrops ==
    ASSUME NEW A, NEW B, IsFiniteSet(B), NEW f \in B, NEW E, IsFiniteSet(E), A \subseteq (B \ {f}) \cup E, NEW s
    PROVE  /\ CountOf(A, s) \in Nat /\ CountOf(B, s) \in Nat /\ CountOf(E, s) \in Nat
           /\ CountOf(A, s) <= CountOf(B, s) + CountOf(E, s) - (IF f.severity = s THEN 1 ELSE 0)
<1> DEFINE Of(X) == {g \in X : g.severity = s}
<1>1. Of(B) \in SUBSET B /\ Of(E) \in SUBSET E /\ Of(A) \in SUBSET ((Of(B) \ {f}) \cup Of(E))
    OBVIOUS
<1>2. f \in Of(B) <=> f.severity = s
    OBVIOUS
<1>3. CountOf(A, s) = Cardinality(Of(A)) /\ CountOf(B, s) = Cardinality(Of(B)) /\ CountOf(E, s) = Cardinality(Of(E))
    BY DEF CountOf
<1> HIDE DEF Of
<1>4. IsFiniteSet(Of(B)) /\ IsFiniteSet(Of(E))
    BY <1>1, FS_Subset
<1>5. /\ IsFiniteSet(Of(B) \ {f})
      /\ Cardinality(Of(B) \ {f}) = IF f.severity = s THEN Cardinality(Of(B)) - 1 ELSE Cardinality(Of(B))
    BY <1>2, <1>4, FS_RemoveElement
<1> DEFINE U == (Of(B) \ {f}) \cup Of(E)
<1>6. /\ IsFiniteSet(U)
      /\ Cardinality(U) = Cardinality(Of(B) \ {f}) + Cardinality(Of(E)) - Cardinality((Of(B) \ {f}) \cap Of(E))
    BY <1>4, <1>5, FS_Union
<1>7. IsFiniteSet((Of(B) \ {f}) \cap Of(E))
    BY <1>5, FS_Intersection
<1>8. IsFiniteSet(Of(A)) /\ Cardinality(Of(A)) <= Cardinality(U)
    BY <1>1, <1>6, FS_Subset
<1>9. /\ Cardinality(Of(A)) \in Nat /\ Cardinality(Of(B)) \in Nat /\ Cardinality(Of(E)) \in Nat
      /\ Cardinality((Of(B) \ {f}) \cap Of(E)) \in Nat /\ Cardinality(U) \in Nat
    BY <1>4, <1>6, <1>7, <1>8, FS_CardinalityType
<1> HIDE DEF U
<1> QED
    BY <1>3, <1>5, <1>6, <1>8, <1>9

LEMMA CountOfOne ==
    ASSUME NEW x, NEW s
    PROVE  CountOf({x}, s) = (IF x.severity = s THEN 1 ELSE 0) /\ CountOf({}, s) = 0
<1>1. {g \in {x} : g.severity = s} = (IF x.severity = s THEN {x} ELSE {}) /\ {g \in {} : g.severity = s} = {}
    OBVIOUS
<1> QED
    BY <1>1, FS_EmptySet, FS_Singleton DEF CountOf

\* A finding goes, and a lighter one may come.
Heavier(f, x) ==
    \/ f.severity = "high" /\ x.severity \in {"medium", "low"}
    \/ f.severity = "medium" /\ x.severity = "low"

LEMMA PenaltyDrops ==
    ASSUME NEW A, NEW B, IsFiniteSet(B), NEW f \in B, f.severity \in {"high", "medium", "low"}
    PROVE  /\ A \subseteq B \ {f} => Penalty(A) < Penalty(B)
           /\ \A x : A \subseteq (B \ {f}) \cup {x} /\ Heavier(f, x) => Penalty(A) < Penalty(B)
<1>1. ASSUME A \subseteq B \ {f} PROVE Penalty(A) < Penalty(B)
    <2> DEFINE E == {}
               Bounded(s) == /\ CountOf(A, s) \in Nat /\ CountOf(B, s) \in Nat
                          /\ CountOf(A, s) <= CountOf(B, s) - (IF f.severity = s THEN 1 ELSE 0)
    <2>1. IsFiniteSet(E) /\ A \subseteq (B \ {f}) \cup E
        BY <1>1, FS_EmptySet
    <2>2. \A s : CountOf(E, s) = 0
        BY CountOfOne
    <2> HIDE DEF E
    <2>3. \A s : /\ CountOf(A, s) \in Nat /\ CountOf(B, s) \in Nat /\ CountOf(E, s) \in Nat
                 /\ CountOf(A, s) <= CountOf(B, s) + CountOf(E, s) - (IF f.severity = s THEN 1 ELSE 0)
        BY <2>1, CountDrops
    <2>4. ASSUME NEW s PROVE Bounded(s)
        <3>1. /\ CountOf(A, s) \in Nat /\ CountOf(B, s) \in Nat
              /\ CountOf(A, s) <= CountOf(B, s) + CountOf(E, s) - (IF f.severity = s THEN 1 ELSE 0)
            BY <2>3
        <3>2. CountOf(E, s) = 0
            BY <2>2
        <3> QED
            BY <3>1, <3>2
    <2>5. Bounded("high") /\ Bounded("medium") /\ Bounded("low")
        BY <2>4
    <2>6. /\ Penalty(A) = 12 * CountOf(A, "high") + 5 * CountOf(A, "medium") + 2 * CountOf(A, "low")
          /\ Penalty(B) = 12 * CountOf(B, "high") + 5 * CountOf(B, "medium") + 2 * CountOf(B, "low")
        BY PenaltyOf
    <2> QED
        BY <2>5, <2>6
<1>2. ASSUME NEW x, A \subseteq (B \ {f}) \cup {x}, Heavier(f, x) PROVE Penalty(A) < Penalty(B)
    <2> DEFINE E == {x}
               Raised(s) == /\ CountOf(A, s) \in Nat /\ CountOf(B, s) \in Nat
                          /\ CountOf(A, s) <= CountOf(B, s) - (IF f.severity = s THEN 1 ELSE 0) + (IF x.severity = s THEN 1 ELSE 0)
    <2>1. IsFiniteSet(E) /\ A \subseteq (B \ {f}) \cup E
        BY <1>2, FS_Singleton
    <2>2. \A s : CountOf(E, s) = IF x.severity = s THEN 1 ELSE 0
        BY CountOfOne
    <2> HIDE DEF E
    <2>3. \A s : /\ CountOf(A, s) \in Nat /\ CountOf(B, s) \in Nat /\ CountOf(E, s) \in Nat
                 /\ CountOf(A, s) <= CountOf(B, s) + CountOf(E, s) - (IF f.severity = s THEN 1 ELSE 0)
        BY <2>1, CountDrops
    <2>4. ASSUME NEW s PROVE Raised(s)
        <3>1. /\ CountOf(A, s) \in Nat /\ CountOf(B, s) \in Nat
              /\ CountOf(A, s) <= CountOf(B, s) + CountOf(E, s) - (IF f.severity = s THEN 1 ELSE 0)
            BY <2>3
        <3>2. CountOf(E, s) = IF x.severity = s THEN 1 ELSE 0
            BY <2>2
        <3> QED
            BY <3>1, <3>2
    <2>5. Raised("high") /\ Raised("medium") /\ Raised("low")
        BY <2>4
    <2>6. /\ Penalty(A) = 12 * CountOf(A, "high") + 5 * CountOf(A, "medium") + 2 * CountOf(A, "low")
          /\ Penalty(B) = 12 * CountOf(B, "high") + 5 * CountOf(B, "medium") + 2 * CountOf(B, "low")
        BY PenaltyOf
    <2> QED
        BY <1>2, <2>5, <2>6 DEF Heavier
<1> QED
    BY <1>1, <1>2

-----------------------------------------------------------------------------
(* The statements make a schema better                                     *)

\* The model of one table, and its parts.
ModelOf(e, t) ==
    CASE e = "postgres" -> IntrospectPostgres(t)
      [] e = "sqlserver" -> IntrospectSqlServer(t)
      [] e = "oracle" -> IntrospectOracle(t)
      [] OTHER -> IntrospectMysql(t)
Others == {"postgres", "sqlserver", "oracle"}
KeyRead(e, t) == IF e \in Others THEN t.pk ELSE t.key
TypeRead(e, type) ==
    CASE e = "postgres" -> MapPgType(Native("postgres")[type])
      [] e = "sqlserver" -> MapMssqlType(Native("sqlserver")[type])
      [] e = "oracle" -> MapOracleType(Native("oracle")[type])
      [] OTHER -> Native("mysql")[type]
ColumnRead(e, c) == ColumnModel(c, TypeRead(e, c.type))
ColumnsListed(e, i) ==
    CASE e = "postgres" -> i.columns \o i.includes
      [] e = "sqlserver" -> i.includes \o i.columns
      [] OTHER -> i.columns
IndexRead(e, i) == [columns |-> ColumnsListed(e, i), unique |-> i.unique]

ReadAt(e, t, m) ==
    /\ m.view = t.view /\ m.large = t.large /\ m.pk = KeyRead(e, t) /\ m.fks = t.fks
    /\ m.storage = (IF e \in Others THEN "" ELSE t.storage)
    /\ m.utf8mb4 <=> (e \in Others \/ t.utf8mb4)
    /\ m.columns = {ColumnRead(e, c) : c \in t.columns}
    /\ m.indexes = {IndexRead(e, i) : i \in t.indexes}

LEMMA ModelRead ==
    ASSUME NEW e, NEW t
    PROVE  ReadAt(e, t, ModelOf(e, t))
<1>1. CASE e = "postgres"
    <2> DEFINE m == IntrospectPostgres(t)
    <2>1. ModelOf(e, t) = m
        BY <1>1 DEF ModelOf, Others
    <2>2. m.view = t.view /\ m.large = t.large /\ m.pk = KeyRead(e, t) /\ m.fks = t.fks
        BY <1>1 DEF IntrospectPostgres, TableModel, KeyRead, Others
    <2>3. m.storage = (IF e \in Others THEN "" ELSE t.storage)
        BY <1>1 DEF IntrospectPostgres, TableModel, MysqlFamily, Others
    <2>4. m.utf8mb4 <=> (e \in Others \/ t.utf8mb4)
        <3>1. m.utf8mb4 <=> TRUE
            BY DEF IntrospectPostgres, TableModel, MysqlFamily
        <3>2. e \in Others
            BY <1>1 DEF Others
        <3> QED
            BY <3>1, <3>2
    <2>5. m.columns = {ColumnRead(e, c) : c \in t.columns}
        BY <1>1 DEF IntrospectPostgres, TableModel, ColumnRead, TypeRead, Others
    <2>6. m.indexes = {IndexRead(e, i) : i \in t.indexes}
        BY <1>1 DEF IntrospectPostgres, TableModel, IndexRead, ColumnsListed, Others
    <2> HIDE DEF m
    <2> QED
        BY <2>1, <2>2, <2>3, <2>4, <2>5, <2>6 DEF ReadAt
<1>2. CASE e = "sqlserver"
    <2> DEFINE m == IntrospectSqlServer(t)
    <2>1. ModelOf(e, t) = m
        BY <1>2 DEF ModelOf, Others
    <2>2. m.view = t.view /\ m.large = t.large /\ m.pk = KeyRead(e, t) /\ m.fks = t.fks
        BY <1>2 DEF IntrospectSqlServer, TableModel, KeyRead, Others
    <2>3. m.storage = (IF e \in Others THEN "" ELSE t.storage)
        BY <1>2 DEF IntrospectSqlServer, TableModel, MysqlFamily, Others
    <2>4. m.utf8mb4 <=> (e \in Others \/ t.utf8mb4)
        <3>1. m.utf8mb4 <=> TRUE
            BY DEF IntrospectSqlServer, TableModel, MysqlFamily
        <3>2. e \in Others
            BY <1>2 DEF Others
        <3> QED
            BY <3>1, <3>2
    <2>5. m.columns = {ColumnRead(e, c) : c \in t.columns}
        BY <1>2 DEF IntrospectSqlServer, TableModel, ColumnRead, TypeRead, Others
    <2>6. m.indexes = {IndexRead(e, i) : i \in t.indexes}
        BY <1>2 DEF IntrospectSqlServer, TableModel, IndexRead, ColumnsListed, Others
    <2> HIDE DEF m
    <2> QED
        BY <2>1, <2>2, <2>3, <2>4, <2>5, <2>6 DEF ReadAt
<1>3. CASE e = "oracle"
    <2> DEFINE m == IntrospectOracle(t)
    <2>1. ModelOf(e, t) = m
        BY <1>3 DEF ModelOf, Others
    <2>2. m.view = t.view /\ m.large = t.large /\ m.pk = KeyRead(e, t) /\ m.fks = t.fks
        BY <1>3 DEF IntrospectOracle, TableModel, KeyRead, Others
    <2>3. m.storage = (IF e \in Others THEN "" ELSE t.storage)
        BY <1>3 DEF IntrospectOracle, TableModel, MysqlFamily, Others
    <2>4. m.utf8mb4 <=> (e \in Others \/ t.utf8mb4)
        <3>1. m.utf8mb4 <=> TRUE
            BY DEF IntrospectOracle, TableModel, MysqlFamily
        <3>2. e \in Others
            BY <1>3 DEF Others
        <3> QED
            BY <3>1, <3>2
    <2>5. m.columns = {ColumnRead(e, c) : c \in t.columns}
        BY <1>3 DEF IntrospectOracle, TableModel, ColumnRead, TypeRead, Others
    <2>6. m.indexes = {IndexRead(e, i) : i \in t.indexes}
        BY <1>3 DEF IntrospectOracle, TableModel, IndexRead, ColumnsListed, Others
    <2> HIDE DEF m
    <2> QED
        BY <2>1, <2>2, <2>3, <2>4, <2>5, <2>6 DEF ReadAt
<1>4. CASE e \notin Others
    <2> DEFINE m == IntrospectMysql(t)
    <2>1. ModelOf(e, t) = m
        BY <1>4 DEF ModelOf, Others
    <2>2. m.view = t.view /\ m.large = t.large /\ m.pk = KeyRead(e, t) /\ m.fks = t.fks
        BY <1>4 DEF IntrospectMysql, TableModel, KeyRead, Others
    <2>3. m.storage = (IF e \in Others THEN "" ELSE t.storage)
        BY <1>4 DEF IntrospectMysql, TableModel, MysqlFamily, Others
    <2>4. m.utf8mb4 <=> (e \in Others \/ t.utf8mb4)
        <3>1. m.utf8mb4 <=> t.utf8mb4
            BY DEF IntrospectMysql, TableModel, MysqlFamily
        <3>2. e \notin Others
            BY <1>4 DEF Others
        <3> QED
            BY <3>1, <3>2
    <2>5. m.columns = {ColumnRead(e, c) : c \in t.columns}
        BY <1>4 DEF IntrospectMysql, TableModel, ColumnRead, TypeRead, Others
    <2>6. m.indexes = {IndexRead(e, i) : i \in t.indexes}
        BY <1>4 DEF IntrospectMysql, TableModel, IndexRead, ColumnsListed, Others
    <2> HIDE DEF m
    <2> QED
        BY <2>1, <2>2, <2>3, <2>4, <2>5, <2>6 DEF ReadAt
<1> QED
    BY <1>1, <1>2, <1>3, <1>4 DEF Others

LEMMA IntrospectRead ==
    ASSUME NEW e, NEW live
    PROVE  DOMAIN Introspect(e, live) = DOMAIN live /\ \A n \in DOMAIN live : Introspect(e, live)[n] = ModelOf(e, live[n])
BY DEF Introspect, ModelOf

LEMMA TypesRead ==
    ASSUME NEW e
    PROVE  /\ TypeRead(e, "exact") \in Inert /\ TypeRead(e, "flag") \in Inert /\ TypeRead(e, "big") \in Inert
           /\ TypeRead(e, "time") # "int"
<1>1. /\ Native("mysql")["exact"] = "decimal" /\ Native("mysql")["flag"] = "tinyint"
      /\ Native("mysql")["big"] = "bigint" /\ Native("mysql")["time"] = "timestamp"
    BY DEF Native
<1> QED
    BY <1>1, PgTypes, SqlServerTypes, OracleTypes DEF TypeRead, Inert, Kinds

LEMMA ColumnReadFacts ==
    ASSUME NEW e, NEW c
    PROVE  /\ ColumnRead(e, c).name = c.name /\ ColumnRead(e, c).nullable = c.nullable
           /\ ColumnRead(e, c).auto = c.auto /\ ColumnRead(e, c).type = TypeRead(e, c.type)
           /\ ColumnRead(e, c).len = IF c.len > 0 THEN c.len ELSE 999
BY DEF ColumnRead, ColumnModel

\* Tables that are read as better ones.
BetterColumns(e, t, u) ==
    /\ \A d \in u.columns : (\E c \in t.columns : Kin(ColumnRead(e, c), ColumnRead(e, d)))
                            \/ Harmless(ColumnRead(e, d), u)
    /\ \A c \in t.columns : \E d \in u.columns : d.name = c.name
    /\ NoLooser(t.columns, u.columns, u.fks)

LEMMA BetterRead ==
    ASSUME NEW e, NEW t, NEW u, NEW X, NEW Y,
           u.view = t.view, u.large = t.large, BetterColumns(e, t, u),
           KeyRead(e, t) \subseteq KeyRead(e, u),
           \A c \in t.columns : c.name \in KeyRead(e, u) => c.name \in KeyRead(e, t) \cup Y,
           t.fks \subseteq u.fks, u.fks \subseteq t.fks \cup X, t.indexes \subseteq u.indexes,
           u.storage \in {t.storage, "InnoDB"}, t.utf8mb4 => u.utf8mb4,
           KeyRead(e, t) = {} \/ (KeyRead(e, u) = KeyRead(e, t) /\ Autos(u) \in {Autos(t), {}})
    PROVE  Better(ModelOf(e, t), ModelOf(e, u), X, Y)
<1> DEFINE a == ModelOf(e, t)
           b == ModelOf(e, u)
<1>1. ReadAt(e, t, a) /\ ReadAt(e, u, b)
    BY ModelRead
<1> HIDE DEF a, b
<1>2. b.view = a.view /\ b.large = a.large
    BY <1>1 DEF ReadAt
<1>3. ASSUME NEW d \in b.columns PROVE (\E c \in a.columns : Kin(c, d)) \/ Harmless(d, b)
    <2>1. PICK y \in u.columns : d = ColumnRead(e, y)
        BY <1>1 DEF ReadAt
    <2>2. CASE \E c \in t.columns : Kin(ColumnRead(e, c), ColumnRead(e, y))
        BY <1>1, <2>1, <2>2 DEF ReadAt
    <2>3. CASE Harmless(ColumnRead(e, y), u)
        BY <1>1, <2>1, <2>3 DEF ReadAt, Harmless
    <2> QED
        BY <2>2, <2>3 DEF BetterColumns
<1>4. ASSUME NEW c \in a.columns PROVE \E d \in b.columns : d.name = c.name
    <2>1. PICK x \in t.columns : c = ColumnRead(e, x)
        BY <1>1 DEF ReadAt
    <2>2. PICK y \in u.columns : y.name = x.name
        BY DEF BetterColumns
    <2>3. ColumnRead(e, y) \in b.columns
        BY <1>1 DEF ReadAt
    <2>4. ColumnRead(e, x).name = x.name /\ ColumnRead(e, y).name = y.name
        BY ColumnReadFacts
    <2> QED
        BY <2>1, <2>2, <2>3, <2>4
<1>5. a.pk \subseteq b.pk
    BY <1>1 DEF ReadAt
<1>10. ASSUME NEW c \in a.columns, c.name \in b.pk PROVE c.name \in a.pk \cup Y
    <2>1. PICK x \in t.columns : c = ColumnRead(e, x)
        BY <1>1 DEF ReadAt
    <2>2. c.name = x.name
        BY <2>1, ColumnReadFacts
    <2>3. a.pk = KeyRead(e, t) /\ b.pk = KeyRead(e, u)
        BY <1>1 DEF ReadAt
    <2> QED
        BY <1>10, <2>2, <2>3
<1>6. a.fks \subseteq b.fks /\ b.fks \subseteq a.fks \cup X
    BY <1>1 DEF ReadAt
<1>7. a.indexes \subseteq b.indexes
    BY <1>1 DEF ReadAt
<1>8. b.storage \in {a.storage, "InnoDB"} /\ (a.utf8mb4 => b.utf8mb4)
    BY <1>1 DEF ReadAt
<1>11. NoLooser(a.columns, b.columns, b.fks)
    <2> SUFFICES ASSUME NEW d \in b.columns, d.nullable, d.name \in b.fks
                 PROVE  \E c \in a.columns : c.name = d.name /\ c.nullable
        BY DEF NoLooser
    <2>1. PICK y \in u.columns : d = ColumnRead(e, y)
        BY <1>1 DEF ReadAt
    <2>5. ColumnRead(e, y).nullable = y.nullable /\ ColumnRead(e, y).name = y.name
        BY ColumnReadFacts
    <2>6. b.fks = u.fks
        BY <1>1 DEF ReadAt
    <2>7. ColumnRead(e, y).nullable
        BY <2>1, Zenon
    <2>8. y.nullable
        BY <2>5, <2>7, Zenon
    <2>2. y.nullable /\ y.name \in u.fks /\ y.name = d.name
        BY <2>1, <2>5, <2>6, <2>8
    <2>3. PICK x \in t.columns : x.name = y.name /\ x.nullable
        BY <2>2 DEF BetterColumns, NoLooser
    <2>4. ColumnRead(e, x) \in a.columns
        BY <1>1 DEF ReadAt
    <2>9. ColumnRead(e, x).nullable = x.nullable /\ ColumnRead(e, x).name = x.name
        BY ColumnReadFacts
    <2>10. ColumnRead(e, x).nullable
        BY <2>3, <2>9, Zenon
    <2> QED
        BY <2>2, <2>3, <2>4, <2>9, <2>10
<1>12. Autos(a) = Autos(t) /\ Autos(b) = Autos(u)
    <2>1. a.columns = {ColumnRead(e, c) : c \in t.columns} /\ b.columns = {ColumnRead(e, c) : c \in u.columns}
        BY <1>1 DEF ReadAt
    <2>2. \A c : ColumnRead(e, c).name = c.name /\ ColumnRead(e, c).auto = c.auto
        BY ColumnReadFacts
    <2> QED
        BY <2>1, <2>2 DEF Autos
<1>13. a.pk = {} \/ Autos(b) \cap b.pk \in {Autos(a) \cap a.pk, {}}
    <2>1. a.pk = KeyRead(e, t) /\ b.pk = KeyRead(e, u)
        BY <1>1 DEF ReadAt
    <2> QED
        BY <1>12, <2>1
<1>9. Better(a, b, X, Y)
    BY <1>2, <1>3, <1>4, <1>5, <1>6, <1>7, <1>8, <1>10, <1>11, <1>13 DEF Better
<1> QED
    BY <1>9 DEF a, b

LEMMA MoreColumnsBetter ==
    ASSUME NEW e, NEW t, NEW u, NEW N, u.columns = t.columns \cup N,
           \A d \in N : Harmless(ColumnRead(e, d), u)
    PROVE  BetterColumns(e, t, u)
<1>1. \A c : Kin(c, c)
    BY DEF Kin
<1>2. \A d \in N : d.name \notin u.fks
    BY ColumnReadFacts DEF Harmless
<1> QED
    BY <1>1, <1>2 DEF BetterColumns, NoLooser

LEMMA SameColumnsBetter ==
    ASSUME NEW e, NEW t, NEW u, u.columns = t.columns
    PROVE  BetterColumns(e, t, u) /\ Autos(u) = Autos(t)
<1>1. \A c : Kin(c, c)
    BY DEF Kin
<1> QED
    BY <1>1 DEF BetterColumns, NoLooser, Autos

\* What a statement does not name it leaves alone.
LEMMA KeptFields ==
    ASSUME NEW t, WellFormed(t), NEW u, NEW fields, Keeps(t, u, fields)
    PROVE  /\ "view" \notin fields => u.view = t.view
           /\ "storage" \notin fields => u.storage = t.storage
           /\ "utf8mb4" \notin fields => u.utf8mb4 = t.utf8mb4
           /\ "large" \notin fields => u.large = t.large
           /\ "columns" \notin fields => u.columns = t.columns
           /\ "pk" \notin fields => u.pk = t.pk
           /\ "key" \notin fields => u.key = t.key
           /\ "fks" \notin fields => u.fks = t.fks
           /\ "indexes" \notin fields => u.indexes = t.indexes
BY DEF Keeps, WellFormed

LEMMA AddedKeyBetter ==
    ASSUME NEW e, NEW t, WellFormed(t), NEW fix, fix.kind = "addIdPk",
           "id" \notin Names(t), KeyRead(e, t) = {}
    PROVE  Better(ModelOf(e, t), ModelOf(e, Changed(e, t, fix)), {}, {}) /\ KeyRead(e, Changed(e, t, fix)) # {}
<1> DEFINE u == Changed(e, t, fix)
           d == NewColumn("id", "big", TRUE)
<1>0. WithKey(t, u)
    BY KeyAdded
<1>1. /\ Keeps(t, u, {"columns", "pk", "key", "indexes"})
      /\ u.columns = t.columns \cup {d} /\ u.pk = {"id"} /\ u.key = {"id"}
      /\ u.indexes = t.indexes \cup {NewIndex("id", TRUE)}
    BY <1>0 DEF WithKey
<1>2. d.name = "id" /\ d.type = "big"
    BY DEF NewColumn
<1> HIDE DEF u, d
<1>3. /\ u.view = t.view /\ u.large = t.large /\ u.fks = t.fks /\ u.storage = t.storage /\ u.utf8mb4 = t.utf8mb4
      /\ t.indexes \subseteq u.indexes
    <2> DEFINE fields == {"columns", "pk", "key", "indexes"}
    <2>1. \A field \in {"view", "large", "fks", "storage", "utf8mb4"} : field \notin fields
        OBVIOUS
    <2>2. Keeps(t, u, fields)
        BY <1>1
    <2> HIDE DEF fields
    <2> QED
        BY <1>1, <2>1, <2>2, KeptFields
<1>4. KeyRead(e, u) = {"id"}
    BY <1>1 DEF KeyRead
<1>5. Harmless(ColumnRead(e, d), u)
    <2>1. ColumnRead(e, d).name = "id" /\ ColumnRead(e, d).type = TypeRead(e, "big")
        BY <1>2, ColumnReadFacts
    <2>2. "id" \notin u.fks
        BY <1>3 DEF WellFormed
    <2>3. TypeRead(e, "big") # "int"
        BY TypesRead DEF Inert
    <2>4. ~IsRef("id") /\ Class["id"] \cap {"money", "flag", "password", "sensitive", "natural"} = {}
        BY SchemaAuditAssumption DEF IsRef
    <2> QED
        BY <2>1, <2>2, <2>3, <2>4 DEF Harmless
<1>6. BetterColumns(e, t, u)
    BY <1>1, <1>5, MoreColumnsBetter
<1>7. \A c \in t.columns : c.name # "id"
    BY DEF Names
<1>8. Better(ModelOf(e, t), ModelOf(e, u), {}, {})
    BY <1>3, <1>4, <1>6, <1>7, BetterRead
<1> QED
    BY <1>4, <1>8 DEF u

LEMMA ForeignKeyBetter ==
    ASSUME NEW e, NEW t, WellFormed(t), NEW fix, fix.kind = "addForeignKey", fix.column \in Names(t),
           ~MysqlFamily(e) \/ t.storage = "InnoDB"
    PROVE  /\ Better(ModelOf(e, t), ModelOf(e, Changed(e, t, fix)), {fix.column}, {})
           /\ fix.column \in Changed(e, t, fix).fks
<1> DEFINE u == Changed(e, t, fix)
<1>1. WithForeignKey(e, t, u, fix.column)
    BY ForeignKeyAdded
<1> HIDE DEF u
<1>2. Keeps(t, u, {"fks", "indexes"}) /\ u.fks = t.fks \cup {fix.column} /\ t.indexes \subseteq u.indexes
    BY <1>1 DEF WithForeignKey
<1>3. /\ u.view = t.view /\ u.large = t.large /\ u.storage = t.storage /\ u.utf8mb4 = t.utf8mb4
      /\ u.columns = t.columns /\ u.pk = t.pk /\ u.key = t.key
    BY <1>2, KeptFields
<1>4. BetterColumns(e, t, u) /\ Autos(u) = Autos(t)
    BY <1>3, SameColumnsBetter
<1>5. KeyRead(e, u) = KeyRead(e, t)
    BY <1>3 DEF KeyRead
<1>6. Better(ModelOf(e, t), ModelOf(e, u), {fix.column}, {})
    BY <1>2, <1>3, <1>4, <1>5, BetterRead
<1> QED
    BY <1>2, <1>6 DEF u

\* The index added is read as one of the column.
IndexListed(m, column, unique) == \E i \in m.indexes : i.columns = <<column>> /\ (i.unique <=> unique)

LEMMA IndexIsRead ==
    ASSUME NEW e, NEW u, NEW column, NEW unique \in BOOLEAN, NewIndex(column, unique) \in u.indexes
    PROVE  IndexListed(ModelOf(e, u), column, unique)
<1> DEFINE i == NewIndex(column, unique)
<1>1. i.columns = <<column>> /\ i.includes = <<>> /\ i.unique = unique
    BY NewIndexFacts
<1>2. i \in u.indexes
    OBVIOUS
<1> HIDE DEF i
<1>3. ColumnsListed(e, i) = <<column>>
    BY <1>1, NothingAppended DEF ColumnsListed
<1>4. IndexRead(e, i).columns = <<column>> /\ IndexRead(e, i).unique = unique
    BY <1>1, <1>3 DEF IndexRead
<1>5. IndexRead(e, i) \in ModelOf(e, u).indexes
    BY <1>2, ModelRead DEF ReadAt
<1> QED
    BY <1>4, <1>5 DEF IndexListed

LEMMA IndexBetter ==
    ASSUME NEW e, NEW t, WellFormed(t), NEW fix, fix.kind \in {"createIndex", "createUniqueIndex"}
    PROVE  LET u == Changed(e, t, fix)
           IN /\ Better(ModelOf(e, t), ModelOf(e, u), {}, IF KeyRead(e, u) = KeyRead(e, t) THEN {} ELSE {fix.column})
              /\ KeyRead(e, u) # KeyRead(e, t) =>
                    fix.kind = "createUniqueIndex" /\ KeyRead(e, t) = {} /\ KeyRead(e, u) # {}
              /\ IndexListed(ModelOf(e, u), fix.column, fix.kind = "createUniqueIndex")
<1> DEFINE u == Changed(e, t, fix)
           unique == fix.kind = "createUniqueIndex"
<1>1. WithIndex(t, u, fix.column, unique)
    BY IndexAdded
<1> HIDE DEF u, unique
<1>2. /\ Keeps(t, u, {"indexes", "key"}) /\ u.indexes = t.indexes \cup {NewIndex(fix.column, unique)}
      /\ u.key = IF unique /\ t.key = {} /\ fix.column \notin Nullable(t) THEN {fix.column} ELSE t.key
    BY <1>1 DEF WithIndex
<1>3. /\ u.view = t.view /\ u.large = t.large /\ u.storage = t.storage /\ u.utf8mb4 = t.utf8mb4
      /\ u.columns = t.columns /\ u.pk = t.pk /\ u.fks = t.fks
    BY <1>2, KeptFields
<1>4. BetterColumns(e, t, u) /\ Autos(u) = Autos(t)
    BY <1>3, SameColumnsBetter
<1>5. KeyRead(e, u) = KeyRead(e, t) \/ (unique /\ KeyRead(e, t) = {} /\ KeyRead(e, u) = {fix.column})
    BY <1>2, <1>3 DEF KeyRead
<1> DEFINE Y == IF KeyRead(e, u) = KeyRead(e, t) THEN {} ELSE {fix.column}
<1>6. /\ KeyRead(e, t) \subseteq KeyRead(e, u) /\ KeyRead(e, u) \subseteq KeyRead(e, t) \cup Y
      /\ KeyRead(e, t) = {} \/ KeyRead(e, u) = KeyRead(e, t)
    BY <1>5
<1> HIDE DEF Y
<1>7. Better(ModelOf(e, t), ModelOf(e, u), {}, Y)
    BY <1>2, <1>3, <1>4, <1>6, BetterRead
<1>8. PICK v \in BOOLEAN : v = unique
    BY DEF unique
<1>9. IndexListed(ModelOf(e, u), fix.column, unique)
    <2>1. NewIndex(fix.column, v) \in u.indexes
        BY <1>2, <1>8
    <2>2. IndexListed(ModelOf(e, u), fix.column, v)
        BY <2>1, IndexIsRead
    <2> QED
        BY <1>8, <2>2
<1> QED
    BY <1>5, <1>7, <1>9 DEF u, unique, Y

LEMMA TimestampsBetter ==
    ASSUME NEW e, NEW t, WellFormed(t), NEW fix, fix.kind = "addTimestamps",
           Names(t) \cap {"created_at", "updated_at"} = {}
    PROVE  /\ Better(ModelOf(e, t), ModelOf(e, Changed(e, t, fix)), {}, {})
           /\ {"created_at", "updated_at"} \subseteq {Lower[c.name] : c \in ModelOf(e, Changed(e, t, fix)).columns}
<1> DEFINE u == Changed(e, t, fix)
           N == {NewColumn(n, "time", FALSE) : n \in {"created_at", "updated_at"}}
<1>1. WithTimestamps(t, u)
    BY TimestampsAdded
<1> HIDE DEF u
<1>2. Keeps(t, u, {"columns"}) /\ u.columns = t.columns \cup N
    BY <1>1 DEF WithTimestamps
<1>3. /\ u.view = t.view /\ u.large = t.large /\ u.storage = t.storage /\ u.utf8mb4 = t.utf8mb4
      /\ u.pk = t.pk /\ u.key = t.key /\ u.fks = t.fks /\ u.indexes = t.indexes
    BY <1>2, KeptFields
<1>4. KeyRead(e, u) = KeyRead(e, t)
    BY <1>3 DEF KeyRead
<1>5. ASSUME NEW n \in {"created_at", "updated_at"}
      PROVE  /\ Harmless(ColumnRead(e, NewColumn(n, "time", FALSE)), u)
             /\ Lower[ColumnRead(e, NewColumn(n, "time", FALSE)).name] = n
    <2> DEFINE d == NewColumn(n, "time", FALSE)
    <2>1. d.name = n /\ d.type = "time"
        BY DEF NewColumn
    <2> HIDE DEF d
    <2>2. ColumnRead(e, d).name = n /\ ColumnRead(e, d).type = TypeRead(e, "time")
        BY <2>1, ColumnReadFacts
    <2>3. n \notin u.fks
        BY <1>3 DEF WellFormed
    <2>4. TypeRead(e, "time") # "int"
        BY TypesRead
    <2>5. ~IsRef(n) /\ Class[n] \cap {"money", "flag", "password", "sensitive", "natural"} = {} /\ Lower[n] = n
        BY SchemaAuditAssumption DEF IsRef
    <2>6. Harmless(ColumnRead(e, d), u) /\ Lower[ColumnRead(e, d).name] = n
        BY <2>2, <2>3, <2>4, <2>5 DEF Harmless
    <2> QED
        BY <2>6 DEF d
<1>6. BetterColumns(e, t, u)
    <2>1. \A d \in N : Harmless(ColumnRead(e, d), u)
        BY <1>5
    <2> HIDE DEF N
    <2> QED
        BY <1>2, <2>1, MoreColumnsBetter
<1>9. Autos(u) = Autos(t)
    <2>2. \A n : NewColumn(n, "time", FALSE).auto = FALSE
        BY DEF NewColumn
    <2>1. \A d \in N : ~d.auto
        BY <2>2
    <2> HIDE DEF N
    <2> QED
        BY <1>2, <2>1 DEF Autos
<1>7. Better(ModelOf(e, t), ModelOf(e, u), {}, {})
    BY <1>3, <1>4, <1>6, <1>9, BetterRead
<1>8. ASSUME NEW n \in {"created_at", "updated_at"}
      PROVE  n \in {Lower[c.name] : c \in ModelOf(e, u).columns}
    <2> DEFINE d == NewColumn(n, "time", FALSE)
    <2>1. d \in u.columns
        BY <1>2
    <2>4. ModelOf(e, u).columns = {ColumnRead(e, c) : c \in u.columns}
        BY ModelRead DEF ReadAt
    <2>2. ColumnRead(e, d) \in ModelOf(e, u).columns
        BY <2>1, <2>4
    <2>3. Lower[ColumnRead(e, d).name] = n
        BY <1>5
    <2> HIDE DEF d
    <2> QED
        BY <2>2, <2>3
<1> QED
    BY <1>7, <1>8 DEF u

OptionTaken(m, kind) == IF kind = "useInnoDB" THEN m.storage \in {"", "InnoDB"} ELSE m.utf8mb4
LEMMA OptionBetter ==
    ASSUME NEW e, NEW t, WellFormed(t), NEW fix, fix.kind \in {"useInnoDB", "useUtf8mb4"}
    PROVE  /\ Better(ModelOf(e, t), ModelOf(e, Changed(e, t, fix)), {}, {})
           /\ OptionTaken(ModelOf(e, Changed(e, t, fix)), fix.kind)
<1> DEFINE u == Changed(e, t, fix)
<1>1. WithOption(t, u, fix.kind)
    BY OptionChanged
<1> HIDE DEF u
<1>2. /\ fix.kind = "useInnoDB" => Keeps(t, u, {"storage"}) /\ u.storage = "InnoDB"
      /\ fix.kind = "useUtf8mb4" => Keeps(t, u, {"utf8mb4"}) /\ u.utf8mb4 = TRUE
    BY <1>1 DEF WithOption
<1>3. /\ u.view = t.view /\ u.large = t.large /\ u.columns = t.columns
      /\ u.pk = t.pk /\ u.key = t.key /\ u.fks = t.fks /\ u.indexes = t.indexes
      /\ u.storage \in {t.storage, "InnoDB"} /\ (t.utf8mb4 => u.utf8mb4)
    BY <1>2, KeptFields
<1>4. KeyRead(e, u) = KeyRead(e, t)
    BY <1>3 DEF KeyRead
<1>5. BetterColumns(e, t, u) /\ Autos(u) = Autos(t)
    BY <1>3, SameColumnsBetter
<1>6. Better(ModelOf(e, t), ModelOf(e, u), {}, {})
    BY <1>3, <1>4, <1>5, BetterRead
<1> DEFINE b == ModelOf(e, u)
<1>7. ReadAt(e, u, b)
    BY ModelRead
<1> HIDE DEF b
<1>8. OptionTaken(b, fix.kind)
    BY <1>2, <1>7 DEF ReadAt, OptionTaken
<1> QED
    BY <1>6, <1>8 DEF u, b

LEMMA TypeGone ==
    ASSUME NEW e, NEW t, WellFormed(t), NEW fix, fix.kind \in Retypes, NEW u \in Outcomes(e, t, fix)
    PROVE  /\ \A d \in ModelOf(e, u).columns : d.name = fix.column => d.type \in Inert
           /\ \A d \in u.columns : \E c \in t.columns : Kin(ColumnRead(e, c), ColumnRead(e, d))
<1> DEFINE type == TypeGiven(fix.kind)
<1>1. u.columns = {NewType(e, t, c, fix.column, type) : c \in t.columns}
    BY TypeChanged
<1>2. TypeRead(e, type) \in Inert
    BY TypesRead DEF TypeGiven
<1> HIDE DEF type
<1>5. ASSUME NEW c \in t.columns
      PROVE  LET d == NewType(e, t, c, fix.column, type)
             IN /\ d.name = c.name /\ Kin(ColumnRead(e, c), ColumnRead(e, d))
                /\ c.name = fix.column => ColumnRead(e, d).type \in Inert
    <2> DEFINE d == NewType(e, t, c, fix.column, type)
    <2>1. DOMAIN c = {"name", "type", "len", "nullable", "auto"}
        BY DEF WellFormed
    <2>2. d.name = c.name /\ (c.name = fix.column => d.type = type) /\ (c.name # fix.column => d = c)
        BY <2>1, NewTypeFacts
    <2> HIDE DEF d
    <2>3. CASE c.name = fix.column
        <3>1. ColumnRead(e, d).type \in Inert
            BY <1>2, <2>2, <2>3, ColumnReadFacts
        <3> QED
            BY <2>2, <3>1, ColumnReadFacts DEF Kin, d
    <2>4. CASE c.name # fix.column
        BY <2>2, <2>4 DEF Kin, d
    <2> QED
        BY <2>3, <2>4
<1>8. ASSUME NEW d \in ModelOf(e, u).columns, d.name = fix.column PROVE d.type \in Inert
    <2>4. ModelOf(e, u).columns = {ColumnRead(e, c) : c \in u.columns}
        BY ModelRead DEF ReadAt
    <2>1. PICK y \in u.columns : d = ColumnRead(e, y)
        BY <1>8, <2>4
    <2>2. PICK c \in t.columns : y = NewType(e, t, c, fix.column, type)
        BY <1>1
    <2>3. c.name = fix.column
        BY <1>5, <1>8, <2>1, <2>2, ColumnReadFacts
    <2> QED
        BY <1>5, <2>1, <2>2, <2>3
<1> QED
    BY <1>1, <1>5, <1>8

\* MODIFY may take AUTO_INCREMENT from the one column that has it, and gives
\* it to none that had it not.
LEMMA AutosLeft ==
    ASSUME NEW e, NEW t, WellFormed(t), NEW fix, fix.kind \in Retypes, NEW u \in Outcomes(e, t, fix),
           MysqlFamily(e) => OneAuto(t), fix.kind = "widenPkToBigint" => fix.column \in Autos(t)
    PROVE  Autos(u) \in {Autos(t), {}}
<1> DEFINE type == TypeGiven(fix.kind)
<1>1. u.columns = {NewType(e, t, c, fix.column, type) : c \in t.columns}
    BY TypeChanged
<1>2. type = "big" <=> fix.kind = "widenPkToBigint"
    BY DEF TypeGiven, Retypes
<1> HIDE DEF type
<1>3. ASSUME NEW c \in t.columns
      PROVE  LET d == NewType(e, t, c, fix.column, type)
             IN /\ d.name = c.name /\ (c.name # fix.column => d.auto = c.auto)
                /\ c.name = fix.column => d.auto = AutoLeft(e, c, type)
    <2>1. DOMAIN c = {"name", "type", "len", "nullable", "auto"}
        BY DEF WellFormed
    <2> QED
        BY <2>1, NewTypeFacts
<1>4. CASE ~MysqlFamily(e)
    <2>1. \A c \in t.columns : NewType(e, t, c, fix.column, type).name = c.name
                               /\ NewType(e, t, c, fix.column, type).auto = c.auto
        BY <1>3, <1>4 DEF AutoLeft
    <2> QED
        BY <1>1, <2>1 DEF Autos
<1>5. CASE MysqlFamily(e) /\ fix.kind = "widenPkToBigint"
    <2>1. \A c \in t.columns : LET d == NewType(e, t, c, fix.column, type)
                               IN d.name = c.name /\ (c.name = fix.column => d.auto)
                                  /\ (c.name # fix.column => d.auto = c.auto)
        BY <1>2, <1>3, <1>5 DEF AutoLeft
    <2> QED
        BY <1>1, <1>5, <2>1 DEF Autos
<1>6. CASE MysqlFamily(e) /\ fix.kind # "widenPkToBigint"
    <2>1. \A c \in t.columns : LET d == NewType(e, t, c, fix.column, type)
                               IN d.name = c.name /\ (c.name = fix.column => ~d.auto)
                                  /\ (c.name # fix.column => d.auto = c.auto)
        BY <1>2, <1>3, <1>6 DEF AutoLeft
    <2>2. Autos(u) = Autos(t) \ {fix.column}
        BY <1>1, <2>1 DEF Autos
    <2> QED
        BY <1>6, <2>2 DEF OneAuto
<1> QED
    BY <1>4, <1>5, <1>6

LEMMA TypeBetter ==
    ASSUME NEW e, NEW t, WellFormed(t), NEW fix, fix.kind \in Retypes, NEW u \in Outcomes(e, t, fix),
           MysqlFamily(e) => OneAuto(t), fix.kind = "widenPkToBigint" => fix.column \in Autos(t),
           MysqlFamily(e) \/ e = "sqlserver" => fix.column \notin t.fks,
           KeyRead(e, u) = KeyRead(e, t)
    PROVE  Better(ModelOf(e, t), ModelOf(e, u), {}, {})
<1> DEFINE type == TypeGiven(fix.kind)
<1>1. Keeps(t, u, {"columns", "key"}) /\ u.columns = {NewType(e, t, c, fix.column, type) : c \in t.columns}
    BY TypeChanged
<1> HIDE DEF type
<1>3. /\ u.view = t.view /\ u.large = t.large /\ u.storage = t.storage /\ u.utf8mb4 = t.utf8mb4
      /\ u.fks = t.fks /\ u.indexes = t.indexes
    BY <1>1, KeptFields
<1>4. Autos(u) \in {Autos(t), {}}
    BY AutosLeft
<1>5. ASSUME NEW c \in t.columns
      PROVE  LET d == NewType(e, t, c, fix.column, type)
             IN d.name = c.name /\ (d.nullable /\ d.name \in u.fks => c.nullable)
    <2>1. DOMAIN c = {"name", "type", "len", "nullable", "auto"}
        BY DEF WellFormed
    <2> DEFINE d == NewType(e, t, c, fix.column, type)
    <2>2. /\ d.name = c.name /\ (c.name # fix.column => d = c)
          /\ c.name = fix.column => d.nullable = NullLeft(e, t, c, type)
        BY <2>1, NewTypeFacts
    <2> HIDE DEF d
    <2>3. CASE c.name # fix.column
        BY <2>2, <2>3 DEF d
    <2>4. CASE c.name = fix.column /\ (MysqlFamily(e) \/ e = "sqlserver")
        BY <1>3, <2>2, <2>4 DEF d
    <2>5. CASE c.name = fix.column /\ ~MysqlFamily(e) /\ e # "sqlserver"
        <3>1. NullLeft(e, t, c, type) <=> c.nullable
            BY <2>5 DEF NullLeft
        <3>2. d.nullable = NullLeft(e, t, c, type)
            BY <2>2, <2>5
        <3>3. d.nullable => c.nullable
            BY <3>1, <3>2, Zenon
        <3> QED
            BY <2>2, <3>3 DEF d
    <2> QED
        BY <2>3, <2>4, <2>5
<1>6. BetterColumns(e, t, u)
    <2>1. \A d \in u.columns : \E c \in t.columns : Kin(ColumnRead(e, c), ColumnRead(e, d))
        BY TypeGone
    <2>2. \A c \in t.columns : \E d \in u.columns : d.name = c.name
        BY <1>1, <1>5
    <2>3. NoLooser(t.columns, u.columns, u.fks)
        BY <1>1, <1>5 DEF NoLooser
    <2> QED
        BY <2>1, <2>2, <2>3 DEF BetterColumns
<1> QED
    BY <1>3, <1>4, <1>6, BetterRead

-----------------------------------------------------------------------------
(* What each finding says                                                  *)

\* A finding of a rule is one the rule has made.
LEMMA MadeBy ==
    ASSUME NEW m, NEW f \in Findings(m)
    PROVE  /\ f.rule = "no_pk" => f \in NoPk(m)
           /\ f.rule = "implicit_fk" => f \in ImplicitFk(m)
           /\ f.rule = "unindexed_id" => f \in UnindexedId(m)
           /\ f.rule = "no_timestamps" => f \in NoTimestamps(m)
           /\ f.rule = "money_float" => f \in MoneyFloat(m)
           /\ f.rule = "bool_string" => f \in BoolString(m)
           /\ f.rule = "engine" => f \in StorageEngine(m)
           /\ f.rule = "charset" => f \in Charset(m)
           /\ f.rule = "int_pk" => f \in IntPk(m)
           /\ f.rule = "unique_key" => f \in UniqueKey(m)
<1>1. CASE f \in NoPk(m) \cup ImplicitFk(m) \cup UnindexedId(m) \cup NullableFk(m) \cup NoTimestamps(m)
    BY <1>1, RulesOffer DEF Offers
<1>2. CASE f \in MoneyFloat(m) \cup BoolString(m) \cup Naming(m) \cup StorageEngine(m) \cup Charset(m)
    BY <1>2, RulesOffer DEF Offers
<1>3. CASE f \in IntPk(m) \cup PlaintextPw(m) \cup Sensitive(m) \cup UniqueKey(m)
    BY <1>3, RulesOffer DEF Offers
<1> QED
    BY <1>1, <1>2, <1>3 DEF Findings

LEMMA PartsOfFinding ==
    ASSUME NEW rule, NEW severity, NEW n, NEW column, NEW fix
    PROVE  LET f == Finding(rule, severity, n, column, fix)
           IN f.rule = rule /\ f.severity = severity /\ f.table = n /\ f.column = column /\ f.fix = fix
BY DEF Finding
LEMMA PartsOfFix ==
    ASSUME NEW kind, NEW n, NEW column, NEW target
    PROVE  LET fix == Fix(kind, n, column, target)
           IN fix.kind = kind /\ fix.table = n /\ fix.column = column /\ fix # NoFix
BY DEF Fix, NoFix

\* A finding about a table, and one about a column, with a statement.
Says(m, f, severity, kind) ==
    /\ f.severity = severity /\ f.fix.kind = kind /\ f.fix.table = f.table /\ f.table \in DOMAIN m
SaysColumn(m, f, severity, kind) ==
    /\ Says(m, f, severity, kind) /\ f.fix.column = f.column
    /\ \E c \in m[f.table].columns : c.name = f.column

LEMMA TableFindingSays ==
    ASSUME NEW m, NEW n \in DOMAIN m, NEW rule, NEW severity, NEW kind \in FixKinds
    PROVE  LET f == TableFinding(rule, severity, n, kind)
           IN Says(m, f, severity, kind) /\ f.table = n
<1>1. kind # "none"
    BY DEF FixKinds
<1> DEFINE fix == Fix(kind, n, "", "")
           f == TableFinding(rule, severity, n, kind)
<1>2. f = Finding(rule, severity, n, "", fix)
    BY <1>1 DEF TableFinding
<1>3. fix.kind = kind /\ fix.table = n
    BY DEF Fix
<1> HIDE DEF fix, f
<1>4. f.severity = severity /\ f.table = n /\ f.fix = fix
    BY <1>2 DEF Finding
<1>5. Says(m, f, severity, kind) /\ f.table = n
    BY <1>3, <1>4 DEF Says
<1> QED
    BY <1>5 DEF f

LEMMA ColumnFindingSays ==
    ASSUME NEW m, NEW S \in SUBSET DOMAIN m, NEW p \in Places(m, S), NEW rule, NEW severity, NEW kind \in FixKinds
    PROVE  LET f == ColumnFinding(rule, severity, p[1], p[2], kind)
           IN /\ SaysColumn(m, f, severity, kind) /\ f.table = p[1] /\ f.column = p[2].name
              /\ p[1] \in S /\ p[2] \in m[p[1]].columns
<1>1. kind # "none"
    BY DEF FixKinds
<1> DEFINE fix == Fix(kind, p[1], p[2].name, "")
           f == ColumnFinding(rule, severity, p[1], p[2], kind)
<1>2. f = Finding(rule, severity, p[1], p[2].name, fix)
    BY <1>1 DEF ColumnFinding
<1>3. p[1] \in S /\ p[2] \in m[p[1]].columns
    BY DEF Places
<1>4. fix.kind = kind /\ fix.table = p[1] /\ fix.column = p[2].name
    BY DEF Fix
<1> HIDE DEF fix
<1>5. f.severity = severity /\ f.table = p[1] /\ f.column = p[2].name /\ f.fix = fix
    BY <1>2 DEF Finding
<1> HIDE DEF f
<1>6. SaysColumn(m, f, severity, kind)
    BY <1>3, <1>4, <1>5 DEF Says, SaysColumn
<1> QED
    BY <1>3, <1>5, <1>6 DEF f

LEMMA NoPkSays ==
    ASSUME NEW m, NEW f \in NoPk(m)
    PROVE  Says(m, f, "high", "addIdPk") /\ m[f.table].pk = {} /\ ~m[f.table].view
<1>1. PICK n \in BaseTables(m) : f = TableFinding("no_pk", "high", n, "addIdPk") /\ m[n].pk = {}
    BY DEF NoPk
<1> QED
    BY <1>1, TableFindingSays DEF BaseTables, FixKinds

LEMMA ImplicitFkSays ==
    ASSUME NEW m, NEW f \in ImplicitFk(m)
    PROVE  SaysColumn(m, f, "medium", "addForeignKey") /\ f.column \notin m[f.table].fks
<1>1. PICK p \in Places(m, BaseTables(m)) :
        /\ p[2].name \notin m[p[1]].fks
        /\ \E ref : f = Finding("implicit_fk", "medium", p[1], p[2].name, Fix("addForeignKey", p[1], p[2].name, ref))
    BY DEF ImplicitFk
<1>2. PICK ref : f = Finding("implicit_fk", "medium", p[1], p[2].name, Fix("addForeignKey", p[1], p[2].name, ref))
    BY <1>1
<1>3. p[1] \in DOMAIN m /\ p[2] \in m[p[1]].columns
    BY DEF Places, BaseTables
<1> QED
    BY <1>1, <1>2, <1>3, PartsOfFinding, PartsOfFix DEF Says, SaysColumn

LEMMA UnindexedSays ==
    ASSUME NEW m, NEW f \in UnindexedId(m)
    PROVE  SaysColumn(m, f, "medium", "createIndex") /\ ~IndexedFirst(m[f.table], f.column)
<1>1. PICK p \in Places(m, BaseTables(m)) :
        /\ f = ColumnFinding("unindexed_id", "medium", p[1], p[2], "createIndex")
        /\ ~IndexedFirst(m[p[1]], p[2].name)
    BY DEF UnindexedId
<1>2. BaseTables(m) \in SUBSET DOMAIN m /\ "createIndex" \in FixKinds
    BY DEF BaseTables, FixKinds
<1>3. SaysColumn(m, f, "medium", "createIndex") /\ f.table = p[1] /\ f.column = p[2].name
    BY <1>1, <1>2, ColumnFindingSays
<1> QED
    BY <1>1, <1>3

LEMMA TimestampsSay ==
    ASSUME NEW m, NEW f \in NoTimestamps(m)
    PROVE  /\ Says(m, f, "low", "addTimestamps")
           /\ ~({"created_at", "updated_at"} \subseteq {Lower[c.name] : c \in m[f.table].columns})
<1>1. PICK n \in BaseTables(m) :
        /\ f = TableFinding("no_timestamps", "low", n, "addTimestamps")
        /\ \/ {Lower[c.name] : c \in m[n].columns} \cap {"created_at", "created", "createdat"} = {}
           \/ {Lower[c.name] : c \in m[n].columns} \cap {"updated_at", "updated", "updatedat"} = {}
    BY DEF NoTimestamps
<1>2. Says(m, f, "low", "addTimestamps") /\ f.table = n
    BY <1>1, TableFindingSays DEF BaseTables, FixKinds
<1> QED
    BY <1>1, <1>2

LEMMA MistypedSays ==
    ASSUME NEW m, NEW f \in MoneyFloat(m) \cup BoolString(m)
    PROVE  /\ f \in MoneyFloat(m) => SaysColumn(m, f, "medium", "setColumnDecimal")
           /\ f \in BoolString(m) => SaysColumn(m, f, "low", "setColumnBoolean")
           /\ \E c \in m[f.table].columns : c.name = f.column /\ c.type \notin Inert
<1>1. "setColumnDecimal" \in FixKinds /\ "setColumnBoolean" \in FixKinds /\ DOMAIN m \in SUBSET DOMAIN m
    BY DEF FixKinds
<1>2. ASSUME f \in MoneyFloat(m)
      PROVE  SaysColumn(m, f, "medium", "setColumnDecimal") /\ \E c \in m[f.table].columns : c.name = f.column /\ c.type \notin Inert
    <2>1. PICK p \in Places(m, DOMAIN m) :
            /\ f = ColumnFinding("money_float", "medium", p[1], p[2], "setColumnDecimal")
            /\ p[2].type \in {"float", "double"}
        BY <1>2 DEF MoneyFloat, Mistyped
    <2>2. SaysColumn(m, f, "medium", "setColumnDecimal") /\ f.table = p[1] /\ f.column = p[2].name /\ p[2] \in m[p[1]].columns
        BY <1>1, <2>1, ColumnFindingSays
    <2> QED
        BY <2>1, <2>2 DEF Inert
<1>3. ASSUME f \in BoolString(m)
      PROVE  SaysColumn(m, f, "low", "setColumnBoolean") /\ \E c \in m[f.table].columns : c.name = f.column /\ c.type \notin Inert
    <2>1. PICK p \in Places(m, DOMAIN m) :
            /\ f = ColumnFinding("bool_string", "low", p[1], p[2], "setColumnBoolean")
            /\ p[2].type \in {"varchar", "char", "text"}
        BY <1>3 DEF BoolString, Mistyped
    <2>2. SaysColumn(m, f, "low", "setColumnBoolean") /\ f.table = p[1] /\ f.column = p[2].name /\ p[2] \in m[p[1]].columns
        BY <1>1, <2>1, ColumnFindingSays
    <2> QED
        BY <2>1, <2>2 DEF Inert
<1> QED
    BY <1>2, <1>3

LEMMA OptionSays ==
    ASSUME NEW m, NEW f
    PROVE  /\ f \in StorageEngine(m) => Says(m, f, "medium", "useInnoDB") /\ m[f.table].storage \notin {"", "InnoDB"}
           /\ f \in Charset(m) => Says(m, f, "low", "useUtf8mb4") /\ ~m[f.table].utf8mb4
<1>1. "useInnoDB" \in FixKinds /\ "useUtf8mb4" \in FixKinds /\ BaseTables(m) \subseteq DOMAIN m
    BY DEF FixKinds, BaseTables
<1>2. ASSUME f \in StorageEngine(m)
      PROVE  Says(m, f, "medium", "useInnoDB") /\ m[f.table].storage \notin {"", "InnoDB"}
    <2>1. PICK n \in BaseTables(m) : f = TableFinding("engine", "medium", n, "useInnoDB") /\ m[n].storage \notin {"", "InnoDB"}
        BY <1>2 DEF StorageEngine
    <2>2. Says(m, TableFinding("engine", "medium", n, "useInnoDB"), "medium", "useInnoDB")
          /\ TableFinding("engine", "medium", n, "useInnoDB").table = n
        BY <1>1, TableFindingSays
    <2>3. Says(m, f, "medium", "useInnoDB") /\ f.table = n
        BY <2>1, <2>2
    <2> QED
        BY <2>1, <2>3
<1>3. ASSUME f \in Charset(m) PROVE Says(m, f, "low", "useUtf8mb4") /\ ~m[f.table].utf8mb4
    <2>1. PICK n \in BaseTables(m) : f = TableFinding("charset", "low", n, "useUtf8mb4") /\ ~m[n].utf8mb4
        BY <1>3 DEF Charset
    <2>2. Says(m, f, "low", "useUtf8mb4") /\ f.table = n
        BY <1>1, <2>1, TableFindingSays
    <2> QED
        BY <2>1, <2>2
<1> QED
    BY <1>2, <1>3

LEMMA IntPkSays ==
    ASSUME NEW m, NEW f \in IntPk(m)
    PROVE  /\ \E severity \in {"medium", "low"} : SaysColumn(m, f, severity, "widenPkToBigint")
           /\ \E c \in m[f.table].columns : c.name = f.column /\ c.type \notin Inert
           /\ \E c \in m[f.table].columns : c.name = f.column /\ c.auto
<1>1. PICK p \in Places(m, BaseTables(m)) :
        /\ f = ColumnFinding("int_pk", IF m[p[1]].large THEN "medium" ELSE "low", p[1], p[2], "widenPkToBigint")
        /\ p[2].type = "int" /\ p[2].auto
    BY DEF IntPk
<1>2. PICK severity \in {"medium", "low"} : f = ColumnFinding("int_pk", severity, p[1], p[2], "widenPkToBigint")
    BY <1>1
<1>3. BaseTables(m) \in SUBSET DOMAIN m /\ "widenPkToBigint" \in FixKinds
    BY DEF BaseTables, FixKinds
<1>4. /\ SaysColumn(m, f, severity, "widenPkToBigint") /\ f.table = p[1] /\ f.column = p[2].name
      /\ p[2] \in m[p[1]].columns
    BY <1>2, <1>3, ColumnFindingSays
<1> QED
    BY <1>1, <1>4 DEF Inert

LEMMA UniqueKeySays ==
    ASSUME NEW m, NEW f \in UniqueKey(m)
    PROVE  /\ SaysColumn(m, f, "low", "createUniqueIndex") /\ ~m[f.table].view
           /\ ~IndexListed(m[f.table], f.column, TRUE)
<1>1. PICK p \in Places(m, BaseTables(m)) :
        /\ f = ColumnFinding("unique_key", "low", p[1], p[2], "createUniqueIndex")
        /\ ~\E i \in m[p[1]].indexes : i.unique /\ i.columns = <<p[2].name>>
    BY DEF UniqueKey
<1>2. BaseTables(m) \in SUBSET DOMAIN m /\ "createUniqueIndex" \in FixKinds
    BY DEF BaseTables, FixKinds
<1>3. SaysColumn(m, f, "low", "createUniqueIndex") /\ f.table = p[1] /\ f.column = p[2].name /\ p[1] \in BaseTables(m)
    BY <1>1, <1>2, ColumnFindingSays
<1> QED
    BY <1>1, <1>3 DEF IndexListed, BaseTables

LEMMA NoStatement ==
    ASSUME NEW m, NEW f \in NullableFk(m) \cup Naming(m) \cup PlaintextPw(m) \cup Sensitive(m)
    PROVE  f.fix = NoFix
<1>1. ASSUME NEW rule, NEW severity, NEW n
      PROVE  /\ TableFinding(rule, severity, n, "none").fix = NoFix
             /\ \A c : ColumnFinding(rule, severity, n, c, "none").fix = NoFix
    BY DEF TableFinding, ColumnFinding, Finding
<1>2. CASE f \in NullableFk(m)
    <2>1. PICK p : f = ColumnFinding("nullable_fk", "low", p[1], p[2], "none")
        BY <1>2 DEF NullableFk
    <2> QED
        BY <1>1, <2>1
<1>3. CASE f \in Naming(m)
    <2>1. PICK n : f = TableFinding("naming", "medium", n, "none")
        BY <1>3 DEF Naming
    <2> QED
        BY <1>1, <2>1
<1>4. CASE f \in PlaintextPw(m)
    <2>1. PICK p : f = ColumnFinding("plaintext_pw", "high", p[1], p[2], "none")
        BY <1>4 DEF PlaintextPw
    <2> QED
        BY <1>1, <2>1
<1>5. CASE f \in Sensitive(m)
    <2>1. PICK p : f = ColumnFinding("sensitive", "medium", p[1], p[2], "none")
        BY <1>5 DEF Sensitive
    <2> QED
        BY <1>1, <2>1
<1> QED
    BY <1>2, <1>3, <1>4, <1>5

LEMMA WithStatement ==
    ASSUME NEW m, NEW f \in Findings(m), f.fix # NoFix
    PROVE  \/ f \in NoPk(m) \/ f \in ImplicitFk(m) \/ f \in UnindexedId(m) \/ f \in NoTimestamps(m)
           \/ f \in MoneyFloat(m) \/ f \in BoolString(m) \/ f \in StorageEngine(m) \/ f \in Charset(m)
           \/ f \in IntPk(m) \/ f \in UniqueKey(m)
BY NoStatement DEF Findings

LEMMA PartsRead ==
    ASSUME NEW e, NEW t
    PROVE  /\ ModelOf(e, t).pk = KeyRead(e, t) /\ ModelOf(e, t).fks = t.fks
           /\ ModelOf(e, t).columns = {ColumnRead(e, c) : c \in t.columns}
<1>1. ReadAt(e, t, ModelOf(e, t))
    BY ModelRead
<1> QED
    BY <1>1, Zenon DEF ReadAt

\* What is read of a schema is finite.
LEMMA FiniteRead ==
    ASSUME NEW e, NEW live, AllWellFormed(live)
    PROVE  FiniteModel(Introspect(e, live))
<1>1. ASSUME NEW n \in DOMAIN live PROVE IsFiniteSet(Introspect(e, live)[n].columns)
    <2>1. IsFiniteSet(live[n].columns)
        BY DEF AllWellFormed, WellFormed
    <2> DEFINE g == [c \in live[n].columns |-> ColumnRead(e, c)]
    <2>2. Introspect(e, live)[n].columns = {ColumnRead(e, c) : c \in live[n].columns}
        <3>1. Introspect(e, live)[n] = ModelOf(e, live[n])
            BY IntrospectRead
        <3>2. ModelOf(e, live[n]).columns = {ColumnRead(e, c) : c \in live[n].columns}
            BY PartsRead
        <3> QED
            BY <3>1, <3>2
    <2>3. {ColumnRead(e, c) : c \in live[n].columns} = {g[c] : c \in live[n].columns}
        OBVIOUS
    <2>4. g = [c \in live[n].columns |-> g[c]]
        OBVIOUS
    <2> HIDE DEF g
    <2>5. IsFiniteSet({g[c] : c \in live[n].columns})
        BY <2>1, <2>4, Imaged
    <2> QED
        BY <2>2, <2>3, <2>5
<1> QED
    BY <1>1, IntrospectRead DEF FiniteModel, AllWellFormed

\* The schema after a statement that makes its table better.
OnlyTable(live, new, n, u) ==
    DOMAIN new = DOMAIN live /\ \A k \in DOMAIN live : new[k] = IF k = n THEN u ELSE live[k]
LEMMA RunImproves ==
    ASSUME NEW e, NEW live, NEW n \in DOMAIN live, NEW u, NEW new, OnlyTable(live, new, n, u),
           NEW X, NEW Y, Better(ModelOf(e, live[n]), ModelOf(e, u), X, Y)
    PROVE  Improves(Introspect(e, live), Introspect(e, new), n, X, Y)
<1> DEFINE m == Introspect(e, live)
           w == Introspect(e, new)
<1>1. DOMAIN new = DOMAIN live /\ \A k \in DOMAIN live : new[k] = IF k = n THEN u ELSE live[k]
    BY DEF OnlyTable
<1>2. DOMAIN m = DOMAIN live /\ DOMAIN w = DOMAIN live
      /\ \A k \in DOMAIN live : m[k] = ModelOf(e, live[k]) /\ w[k] = ModelOf(e, new[k])
    BY <1>1, IntrospectRead
<1> HIDE DEF m, w
<1>3. ASSUME NEW k \in DOMAIN m PROVE Better(m[k], w[k], OnlyOf(n, k, X), OnlyOf(n, k, Y))
    <2>1. CASE k = n
        BY <1>1, <1>2, <2>1 DEF OnlyOf
    <2>2. CASE k # n
        <3>1. w[k] = m[k] /\ OnlyOf(n, k, X) = {} /\ OnlyOf(n, k, Y) = {}
            BY <1>1, <1>2, <2>2 DEF OnlyOf
        <3> QED
            BY <3>1, StillBetter
    <2> QED
        BY <2>1, <2>2
<1>4. Improves(m, w, n, X, Y)
    BY <1>2, <1>3 DEF Improves
<1> QED
    BY <1>4 DEF m, w

\* With one finding gone, and at most a lighter one come.
LEMMA LessFound ==
    ASSUME NEW m, FiniteModel(m), NEW w, NEW n, NEW X, NEW Y, Improves(m, w, n, X, Y),
           NEW f \in Findings(m), f.severity \in {"high", "medium", "low"}, f \notin Findings(w)
    PROVE  /\ X = {} /\ Y = {} => Penalty(Findings(w)) < Penalty(Findings(m))
           /\ \A x : X = {x} /\ Y = {} /\ f.severity \in {"high", "medium"} => Penalty(Findings(w)) < Penalty(Findings(m))
           /\ \A y : X = {} /\ Y = {y} /\ f.severity = "high" => Penalty(Findings(w)) < Penalty(Findings(m))
<1> DEFINE A == Findings(w)
           B == Findings(m)
<1>1. IsFiniteSet(B)
    BY FiniteFindings
<1>2. A \subseteq B \cup NullableFound(n, X) \cup IntFound(m, n, Y)
    BY BetterFindings
<1>3. f \in B /\ f \notin A
    OBVIOUS
<1> HIDE DEF A, B
<1>4. ASSUME X = {}, Y = {} PROVE Penalty(A) < Penalty(B)
    <2>1. NullableFound(n, X) = {} /\ IntFound(m, n, Y) = {}
        BY <1>4 DEF NullableFound, IntFound
    <2>2. A \subseteq B \ {f}
        BY <1>2, <1>3, <2>1
    <2> QED
        BY <1>1, <1>3, <2>2, PenaltyDrops
<1>5. ASSUME NEW x, X = {x}, Y = {}, f.severity \in {"high", "medium"} PROVE Penalty(A) < Penalty(B)
    <2> DEFINE g == Finding("nullable_fk", "low", n, x, NoFix)
    <2>1. NullableFound(n, X) = {g} /\ IntFound(m, n, Y) = {} /\ g.severity = "low"
        BY <1>5 DEF NullableFound, IntFound, Finding
    <2> HIDE DEF g
    <2>2. A \subseteq (B \ {f}) \cup {g} /\ Heavier(f, g)
        BY <1>2, <1>3, <1>5, <2>1 DEF Heavier
    <2> QED
        BY <1>1, <1>3, <2>2, PenaltyDrops
<1>6. ASSUME NEW y, X = {}, Y = {y}, f.severity = "high" PROVE Penalty(A) < Penalty(B)
    <2> DEFINE g == Finding("int_pk", IF m[n].large THEN "medium" ELSE "low", n, y, Fix("widenPkToBigint", n, y, ""))
    <2>1. NullableFound(n, X) = {} /\ IntFound(m, n, Y) = {g} /\ g.severity \in {"medium", "low"}
        BY <1>6 DEF NullableFound, IntFound, Finding
    <2> HIDE DEF g
    <2>2. A \subseteq (B \ {f}) \cup {g} /\ Heavier(f, g)
        BY <1>2, <1>3, <1>6, <2>1 DEF Heavier
    <2> QED
        BY <1>1, <1>3, <2>2, PenaltyDrops
<1> QED
    BY <1>4, <1>5, <1>6 DEF A, B

-----------------------------------------------------------------------------
(* Each statement helps                                                    *)

Helped(m, w, f) == ~Again(f, Findings(w)) /\ Penalty(Findings(w)) < Penalty(Findings(m))
Heeds(engine, live, f) == f.rule = "implicit_fk" => ~MysqlFamily(engine) \/ live[f.table].storage = "InnoDB"

\* One finding of the rule's gone at its place.
LEMMA GoneHelps ==
    ASSUME NEW m, FiniteModel(m), NEW w, NEW n, Improves(m, w, n, {}, {}),
           NEW f \in Findings(m), f.severity \in {"high", "medium", "low"}, ~Again(f, Findings(w))
    PROVE  Helped(m, w, f)
<1>1. f \notin Findings(w)
    BY DEF Again
<1> QED
    BY <1>1, LessFound DEF Helped

\* What a statement on a table of the schema makes of the model.
Ran(e, live, f, m, w, t, u) ==
    /\ AllWellFormed(live) /\ m = Introspect(e, live)
    /\ f \in Findings(m) /\ f.fix # NoFix /\ Accepted(e, live, f.fix)
    /\ f.fix.table = f.table /\ f.table \in DOMAIN live
    /\ t = live[f.table] /\ Suits(f.fix, t) /\ (MysqlFamily(e) => OneAuto(t))
    /\ u \in Outcomes(e, t, f.fix) /\ \E new : OnlyTable(live, new, f.table, u) /\ w = Introspect(e, new)

\* What the database asks of a statement.
LEMMA AcceptedSays ==
    ASSUME NEW e, NEW live, NEW fix, Accepted(e, live, fix)
    PROVE  LET t == live[fix.table]
           IN /\ fix.kind = "addIdPk" => "id" \notin Names(t) /\ (e # "postgres" => Autos(t) \subseteq {"id"})
              /\ fix.kind = "addTimestamps" => Names(t) \cap {"created_at", "updated_at"} = {}
              /\ fix.kind \in Retypes => Alterable(e, t, fix.column)
              /\ fix.kind = "widenPkToBigint" => (e # "postgres" => Autos(t) \subseteq {fix.column})
<1>1. ASSUME fix.kind = "addIdPk"
      PROVE  "id" \notin Names(live[fix.table]) /\ (e # "postgres" => Autos(live[fix.table]) \subseteq {"id"})
    BY <1>1 DEF Accepted, Retypes
<1>2. ASSUME fix.kind = "addTimestamps" PROVE Names(live[fix.table]) \cap {"created_at", "updated_at"} = {}
    BY <1>2 DEF Accepted, Retypes
<1>3. ASSUME fix.kind \in Retypes
      PROVE  /\ Alterable(e, live[fix.table], fix.column)
             /\ fix.kind = "widenPkToBigint" => (e # "postgres" => Autos(live[fix.table]) \subseteq {fix.column})
    BY <1>3 DEF Accepted, Retypes
<1>4. "widenPkToBigint" \in Retypes
    BY DEF Retypes
<1> QED
    BY <1>1, <1>2, <1>3, <1>4

LEMMA RanFacts ==
    ASSUME NEW e, NEW live, NEW f, NEW m, NEW w, NEW t, NEW u, Ran(e, live, f, m, w, t, u)
    PROVE  /\ WellFormed(t) /\ FiniteModel(m) /\ f \in Findings(m)
           /\ m[f.table] = ModelOf(e, t) /\ w[f.table] = ModelOf(e, u)
           /\ \A X, Y : Better(ModelOf(e, t), ModelOf(e, u), X, Y) => Improves(m, w, f.table, X, Y)
           /\ f.fix.kind \notin Retypes => u = Changed(e, t, f.fix)
<1>1. WellFormed(t)
    BY DEF Ran, AllWellFormed
<1>2. FiniteModel(m)
    BY FiniteRead DEF Ran
<1>3. PICK new : OnlyTable(live, new, f.table, u) /\ w = Introspect(e, new)
    BY DEF Ran
<1>6. m = Introspect(e, live) /\ f.table \in DOMAIN live /\ t = live[f.table]
    BY DEF Ran
<1>7. f.table \in DOMAIN new /\ new[f.table] = u
    BY <1>3, <1>6 DEF OnlyTable
<1>4. m[f.table] = ModelOf(e, t) /\ w[f.table] = ModelOf(e, u)
    BY <1>3, <1>6, <1>7, IntrospectRead
<1>5. ASSUME NEW X, NEW Y, Better(ModelOf(e, t), ModelOf(e, u), X, Y)
      PROVE  Improves(m, w, f.table, X, Y)
    BY <1>3, <1>5, <1>6, RunImproves
<1>8. f.fix.kind \notin Retypes => u = Changed(e, t, f.fix)
    BY OneOutcome DEF Ran
<1> QED
    BY <1>1, <1>2, <1>4, <1>5, <1>8 DEF Ran

\* A rule's finding is made again at the place only if the table deserves it.
LEMMA NoPkHelped ==
    ASSUME NEW e, NEW live, NEW f, NEW m, NEW w, NEW t, NEW u, Ran(e, live, f, m, w, t, u), f \in NoPk(m)
    PROVE  Helped(m, w, f)
<1>1. f.severity = "high" /\ f.fix.kind = "addIdPk" /\ m[f.table].pk = {} /\ f.rule = "no_pk"
    BY NoPkSays, RulesOffer DEF Says, Offers
<1>2. WellFormed(t) /\ FiniteModel(m) /\ m[f.table] = ModelOf(e, t) /\ w[f.table] = ModelOf(e, u) /\ f \in Findings(m)
    BY RanFacts
<1>8. u = Changed(e, t, f.fix)
    BY <1>1, RanFacts DEF Retypes
<1>3. "id" \notin Names(t)
    BY <1>1, AcceptedSays DEF Ran
<1>4. KeyRead(e, t) = {} /\ w[f.table].pk = KeyRead(e, u)
    BY <1>1, <1>2, PartsRead
<1>5. Better(ModelOf(e, t), ModelOf(e, u), {}, {}) /\ KeyRead(e, u) # {}
    BY <1>1, <1>2, <1>3, <1>4, <1>8, AddedKeyBetter
<1>6. Improves(m, w, f.table, {}, {})
    BY <1>5, RanFacts
<1>7. ~Again(f, Findings(w))
    <2> SUFFICES ASSUME NEW g \in Findings(w), g.rule = f.rule, g.table = f.table PROVE FALSE
        BY DEF Again
    <2>1. g \in NoPk(w)
        BY <1>1, MadeBy
    <2>2. w[g.table].pk = {}
        BY <2>1, NoPkSays
    <2> QED
        BY <1>4, <1>5, <2>2
<1> QED
    BY <1>1, <1>2, <1>6, <1>7, GoneHelps

LEMMA ImplicitFkHelped ==
    ASSUME NEW e, NEW live, NEW f, NEW m, NEW w, NEW t, NEW u, Ran(e, live, f, m, w, t, u), f \in ImplicitFk(m),
           Heeds(e, live, f)
    PROVE  Helped(m, w, f)
<1>1. f.severity = "medium" /\ f.fix.kind = "addForeignKey" /\ f.fix.column = f.column /\ f.rule = "implicit_fk"
    BY ImplicitFkSays, RulesOffer DEF Says, SaysColumn, Offers
<1>2. WellFormed(t) /\ FiniteModel(m) /\ m[f.table] = ModelOf(e, t) /\ w[f.table] = ModelOf(e, u) /\ f \in Findings(m)
    BY RanFacts
<1>8. u = Changed(e, t, f.fix)
    BY <1>1, RanFacts DEF Retypes
<1>3. f.fix.column \in Names(t) /\ (~MysqlFamily(e) \/ t.storage = "InnoDB")
    BY <1>1 DEF Ran, Suits, Heeds
<1>4. Better(ModelOf(e, t), ModelOf(e, u), {f.column}, {}) /\ f.column \in u.fks
    BY <1>1, <1>2, <1>3, <1>8, ForeignKeyBetter
<1>5. Improves(m, w, f.table, {f.column}, {}) /\ w[f.table].fks = u.fks
    BY <1>2, <1>4, RanFacts, PartsRead
<1>6. ~Again(f, Findings(w))
    <2> SUFFICES ASSUME NEW g \in Findings(w), g.rule = f.rule, g.table = f.table, g.column = f.column PROVE FALSE
        BY DEF Again
    <2>1. g \in ImplicitFk(w)
        BY <1>1, MadeBy
    <2>2. g.column \notin w[g.table].fks
        BY <2>1, ImplicitFkSays
    <2> QED
        BY <1>4, <1>5, <2>2
<1>7. f \notin Findings(w)
    BY <1>6 DEF Again
<1>9. Penalty(Findings(w)) < Penalty(Findings(m))
    <2>1. PICK X, Y : X = {f.column} /\ Y = {} /\ Improves(m, w, f.table, X, Y)
        BY <1>5
    <2>2. f.severity \in {"high", "medium", "low"} /\ f.severity \in {"high", "medium"}
        BY <1>1
    <2>3. \A x : X = {x} /\ Y = {} /\ f.severity \in {"high", "medium"} => Penalty(Findings(w)) < Penalty(Findings(m))
        BY <1>2, <1>7, <2>1, <2>2, LessFound
    <2> QED
        BY <2>1, <2>2, <2>3
<1> QED
    BY <1>6, <1>9 DEF Helped

LEMMA UnindexedHelped ==
    ASSUME NEW e, NEW live, NEW f, NEW m, NEW w, NEW t, NEW u, Ran(e, live, f, m, w, t, u), f \in UnindexedId(m)
    PROVE  Helped(m, w, f)
<1>1. f.severity = "medium" /\ f.fix.kind = "createIndex" /\ f.fix.column = f.column /\ f.rule = "unindexed_id"
    BY UnindexedSays, RulesOffer DEF Says, SaysColumn, Offers
<1>2. WellFormed(t) /\ FiniteModel(m) /\ w[f.table] = ModelOf(e, u) /\ f \in Findings(m)
    BY RanFacts
<1>3. /\ Better(ModelOf(e, t), ModelOf(e, u), {}, IF KeyRead(e, u) = KeyRead(e, t) THEN {} ELSE {f.fix.column})
      /\ KeyRead(e, u) # KeyRead(e, t) => f.fix.kind = "createUniqueIndex" /\ KeyRead(e, t) = {} /\ KeyRead(e, u) # {}
      /\ IndexListed(ModelOf(e, u), f.fix.column, f.fix.kind = "createUniqueIndex")
    <2>1. f.fix.kind \in {"createIndex", "createUniqueIndex"} /\ u = Changed(e, t, f.fix)
        BY <1>1, RanFacts DEF Retypes
    <2> QED
        BY <1>2, <2>1, IndexBetter
<1>4. Improves(m, w, f.table, {}, {})
    BY <1>1, <1>3, RanFacts
<1>5. IndexedFirst(w[f.table], f.column)
    BY <1>1, <1>2, <1>3 DEF IndexListed, IndexedFirst
<1>6. ~Again(f, Findings(w))
    <2> SUFFICES ASSUME NEW g \in Findings(w), g.rule = f.rule, g.table = f.table, g.column = f.column PROVE FALSE
        BY DEF Again
    <2>1. g \in UnindexedId(w)
        BY <1>1, MadeBy
    <2>2. ~IndexedFirst(w[g.table], g.column)
        BY <2>1, UnindexedSays
    <2> QED
        BY <1>5, <2>2
<1> QED
    BY <1>1, <1>2, <1>4, <1>6, GoneHelps

LEMMA UniqueKeyHelped ==
    ASSUME NEW e, NEW live, NEW f, NEW m, NEW w, NEW t, NEW u, Ran(e, live, f, m, w, t, u), f \in UniqueKey(m)
    PROVE  Helped(m, w, f)
<1>1. /\ f.severity = "low" /\ f.fix.kind = "createUniqueIndex" /\ f.fix.column = f.column /\ f.rule = "unique_key"
      /\ f.table \in DOMAIN m /\ ~m[f.table].view
    <2>1. SaysColumn(m, f, "low", "createUniqueIndex") /\ ~m[f.table].view
        BY UniqueKeySays
    <2>2. f.rule = "unique_key"
        BY RulesOffer DEF Offers
    <2> QED
        BY <2>1, <2>2 DEF Says, SaysColumn
<1>2. WellFormed(t) /\ FiniteModel(m) /\ m[f.table] = ModelOf(e, t) /\ w[f.table] = ModelOf(e, u) /\ f \in Findings(m)
    BY RanFacts
<1>8. u = Changed(e, t, f.fix)
    BY <1>1, RanFacts DEF Retypes
<1>3. /\ Better(ModelOf(e, t), ModelOf(e, u), {}, IF KeyRead(e, u) = KeyRead(e, t) THEN {} ELSE {f.fix.column})
      /\ KeyRead(e, u) # KeyRead(e, t) => KeyRead(e, t) = {} /\ KeyRead(e, u) # {}
      /\ IndexListed(ModelOf(e, u), f.fix.column, f.fix.kind = "createUniqueIndex")
    BY <1>1, <1>2, <1>8, IndexBetter
<1>4. IndexListed(w[f.table], f.column, TRUE)
    BY <1>1, <1>2, <1>3 DEF IndexListed
<1>5. ~Again(f, Findings(w))
    <2> SUFFICES ASSUME NEW g \in Findings(w), g.rule = f.rule, g.table = f.table, g.column = f.column PROVE FALSE
        BY DEF Again
    <2>1. g \in UniqueKey(w)
        BY <1>1, MadeBy
    <2>2. ~IndexListed(w[g.table], g.column, TRUE)
        BY <2>1, UniqueKeySays
    <2> QED
        BY <1>4, <2>2
<1>6. CASE KeyRead(e, u) = KeyRead(e, t)
    <2>1. Improves(m, w, f.table, {}, {})
        BY <1>3, <1>6, RanFacts
    <2> QED
        BY <1>1, <1>2, <1>5, <2>1, GoneHelps
<1>7. CASE KeyRead(e, u) # KeyRead(e, t)
    <2>1. Improves(m, w, f.table, {}, {f.column})
        BY <1>1, <1>3, <1>7, RanFacts
    <2>2. m[f.table].pk = {} /\ w[f.table].pk # {}
        BY <1>2, <1>3, <1>7, PartsRead
    <2> DEFINE g == TableFinding("no_pk", "high", f.table, "addIdPk")
    <2>3. g \in NoPk(m)
        BY <1>1, <2>2 DEF NoPk, BaseTables
    <2>4. g \in Findings(m) /\ g.severity = "high" /\ g.rule = "no_pk"
        BY <2>3, NoPkSays, RulesOffer DEF Findings, Says, Offers
    <2>5. g.table = f.table
        BY DEF TableFinding, Finding
    <2> HIDE DEF g
    <2>6. g \notin Findings(w)
        <3> SUFFICES ASSUME g \in Findings(w) PROVE FALSE
            OBVIOUS
        <3>1. g \in NoPk(w)
            BY <2>4, MadeBy
        <3> QED
            BY <2>2, <2>5, <3>1, NoPkSays
    <2> QED
        BY <1>2, <1>5, <2>1, <2>4, <2>6, LessFound DEF Helped
<1> QED
    BY <1>6, <1>7

LEMMA TimestampsHelped ==
    ASSUME NEW e, NEW live, NEW f, NEW m, NEW w, NEW t, NEW u, Ran(e, live, f, m, w, t, u), f \in NoTimestamps(m)
    PROVE  Helped(m, w, f)
<1>1. f.severity = "low" /\ f.fix.kind = "addTimestamps" /\ f.rule = "no_timestamps"
    BY TimestampsSay, RulesOffer DEF Says, Offers
<1>2. WellFormed(t) /\ FiniteModel(m) /\ w[f.table] = ModelOf(e, u) /\ f \in Findings(m)
    BY RanFacts
<1>8. u = Changed(e, t, f.fix)
    BY <1>1, RanFacts DEF Retypes
<1>3. Names(t) \cap {"created_at", "updated_at"} = {}
    BY <1>1, AcceptedSays DEF Ran
<1>4. /\ Better(ModelOf(e, t), ModelOf(e, u), {}, {})
      /\ {"created_at", "updated_at"} \subseteq {Lower[c.name] : c \in w[f.table].columns}
    BY <1>1, <1>2, <1>3, <1>8, TimestampsBetter
<1>5. Improves(m, w, f.table, {}, {})
    BY <1>4, RanFacts
<1>6. ~Again(f, Findings(w))
    <2> SUFFICES ASSUME NEW g \in Findings(w), g.rule = f.rule, g.table = f.table PROVE FALSE
        BY DEF Again
    <2>1. g \in NoTimestamps(w)
        BY <1>1, MadeBy
    <2>2. ~({"created_at", "updated_at"} \subseteq {Lower[c.name] : c \in w[g.table].columns})
        BY <2>1, TimestampsSay
    <2> QED
        BY <1>4, <2>2
<1> QED
    BY <1>1, <1>2, <1>5, <1>6, GoneHelps

LEMMA TypesHelped ==
    ASSUME NEW e, NEW live, NEW f, NEW m, NEW w, NEW t, NEW u, Ran(e, live, f, m, w, t, u),
           f \in MoneyFloat(m) \cup BoolString(m) \cup IntPk(m)
    PROVE  ~Again(f, Findings(w)) /\ (w[f.table].pk = m[f.table].pk => Helped(m, w, f))
<1>1. /\ f.severity \in {"medium", "low"} /\ f.fix.kind \in Retypes
      /\ f.fix.column = f.column /\ f.rule \in {"money_float", "bool_string", "int_pk"}
    <2>1. CASE f \in MoneyFloat(m)
        BY <2>1, MistypedSays, RulesOffer DEF Says, SaysColumn, Offers, Retypes
    <2>2. CASE f \in BoolString(m)
        BY <2>2, MistypedSays, RulesOffer DEF Says, SaysColumn, Offers, Retypes
    <2>3. CASE f \in IntPk(m)
        BY <2>3, IntPkSays, RulesOffer DEF Says, SaysColumn, Offers, Retypes
    <2> QED
        BY <2>1, <2>2, <2>3
<1>2. /\ WellFormed(t) /\ FiniteModel(m) /\ m[f.table] = ModelOf(e, t) /\ w[f.table] = ModelOf(e, u)
      /\ f \in Findings(m) /\ u \in Outcomes(e, t, f.fix) /\ (MysqlFamily(e) => OneAuto(t))
    <2>1. u \in Outcomes(e, t, f.fix) /\ (MysqlFamily(e) => OneAuto(t))
        BY DEF Ran
    <2> QED
        BY <2>1, RanFacts
<1>3. \A d \in w[f.table].columns : d.name = f.column => d.type \in Inert
    <2>1. WellFormed(t) /\ f.fix.kind \in Retypes /\ u \in Outcomes(e, t, f.fix)
        BY <1>1, <1>2
    <2>2. \A d \in ModelOf(e, u).columns : d.name = f.fix.column => d.type \in Inert
        BY <2>1, TypeGone
    <2>3. w[f.table] = ModelOf(e, u) /\ f.fix.column = f.column
        BY <1>1, <1>2
    <2> QED
        BY <2>2, <2>3, Zenon
<1>5. ~Again(f, Findings(w))
    <2> SUFFICES ASSUME NEW g \in Findings(w), g.rule = f.rule, g.table = f.table, g.column = f.column PROVE FALSE
        BY DEF Again
    <2>1. g \in MoneyFloat(w) \cup BoolString(w) \/ g \in IntPk(w)
        BY <1>1, MadeBy
    <2>2. \E c \in w[g.table].columns : c.name = g.column /\ c.type \notin Inert
        BY <2>1, MistypedSays, IntPkSays
    <2> QED
        BY <1>3, <2>2
<1>6. f.fix.kind = "widenPkToBigint" => f.fix.column \in Autos(t)
    <2> SUFFICES ASSUME f.fix.kind = "widenPkToBigint" PROVE f.fix.column \in Autos(t)
        OBVIOUS
    <2>1. f \in IntPk(m)
        BY MistypedSays DEF SaysColumn, Says
    <2>2. PICK d \in m[f.table].columns : d.name = f.column /\ d.auto
        BY <2>1, IntPkSays
    <2>3. PICK c \in t.columns : d = ColumnRead(e, c)
        BY <1>2, PartsRead
    <2>4. c.name = d.name /\ c.auto = d.auto
        BY <2>3, ColumnReadFacts
    <2>5. c.auto
        BY <2>2, <2>4, Zenon
    <2> QED
        BY <1>1, <2>2, <2>4, <2>5 DEF Autos
<1>7. MysqlFamily(e) \/ e = "sqlserver" => f.fix.column \notin t.fks
    <2>1. Alterable(e, t, f.fix.column)
        BY <1>1, AcceptedSays DEF Ran
    <2> QED
        BY <2>1 DEF Alterable
<1>8. ASSUME w[f.table].pk = m[f.table].pk PROVE Helped(m, w, f)
    <2>1. KeyRead(e, u) = KeyRead(e, t)
        BY <1>2, <1>8, PartsRead
    <2>2. Better(ModelOf(e, t), ModelOf(e, u), {}, {})
        BY <1>1, <1>2, <1>6, <1>7, <2>1, TypeBetter
    <2>3. Improves(m, w, f.table, {}, {})
        BY <2>2, RanFacts
    <2> QED
        BY <1>1, <1>2, <1>5, <2>3, GoneHelps
<1> QED
    BY <1>5, <1>8

LEMMA OptionHelped ==
    ASSUME NEW e, NEW live, NEW f, NEW m, NEW w, NEW t, NEW u, Ran(e, live, f, m, w, t, u),
           f \in StorageEngine(m) \cup Charset(m)
    PROVE  Helped(m, w, f)
<1>1. /\ f.severity \in {"medium", "low"} /\ f.fix.kind \in {"useInnoDB", "useUtf8mb4"}
      /\ \/ f.rule = "engine" /\ f.fix.kind = "useInnoDB"
         \/ f.rule = "charset" /\ f.fix.kind = "useUtf8mb4"
    <2>1. CASE f \in StorageEngine(m)
        BY <2>1, OptionSays, RulesOffer DEF Says, Offers
    <2>2. CASE f \in Charset(m)
        BY <2>2, OptionSays, RulesOffer DEF Says, Offers
    <2> QED
        BY <2>1, <2>2
<1>2. WellFormed(t) /\ FiniteModel(m) /\ w[f.table] = ModelOf(e, u) /\ f \in Findings(m)
    BY RanFacts
<1>8. u = Changed(e, t, f.fix)
    BY <1>1, RanFacts DEF Retypes
<1>3. Better(ModelOf(e, t), ModelOf(e, u), {}, {}) /\ OptionTaken(w[f.table], f.fix.kind)
    BY <1>1, <1>2, <1>8, OptionBetter
<1>4. Improves(m, w, f.table, {}, {})
    BY <1>3, RanFacts
<1>5. ~Again(f, Findings(w))
    <2> SUFFICES ASSUME NEW g \in Findings(w), g.rule = f.rule, g.table = f.table PROVE FALSE
        BY DEF Again
    <2>1. /\ g.rule = "engine" => g \in StorageEngine(w)
          /\ g.rule = "charset" => g \in Charset(w)
        BY MadeBy
    <2>2. /\ g.rule = "engine" => w[g.table].storage \notin {"", "InnoDB"}
          /\ g.rule = "charset" => ~w[g.table].utf8mb4
        BY <2>1, OptionSays
    <2> QED
        BY <1>1, <1>3, <2>2 DEF OptionTaken
<1> QED
    BY <1>1, <1>2, <1>4, <1>5, GoneHelps

\* The table a statement is offered for is one it can be run on.
LEMMA OffersSuit ==
    ASSUME NEW e, NEW live, NEW f \in Findings(Introspect(e, live)), f.fix # NoFix
    PROVE  f.fix.table = f.table /\ f.table \in DOMAIN live /\ Suits(f.fix, live[f.table])
<1> DEFINE m == Introspect(e, live)
<1>1. DOMAIN m = DOMAIN live /\ \A n \in DOMAIN live : m[n] = ModelOf(e, live[n])
    BY IntrospectRead
<1> HIDE DEF m
<1>2. ASSUME NEW severity, NEW kind \in FixKinds \ {"addForeignKey"}, Says(m, f, severity, kind)
      PROVE  f.fix.table = f.table /\ f.table \in DOMAIN live /\ Suits(f.fix, live[f.table])
    BY <1>1, <1>2 DEF Says, Suits
<1>3. {"addIdPk", "createIndex", "createUniqueIndex", "addTimestamps", "setColumnDecimal", "setColumnBoolean",
       "widenPkToBigint", "useInnoDB", "useUtf8mb4"} \subseteq FixKinds \ {"addForeignKey"}
    BY DEF FixKinds
<1>4. CASE f \in ImplicitFk(m)
    <2>1. /\ f.fix.kind = "addForeignKey" /\ f.fix.table = f.table /\ f.table \in DOMAIN m
          /\ \E c \in m[f.table].columns : c.name = f.fix.column
        BY <1>4, ImplicitFkSays DEF Says, SaysColumn
    <2>2. m[f.table].columns = {ColumnRead(e, c) : c \in live[f.table].columns}
        BY <1>1, <2>1, PartsRead
    <2>3. f.fix.column \in Names(live[f.table])
        BY <2>1, <2>2, ColumnReadFacts DEF Names
    <2> QED
        BY <1>1, <2>1, <2>3 DEF Suits, FixKinds
<1>5. CASE f \in NoPk(m) \/ f \in NoTimestamps(m)
    BY <1>2, <1>3, <1>5, NoPkSays, TimestampsSay
<1>6. CASE f \in StorageEngine(m) \/ f \in Charset(m)
    BY <1>2, <1>3, <1>6, OptionSays
<1>7. CASE f \in UnindexedId(m) \/ f \in UniqueKey(m)
    BY <1>2, <1>3, <1>7, UnindexedSays, UniqueKeySays DEF SaysColumn
<1>8. CASE f \in MoneyFloat(m) \/ f \in BoolString(m)
    BY <1>2, <1>3, <1>8, MistypedSays DEF SaysColumn
<1>9. CASE f \in IntPk(m)
    BY <1>2, <1>3, <1>9, IntPkSays DEF SaysColumn
<1> QED
    BY <1>4, <1>5, <1>6, <1>7, <1>8, <1>9, WithStatement DEF m

\* Whatever the rule, the statement it offers helps, but that a column may be
\* changed with the key of its table.
LEMMA StatementHelps ==
    ASSUME NEW e, NEW live, AllWellFormed(live), NEW f \in Findings(Introspect(e, live)),
           f.fix # NoFix, Accepted(e, live, f.fix), Heeds(e, live, f),
           MysqlFamily(e) => \A n \in DOMAIN live : OneAuto(live[n]),
           NEW new \in RunFix(e, live, f.fix)
    PROVE  /\ ~Again(f, Findings(Introspect(e, new)))
           /\ \/ f.fix.kind \in Retypes /\ Introspect(e, new)[f.table].pk # Introspect(e, live)[f.table].pk
              \/ Helped(Introspect(e, live), Introspect(e, new), f)
<1> DEFINE m == Introspect(e, live)
           w == Introspect(e, new)
           t == live[f.table]
<1>5. f.fix.table = f.table /\ f.table \in DOMAIN live /\ Suits(f.fix, t)
    BY OffersSuit
<1>6. PICK u \in Outcomes(e, t, f.fix) : new = [live EXCEPT ![f.table] = u]
    BY <1>5 DEF RunFix
<1>8. OnlyTable(live, new, f.table, u)
    BY <1>6 DEF OnlyTable
<1>1. Ran(e, live, f, m, w, t, u)
    BY <1>5, <1>8 DEF Ran
<1>2. f \in Findings(m) /\ f.fix # NoFix
    OBVIOUS
<1> HIDE DEF m, w, t
<1>3. \/ f \in NoPk(m) \/ f \in ImplicitFk(m) \/ f \in UnindexedId(m) \/ f \in NoTimestamps(m)
      \/ f \in MoneyFloat(m) \/ f \in BoolString(m) \/ f \in StorageEngine(m) \/ f \in Charset(m)
      \/ f \in IntPk(m) \/ f \in UniqueKey(m)
    BY <1>2, WithStatement
<1>4. CASE f \in MoneyFloat(m) \cup BoolString(m) \cup IntPk(m)
    <2>1. ~Again(f, Findings(w)) /\ (w[f.table].pk = m[f.table].pk => Helped(m, w, f))
        BY <1>1, <1>4, TypesHelped
    <2>2. f.fix.kind \in Retypes
        BY <1>4, MistypedSays, IntPkSays DEF Says, SaysColumn, Retypes
    <2> QED
        BY <2>1, <2>2 DEF m, w
<1>7. CASE f \notin MoneyFloat(m) \cup BoolString(m) \cup IntPk(m)
    <2>1. Helped(m, w, f)
        BY <1>1, <1>3, <1>7, NoPkHelped, ImplicitFkHelped, UnindexedHelped, TimestampsHelped, OptionHelped,
            UniqueKeyHelped
    <2> QED
        BY <2>1 DEF Helped, m, w
<1> QED
    BY <1>4, <1>7

\* No statement gives a MySQL table a second auto-increment column.
LEMMA OneAutoKept ==
    ASSUME NEW e, MysqlFamily(e), NEW live, NEW fix, fix.table \in DOMAIN live, Accepted(e, live, fix),
           WellFormed(live[fix.table]), Suits(fix, live[fix.table]), OneAuto(live[fix.table]),
           NEW u \in Outcomes(e, live[fix.table], fix)
    PROVE  OneAuto(u)
<1> DEFINE t == live[fix.table]
<1>0. e # "postgres"
    BY DEF MysqlFamily
<1>1. fix.kind = "addIdPk" => Autos(t) \subseteq {"id"}
    BY <1>0, AcceptedSays
<1>2. fix.kind = "widenPkToBigint" => Autos(t) \subseteq {fix.column}
    BY <1>0, AcceptedSays
<1>3. WellFormed(t) /\ Suits(fix, t) /\ OneAuto(t) /\ u \in Outcomes(e, t, fix)
    OBVIOUS
<1> HIDE DEF t
<1>4. CASE fix.kind = "addIdPk"
    <2>1. u = Changed(e, t, fix)
        BY <1>3, <1>4, OneOutcome DEF Retypes
    <2>2. WithKey(t, u)
        BY <1>3, <1>4, <2>1, KeyAdded
    <2>3. u.columns = t.columns \cup {NewColumn("id", "big", TRUE)}
        BY <2>2 DEF WithKey
    <2>4. NewColumn("id", "big", TRUE).name = "id"
        BY DEF NewColumn
    <2>5. Autos(u) \subseteq {"id"}
        BY <1>1, <1>4, <2>3, <2>4 DEF Autos
    <2> QED
        BY <2>5 DEF OneAuto
<1>5. CASE fix.kind = "addTimestamps"
    <2> DEFINE N == {NewColumn(n, "time", FALSE) : n \in {"created_at", "updated_at"}}
    <2>1. u = Changed(e, t, fix)
        BY <1>3, <1>5, OneOutcome DEF Retypes
    <2>2. u.columns = t.columns \cup N
        BY <1>3, <1>5, <2>1, TimestampsAdded DEF WithTimestamps
    <2>3. \A n : NewColumn(n, "time", FALSE).auto = FALSE
        BY DEF NewColumn
    <2>4. \A d \in N : ~d.auto
        BY <2>3
    <2> HIDE DEF N
    <2>5. Autos(u) = Autos(t)
        BY <2>2, <2>4 DEF Autos
    <2> QED
        BY <1>3, <2>5 DEF OneAuto
<1>6. CASE fix.kind \in Retypes
    <2> DEFINE type == TypeGiven(fix.kind)
    <2>1. u.columns = {NewType(e, t, c, fix.column, type) : c \in t.columns}
        BY <1>3, <1>6, TypeChanged
    <2>2. type = "big" <=> fix.kind = "widenPkToBigint"
        BY <1>6 DEF TypeGiven, Retypes
    <2> HIDE DEF type
    <2>3. ASSUME NEW c \in t.columns
          PROVE  LET d == NewType(e, t, c, fix.column, type)
                 IN d.name = c.name /\ (d.auto => c.auto \/ (fix.kind = "widenPkToBigint" /\ c.name = fix.column))
        <3> DEFINE d == NewType(e, t, c, fix.column, type)
        <3>1. DOMAIN c = {"name", "type", "len", "nullable", "auto"}
            BY <1>3 DEF WellFormed
        <3>2. /\ d.name = c.name /\ (c.name # fix.column => d = c)
              /\ c.name = fix.column => d.auto = AutoLeft(e, c, type)
            BY <3>1, NewTypeFacts
        <3> HIDE DEF d
        <3>3. AutoLeft(e, c, type) = (type = "big")
            BY DEF AutoLeft
        <3>4. d.auto => c.auto \/ (fix.kind = "widenPkToBigint" /\ c.name = fix.column)
            BY <2>2, <3>2, <3>3
        <3> QED
            BY <3>2, <3>4 DEF d
    <2>4. Autos(u) \subseteq Autos(t) \cup (IF fix.kind = "widenPkToBigint" THEN {fix.column} ELSE {})
        BY <2>1, <2>3 DEF Autos
    <2> QED
        BY <1>2, <1>3, <2>4 DEF OneAuto
<1>7. CASE fix.kind \in {"addForeignKey", "createIndex", "createUniqueIndex", "useInnoDB", "useUtf8mb4"}
    <2>1. u = Changed(e, t, fix)
        BY <1>3, <1>7, OneOutcome DEF Retypes
    <2>2. u.columns = t.columns
        BY <1>3, <1>7, <2>1 DEF Changed, WellFormed
    <2> QED
        BY <1>3, <2>2 DEF OneAuto, Autos
<1> QED
    BY <1>3, <1>4, <1>5, <1>6, <1>7 DEF Suits, FixKinds, Retypes

-----------------------------------------------------------------------------
(* The audit                                                               *)

\* A report is that of the schema it was made of, and what it offers can
\* still be run when other statements were run in between.
AuditInv ==
    /\ AllWellFormed(database)
    /\ {"engine", "fixes"} \subseteq DOMAIN visit
    /\ MysqlFamily(visit.engine) => \A n \in DOMAIN database : OneAuto(database[n])
    /\ report.pc = "shown" =>
        /\ report.shown.findings = Findings(Introspect(visit.engine, report.of))
        /\ \A f \in report.shown.findings :
            f.fix # NoFix /\ f.fix.table \in DOMAIN database => Suits(f.fix, database[f.fix.table])

LEMMA AuditStep == AuditInv /\ [ScreenNext]_screenVars => AuditInv'
<1> SUFFICES ASSUME AuditInv, ScreenNext \/ UNCHANGED screenVars PROVE AuditInv'
    OBVIOUS
<1> USE DEF AuditInv
<1>1. CASE UNCHANGED <<visit, database, report>>
    BY <1>1
<1>2. CASE OpenAudit \/ CloseAudit
    BY <1>2 DEF OpenAudit, CloseAudit, NoReport
<1>3. CASE AuditAnswers
    <2>1. database' = database /\ visit' = visit
        BY <1>3 DEF AuditAnswers
    <2>2. CASE report' = [pc |-> "failed"]
        BY <2>1, <2>2
    <2>3. CASE report' # [pc |-> "failed"]
        <3>1. PICK replies :
                report' = [pc |-> "shown", of |-> database, shown |-> Report(visit.engine, database, replies)]
            BY <1>3, <2>3 DEF AuditAnswers
        <3> DEFINE shown == Report(visit.engine, database, replies)
        <3>2. shown.findings = Findings(Introspect(visit.engine, database))
            BY DEF Report
        <3>3. report'.shown = shown /\ report'.of = database
            BY <3>1
        <3> HIDE DEF shown
        <3>4. \A f \in shown.findings :
                f.fix # NoFix /\ f.fix.table \in DOMAIN database => Suits(f.fix, database[f.fix.table])
            BY <3>2, OffersSuit
        <3> QED
            BY <2>1, <3>2, <3>3, <3>4
    <2> QED
        BY <2>2, <2>3
<1>4. CASE RunStatement
    <2>1. PICK f \in report.shown.findings :
            /\ f.fix # NoFix /\ Accepted(visit.engine, database, f.fix)
            /\ database' \in RunFix(visit.engine, database, f.fix)
        BY <1>4 DEF RunStatement
    <2>2. report.pc = "shown" /\ report' = report /\ visit' = [visit EXCEPT !.fixes = @ - 1]
        BY <1>4 DEF RunStatement
    <2>3. DOMAIN visit' = DOMAIN visit /\ visit'.engine = visit.engine
        BY <2>2
    <2>4. f.fix.table \in DOMAIN database => Suits(f.fix, database[f.fix.table])
        BY <2>1, <2>2
    <2>5. /\ AllWellFormed(database') /\ DOMAIN database' = DOMAIN database
          /\ \A n \in DOMAIN database : Names(database[n]) \subseteq Names(database'[n])
        BY <2>1, <2>4, FixRun
    <2>6. ASSUME NEW g \in report.shown.findings, g.fix # NoFix, g.fix.table \in DOMAIN database'
          PROVE  Suits(g.fix, database'[g.fix.table])
        BY <2>2, <2>5, <2>6 DEF Suits
    <2>7. ASSUME MysqlFamily(visit.engine), NEW n \in DOMAIN database PROVE OneAuto(database'[n])
        <3>1. PICK u \in Outcomes(visit.engine, database[f.fix.table], f.fix) :
                \A k \in DOMAIN database : database'[k] = IF k = f.fix.table THEN u ELSE database[k]
            BY <2>1, <2>4, FixRun
        <3>2. CASE n = f.fix.table
            <4>1. WellFormed(database[n])
                BY DEF AllWellFormed
            <4> QED
                BY <2>1, <2>4, <2>7, <3>1, <3>2, <4>1, OneAutoKept
        <3> QED
            BY <2>7, <3>1, <3>2
    <2> QED
        BY <2>2, <2>3, <2>5, <2>6, <2>7
<1>5. CASE ScreenNext /\ ~UNCHANGED <<visit, database, report>>
    <2>1. OpenAudit \/ AuditAnswers \/ CloseAudit \/ RunStatement
        BY <1>5 DEF ScreenNext, ServerStep, Answer, FetchRead, FetchArrives, PressSync, PressTest, PressDelete,
            PressSuggest, AddModule, SaveModule, ConfirmDelete, PickModule, PressGenerate, PressEdit, SaveText,
            CancelText, SelectTable, PressGenerateAll, GenerateNext, AskOnce, Asked
    <2> QED
        BY <1>2, <1>3, <1>4, <2>1
<1> QED
    BY <1>1, <1>5 DEF screenVars

LEMMA AuditStart == ScreenInit => AuditInv
BY ConnectionScreensAssumption, SchemaWellFormed DEF ScreenInit, AuditInv, NoReport

\* The rules say the same of the same schema on every engine that can be
\* audited, whatever statements of a report were run before.
THEOREM FindingsPortable == ScreenSpec => []SameFindings
<1>1. AuditInv => SameFindings
    <2> SUFFICES ASSUME AuditInv,
                        \A n \in DOMAIN database : database[n].key = database[n].pk
                                                  /\ \A i \in database[n].indexes : i.includes = <<>>
                 PROVE  /\ \A e \in Engines :
                            Portable(Findings(Introspect(e, database))) = Portable(Findings(Introspect("mysql", database)))
                        /\ \A e \in {"postgres", "sqlserver"} :
                            {f \in Findings(Introspect(e, database)) : f.rule = "int_pk"}
                            = {f \in Findings(Introspect("mysql", database)) : f.rule = "int_pk"}
        BY DEF SameFindings
    <2>1. /\ \A e \in Engines : Alike(Introspect(e, database), Introspect("mysql", database), FALSE)
          /\ \A e \in {"postgres", "sqlserver"} : Alike(Introspect(e, database), Introspect("mysql", database), TRUE)
        BY ModelsAlike DEF AuditInv, Plain
    <2> QED
        BY <2>1, FindingsAlike
<1> QED
    BY <1>1, AuditStart, AuditStep, PTL DEF ScreenSpec

\* Whatever the schema and the engine: a statement offered with a finding,
\* run on the database the report is about and accepted by it, does away with
\* the finding and lowers the penalty of what is found afterwards.  But for a
\* foreign key on a MySQL table that is not InnoDB, which is ignored, and, as
\* to the penalty, for a change of a column's type after which MySQL shows
\* another key of the table.
THEOREM StatementsHelp == ScreenSpec => []FixesHelp
<1>1. AuditInv => FixesHelp
    <2> SUFFICES ASSUME AuditInv, report.pc = "shown", report.of = database,
                        NEW f \in report.shown.findings, f.fix # NoFix,
                        Accepted(visit.engine, database, f.fix), Heeded(f),
                        NEW new \in RunFix(visit.engine, database, f.fix)
                 PROVE  LET after == Findings(Introspect(visit.engine, new))
                        IN /\ ~Again(f, after)
                           /\ KeyMoves(f, new) \/ Penalty(after) < Penalty(report.shown.findings)
        BY DEF FixesHelp
    <2>1. /\ AllWellFormed(database)
          /\ report.shown.findings = Findings(Introspect(visit.engine, database))
          /\ MysqlFamily(visit.engine) => \A n \in DOMAIN database : OneAuto(database[n])
        BY DEF AuditInv
    <2>2. Heeds(visit.engine, database, f)
        BY DEF Heeded, Heeds
    <2> DEFINE m == Introspect(visit.engine, database)
               w == Introspect(visit.engine, new)
    <2>3. /\ ~Again(f, Findings(w))
          /\ (f.fix.kind \in Retypes /\ w[f.table].pk # m[f.table].pk) \/ Helped(m, w, f)
        BY <2>1, <2>2, StatementHelps
    <2>4. KeyMoves(f, new) <=> f.fix.kind \in Retypes /\ w[f.table].pk # m[f.table].pk
        BY DEF KeyMoves
    <2>5. report.shown.findings = Findings(m)
        BY <2>1
    <2> HIDE DEF m
    <2> QED
        BY <2>3, <2>4, <2>5 DEF Helped
<1> QED
    BY <1>1, AuditStart, AuditStep, PTL DEF ScreenSpec
=============================================================================
