------------------------------ MODULE PoolCache ------------------------------
(***************************************************************************)
(* The pool cache of apps/api/src/common/db/mysql-pool.ts: MySQL and       *)
(* Postgres pools (and the SSH tunnels under them) shared between HTTP     *)
(* requests, counted by holders and evicted by an idle timer.              *)
(*                                                                         *)
(* An entry is one run of the factory, named by an element of Entries.  A  *)
(* name is free again once its entry is garbage, so Entries bounds only    *)
(* how many pools exist at a time.  A request is a slot that acquires,     *)
(* uses and releases one pool at a time, over and over.                    *)
(*                                                                         *)
(* Node runs to completion: the code between two awaits is one step, and   *)
(* the continuation of an await on a settled promise is a microtask, which *)
(* runs before any timer callback.                                         *)
(***************************************************************************)
EXTENDS Naturals, FiniteSets

CONSTANTS
    Requests,      \* request slots of the API process
    Keys,          \* connection identities, the values of poolKey()
    SshKeys,       \* the identities reached through an SSH tunnel
    Entries,       \* names for CachedPool objects
    NoEntry,       \* a key that is not in POOL_CACHE, a request without a pool
    LeakyRequests  \* requests of handlers that can throw between acquiring a
                   \* pool and entering the try whose finally calls cleanup()

ASSUME PoolCacheAssumption ==
    /\ IsFiniteSet(Requests)
    /\ SshKeys \subseteq Keys
    /\ LeakyRequests \subseteq Requests
    /\ NoEntry \notin Entries

VARIABLES
    cache,     \* POOL_CACHE
    keyOf,     \* the key an entry is created for (kept in its closure)
    phase,     \* the life of an entry's pool
    tunnel,    \* the life of an entry's SSH tunnel
    inFlight,  \* CachedPool.inFlight
    timers,    \* scheduled idle callbacks of an entry
    pc,        \* where a request is in acquireCachedPool and its use
    entry      \* the entry a request awaits or holds

vars == <<cache, keyOf, phase, tunnel, inFlight, timers, pc, entry>>

Phases == {"unused", "pending", "open", "failed", "closing", "ended"}
TunnelStates == {"none", "open", "closed"}
RequestStates == {"idle", "awaiting", "holding", "leaked"}

TypeOK ==
    /\ cache \in [Keys -> Entries \cup {NoEntry}]
    /\ keyOf \in [Entries -> Keys]
    /\ phase \in [Entries -> Phases]
    /\ tunnel \in [Entries -> TunnelStates]
    /\ inFlight \in [Entries -> Nat]
    /\ timers \in [Entries -> Nat]
    /\ pc \in [Requests -> RequestStates]
    /\ entry \in [Requests -> Entries \cup {NoEntry}]

Init ==
    /\ cache = [k \in Keys |-> NoEntry]
    /\ keyOf \in [Entries -> Keys]
    /\ phase = [e \in Entries |-> "unused"]
    /\ tunnel = [e \in Entries |-> "none"]
    /\ inFlight = [e \in Entries |-> 0]
    /\ timers = [e \in Entries |-> 0]
    /\ pc = [r \in Requests |-> "idle"]
    /\ entry = [r \in Requests |-> NoEntry]

-----------------------------------------------------------------------------
Settled(e) == phase[e] # "pending"
Awaiters(e) == {r \in Requests : pc[r] = "awaiting" /\ entry[r] = e}
Holders(e) == {r \in Requests : pc[r] = "holding" /\ entry[r] = e}

\* Those who have incremented inFlight and not decremented it.
Counted(e) == {r \in Requests : pc[r] \in {"holding", "leaked"} /\ entry[r] = e}

\* A settled promise has continuations to run: no timer callback runs yet.
MicrotasksPending == \E e \in Entries : Settled(e) /\ Awaiters(e) # {}

\* Nothing refers to the entry any more: its name can stand for a new one.
Garbage(e) ==
    \/ phase[e] = "unused"
    \/ phase[e] = "failed" /\ Awaiters(e) = {}
    \/ phase[e] = "ended" /\ tunnel[e] # "open"

-----------------------------------------------------------------------------
(* acquireCachedPool                                                       *)

\* The key is cached, settled or not: await the stored promise.
AcquireCached(r, k) ==
    /\ pc[r] = "idle"
    /\ cache[k] # NoEntry
    /\ pc' = [pc EXCEPT ![r] = "awaiting"]
    /\ entry' = [entry EXCEPT ![r] = cache[k]]
    /\ UNCHANGED <<cache, keyOf, phase, tunnel, inFlight, timers>>

\* Mutant: the promise is not stored before the first await.
AcquireNewUnstored(r, k) ==
    /\ pc[r] = "idle"
    /\ cache[k] = NoEntry
    /\ \E e \in Entries :
        /\ Garbage(e)
        /\ keyOf' = [keyOf EXCEPT ![e] = k]
        /\ tunnel' = [tunnel EXCEPT ![e] = "none"]
        /\ phase' = [phase EXCEPT ![e] = "pending"]
        /\ entry' = [entry EXCEPT ![r] = e]
    /\ pc' = [pc EXCEPT ![r] = "awaiting"]
    /\ UNCHANGED <<cache, inFlight, timers>>

\* The key is not cached: start the factory and store its promise at once.
AcquireNew(r, k) ==
    /\ pc[r] = "idle"
    /\ cache[k] = NoEntry
    /\ \E e \in Entries :
        /\ Garbage(e)
        /\ keyOf' = [keyOf EXCEPT ![e] = k]
        /\ tunnel' = [tunnel EXCEPT ![e] = "none"]
        /\ cache' = [cache EXCEPT ![k] = e]
        /\ phase' = [phase EXCEPT ![e] = "pending"]
        /\ entry' = [entry EXCEPT ![r] = e]
    /\ pc' = [pc EXCEPT ![r] = "awaiting"]
    /\ UNCHANGED <<inFlight, timers>>

\* A resumed caller holds its entry, counted and timed as given.
ResumeWith(r, count, scheduled) ==
    LET e == entry[r] IN
    /\ pc[r] = "awaiting"
    /\ phase[e] \notin {"pending", "failed"}
    /\ pc' = [pc EXCEPT ![r] = "holding"]
    /\ inFlight' = [inFlight EXCEPT ![e] = count]
    /\ timers' = [timers EXCEPT ![e] = scheduled]
    /\ UNCHANGED <<cache, keyOf, phase, tunnel, entry>>

\* Mutants: the holder is not counted; its idle timer keeps running.
ResumeUncounted(r) ==
    LET e == entry[r] IN ResumeWith(r, inFlight[e], IF timers[e] > 0 THEN timers[e] - 1 ELSE 0)
ResumeTimerLeft(r) == ResumeWith(r, inFlight[entry[r]] + 1, timers[entry[r]])

\* The awaited entry resolved: count this holder and cancel the idle timer.
\* Nothing here looks at whether the pool is still open.
Resume(r) ==
    LET e == entry[r] IN
    ResumeWith(r, inFlight[e] + 1, IF timers[e] > 0 THEN timers[e] - 1 ELSE 0)

\* Mutant: the creation is tried again instead of passing the error on.
RejectRetries(r) ==
    /\ pc[r] = "awaiting"
    /\ phase[entry[r]] = "failed"
    /\ phase' = [phase EXCEPT ![entry[r]] = "pending"]
    /\ UNCHANGED <<cache, keyOf, tunnel, inFlight, timers, pc, entry>>

\* The awaited entry was rejected: the error reaches the request.
Reject(r) ==
    /\ pc[r] = "awaiting"
    /\ phase[entry[r]] = "failed"
    /\ pc' = [pc EXCEPT ![r] = "idle"]
    /\ entry' = [entry EXCEPT ![r] = NoEntry]
    /\ UNCHANGED <<cache, keyOf, phase, tunnel, inFlight, timers>>

-----------------------------------------------------------------------------
(* The factory: an SSH tunnel when configured, then the pool               *)

OpenTunnel(e) ==
    /\ phase[e] = "pending"
    /\ keyOf[e] \in SshKeys
    /\ tunnel[e] = "none"
    /\ tunnel' = [tunnel EXCEPT ![e] = "open"]
    /\ UNCHANGED <<cache, keyOf, phase, inFlight, timers, pc, entry>>

\* The tunnel cannot be opened: the promise is rejected and its first
\* handler drops the entry from the cache, if it is still there.
CreationFails(e) ==
    /\ phase[e] = "pending"
    /\ keyOf[e] \in SshKeys
    /\ tunnel[e] = "none"
    /\ phase' = [phase EXCEPT ![e] = "failed"]
    /\ cache' = [cache EXCEPT ![keyOf[e]] = IF @ = e THEN NoEntry ELSE @]
    /\ UNCHANGED <<keyOf, tunnel, inFlight, timers, pc, entry>>

\* mysql.createPool / new PgPool: synchronous, no connection is made yet.
CreatePool(e) ==
    /\ phase[e] = "pending"
    /\ keyOf[e] \in SshKeys => tunnel[e] = "open"
    /\ phase' = [phase EXCEPT ![e] = "open"]
    /\ UNCHANGED <<cache, keyOf, tunnel, inFlight, timers, pc, entry>>

-----------------------------------------------------------------------------
(* Release and eviction                                                    *)

\* A holder lets go of its entry; left holders are counted after it.
Release(r, left, armed) ==
    LET e == entry[r] IN
    /\ pc[r] = "holding"
    /\ pc' = [pc EXCEPT ![r] = "idle"]
    /\ entry' = [entry EXCEPT ![r] = NoEntry]
    /\ inFlight' = [inFlight EXCEPT ![e] = left]
    /\ timers' = [timers EXCEPT ![e] = IF armed THEN @ + 1 ELSE @]
    /\ UNCHANGED <<cache, keyOf, phase, tunnel>>

Left(r) == IF inFlight[entry[r]] > 0 THEN inFlight[entry[r]] - 1 ELSE 0

\* Mutant: the count is reset.
CleanupResets(r) == Release(r, 0, TRUE)


\* cleanup(): release once, arm the idle timer when the last holder leaves.
Cleanup(r) == Release(r, Left(r), Left(r) = 0)

\* A handler throws before its try block: it stops using the pool and nobody
\* calls cleanup().  The slot stays "leaked" to remember the missing release.
ThrowBeforeTry(r) ==
    /\ r \in LeakyRequests
    /\ pc[r] = "holding"
    /\ pc' = [pc EXCEPT ![r] = "leaked"]
    /\ UNCHANGED <<cache, keyOf, phase, tunnel, inFlight, timers, entry>>

\* The idle callback: evict the entry and start closing its pool, unless a
\* holder came back.
IdleTimerFires(e) ==
    /\ timers[e] > 0
    /\ ~MicrotasksPending
    /\ timers' = [timers EXCEPT ![e] = @ - 1]
    /\ IF inFlight[e] > 0
       THEN UNCHANGED <<cache, phase>>
       ELSE /\ cache' = [cache EXCEPT ![keyOf[e]] = IF @ = e THEN NoEntry ELSE @]
            /\ phase' = [phase EXCEPT ![e] = "closing"]
    /\ UNCHANGED <<keyOf, tunnel, inFlight, pc, entry>>

\* Mutant: an error of pool.end() skips the rest of the teardown.
PoolEndThrows(e) ==
    /\ phase[e] = "closing"
    /\ phase' = [phase EXCEPT ![e] = "failed"]
    /\ UNCHANGED <<cache, keyOf, tunnel, inFlight, timers, pc, entry>>

\* closeUnderlying: pool.end() settles (an error is swallowed) ...
PoolEnds(e) ==
    /\ phase[e] = "closing"
    /\ phase' = [phase EXCEPT ![e] = "ended"]
    /\ UNCHANGED <<cache, keyOf, tunnel, inFlight, timers, pc, entry>>

\* ... and only then is the tunnel closed.
CloseTunnel(e) ==
    /\ phase[e] = "ended"
    /\ tunnel[e] = "open"
    /\ tunnel' = [tunnel EXCEPT ![e] = "closed"]
    /\ UNCHANGED <<cache, keyOf, phase, inFlight, timers, pc, entry>>

-----------------------------------------------------------------------------
RequestStep(r) ==
    \/ \E k \in Keys : AcquireCached(r, k) \/ AcquireNew(r, k)
    \/ Resume(r)
    \/ Reject(r)
    \/ Cleanup(r)
    \/ ThrowBeforeTry(r)

EntryStep(e) ==
    \/ OpenTunnel(e)
    \/ CreationFails(e)
    \/ CreatePool(e)
    \/ IdleTimerFires(e)
    \/ PoolEnds(e)
    \/ CloseTunnel(e)

Next ==
    \/ \E r \in Requests : RequestStep(r)
    \/ \E e \in Entries : EntryStep(e)

Spec == Init /\ [][Next]_vars

\* A timer that stays scheduled fires, though other requests' microtasks run
\* first again and again.
TimerFairness(e) == <>[](timers[e] > 0) => []<><<IdleTimerFires(e)>>_vars

\* The event loop runs microtasks and due timers, an SSH handshake settles
\* within readyTimeout, pool.end() and server.close() settle.  Nothing is
\* assumed of the requests: they may hold a pool forever.
Fairness ==
    /\ \A r \in Requests : WF_vars(Resume(r)) /\ WF_vars(Reject(r))
    /\ \A e \in Entries :
        /\ WF_vars(OpenTunnel(e) \/ CreationFails(e))
        /\ WF_vars(CreatePool(e))
        /\ TimerFairness(e)
        /\ WF_vars(PoolEnds(e))
        /\ WF_vars(CloseTunnel(e))

FairSpec == Spec /\ Fairness

-----------------------------------------------------------------------------
(* The abstract lease: a pool is live once created and until it is evicted, *)
(* and its users are the requests that hold it.                             *)

LeaseOf(e) ==
    CASE phase[e] = "open" -> "live"
      [] phase[e] \in {"closing", "ended"} -> "gone"
      [] OTHER -> "absent"

leaseBar == [e \in Entries |-> LeaseOf(e)]
usersBar == [e \in Entries |-> Holders(e)]

Lease == INSTANCE PoolLease WITH
    serves <- keyOf, lease <- leaseBar, users <- usersBar

-----------------------------------------------------------------------------
(* Properties                                                              *)

\* A request that uses a pool uses an open one, and the tunnel under it is
\* up: neither the idle timer nor the teardown order can cut a holder off
\* (acquireCachedPool's "closed only after POOL_IDLE_TTL_MS with zero
\* in-flight holders").
HeldPoolIsOpen ==
    \A r \in Requests : pc[r] = "holding" =>
        /\ phase[entry[r]] = "open"
        /\ keyOf[entry[r]] \in SshKeys => tunnel[entry[r]] = "open"

\* The reference count is the number of acquisitions not yet released, so it
\* never drifts, in either direction, whatever the interleaving.
RefCountExact == \A e \in Entries : inFlight[e] = Cardinality(Counted(e))

\* Concurrent callers share one pool per connection identity: two live
\* entries never serve the same key, even across failures and evictions.
OneLivePoolPerKey ==
    \A d, e \in Entries :
        /\ phase[d] \in {"pending", "open"}
        /\ phase[e] \in {"pending", "open"}
        /\ keyOf[d] = keyOf[e]
        => d = e

\* What the cache hands out can still be used: a rejected creation is gone
\* before anyone asks again, and an evicted pool is never found.
CachedEntryUsable ==
    \A k \in Keys : cache[k] # NoEntry =>
        phase[cache[k]] \in {"pending", "open"} /\ keyOf[cache[k]] = k

\* An open pool is wanted by someone or has exactly one timer that will
\* evict it; a counted pool has none.
IdleMeansTimer ==
    \A e \in Entries :
        /\ timers[e] <= 1
        /\ timers[e] = 1 => phase[e] = "open" /\ Counted(e) = {}
        /\ phase[e] = "open" /\ Counted(e) = {} /\ Awaiters(e) = {} => timers[e] = 1

\* What concurrent callers find in the cache is shared, usable, counted
\* exactly and, once nobody uses it, about to be evicted.
CacheSound == OneLivePoolPerKey /\ CachedEntryUsable /\ RefCountExact /\ IdleMeansTimer

\* A pool nobody uses does not stay open for ever ("keep them warm, evicting
\* after an idle period"), unless a handler that threw before its try block
\* is counted for ever.
IdlePoolEventuallyEvicted ==
    \A e \in Entries :
        []<>(phase[e] # "open" \/ Counted(e) # {} \/ Awaiters(e) # {})

\* Every caller of acquireCachedPool gets a pool or an error, also the ones
\* that joined a creation another caller started.
AcquireSettles ==
    \A r \in Requests : pc[r] = "awaiting" ~> pc[r] # "awaiting"

\* The tunnel of a pool that was closed is closed too.
TunnelFollowsPool ==
    \A e \in Entries : phase[e] = "closing" ~> phase[e] = "ended" /\ tunnel[e] # "open"

\* Pools that are not used any more are closed, with what is under them.
PoolsWindDown == IdlePoolEventuallyEvicted /\ TunnelFollowsPool

\* Every step of the cache is a step of the lease or leaves it unchanged: no
\* pool is closed under a user, reopened, or opened twice for one key.
ImplementsLease == Lease!Spec
=============================================================================
