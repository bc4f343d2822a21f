----------------------------- MODULE SlotLedger -----------------------------
(***************************************************************************)
(* What the pooled path promises, whatever its stage: where each slot is,  *)
(* who may move it and where to.  Lists, caches and batches are sets here. *)
(* Their order, and the words that hold them together, are those of        *)
(* ThreadCaches, which implements this.                                    *)
(*                                                                         *)
(* A thread takes from and adds to its own caches and the batch in its own *)
(* hand, to the list of a pool, and to what callers hold; never to what    *)
(* another thread has.                                                     *)
(***************************************************************************)
EXTENDS Integers, FiniteSets

CONSTANTS Threads,
          Pools,
          NoPool,
          Regions,   \* what the OS may give: each the set of slots it has room for
          kThreadLocalCacheBatchSize

ASSUME NoPoolAssumption == NoPool \notin Pools
ASSUME RegionsAssumption == IsFiniteSet(UNION Regions)
ASSUME LedgerBatchAssumption == kThreadLocalCacheBatchSize \in Nat \ {0}

VARIABLES home,    \* the pool that carved a slot
          lists,   \* each pool's free list
          caches,  \* each thread's cache for each pool
          hand,    \* a batch on its way to its thread's cache, or from there
          held,    \* what callers have, by the pool that its header names
          lost     \* what was in the caches of threads that have ended

vars == <<home, lists, caches, hand, held, lost>>

Slots == UNION Regions

kThreadLocalCacheCap == 2 * kThreadLocalCacheBatchSize

Empty == [what |-> "idle", pool |-> NoPool, slots |-> {}]
NoCaches == [p \in Pools |-> {}]

Init ==
  /\ home = [s \in Slots |-> NoPool]
  /\ lists = [p \in Pools |-> {}]
  /\ caches = [t \in Threads |-> NoCaches]
  /\ hand = [t \in Threads |-> Empty]
  /\ held = [p \in Pools |-> {}]
  /\ lost = {}

Idle(t) == hand[t].what = "idle"

Fresh == {r \in Regions : \A s \in r : home[s] = NoPool}

\* What one pool may gain in one go: nothing, or all the slots of a region or
\* more.
Gains == {UNION R : R \in SUBSET Fresh}

\* p has expanded, or not: the slots of new are its own from now on.
Expanded(p, new) ==
  home' = [s \in Slots |-> IF s \in new THEN p ELSE home[s]]

-----------------------------------------------------------------------------
(* Pool::allocate() and Pool::deallocate() for a caller.                   *)

PooledMalloc(p) ==
  /\ UNCHANGED <<caches, hand, lost>>
  /\ \E new \in Gains :
       /\ Expanded(p, new)
       /\ \E s \in lists[p] \cup new :
            /\ lists' = [lists EXCEPT ![p] = (@ \cup new) \ {s}]
            /\ held' = [held EXCEPT ![p] = @ \cup {s}]

PooledFree(p, s) ==
  /\ s \in held[p]
  /\ lists' = [lists EXCEPT ![p] = @ \cup {s}]
  /\ held' = [held EXCEPT ![p] = @ \ {s}]
  /\ UNCHANGED <<home, caches, hand, lost>>

-----------------------------------------------------------------------------
(* my_malloc and my_free through the caches of a thread.                   *)

MallocHit(t, p, s) ==
  /\ Idle(t)
  /\ s \in caches[t][p]
  /\ caches' = [caches EXCEPT ![t][p] = @ \ {s}]
  /\ held' = [held EXCEPT ![p] = @ \cup {s}]
  /\ UNCHANGED <<home, lists, hand, lost>>

\* At most a batch, and only into a cache that has nothing.
MallocRefill(t, p) ==
  /\ Idle(t) /\ caches[t][p] = {}
  /\ UNCHANGED <<caches, held, lost>>
  /\ \E new \in Gains :
       /\ Expanded(p, new)
       /\ \E b \in SUBSET (lists[p] \cup new) :
            /\ Cardinality(b) \in 1..kThreadLocalCacheBatchSize
            /\ lists' = [lists EXCEPT ![p] = (@ \cup new) \ b]
            /\ hand' = [hand EXCEPT ![t] = [what |-> "refill", pool |-> p, slots |-> b]]

\* The slot that was asked for is cached as well.
Cached_Faulty(b, s) == b.slots

\* What of the batch b is cached when the caller has got s.
Cached(b, s) == b.slots \ {s}

MallocRefilled(t, s) ==
  LET b == hand[t] IN
  /\ b.what = "refill" /\ s \in b.slots
  /\ caches' = [caches EXCEPT ![t][b.pool] = @ \cup Cached(b, s)]
  /\ held' = [held EXCEPT ![b.pool] = @ \cup {s}]
  /\ hand' = [hand EXCEPT ![t] = Empty]
  /\ UNCHANGED <<home, lists, lost>>

\* A cache that is full takes one more.
Full_Faulty(t, p) == Cardinality(caches[t][p]) > kThreadLocalCacheCap

Full(t, p) == Cardinality(caches[t][p]) >= kThreadLocalCacheCap

FreeToCache(t, p, s) ==
  /\ Idle(t) /\ ~Full(t, p)
  /\ s \in held[p]
  /\ caches' = [caches EXCEPT ![t][p] = @ \cup {s}]
  /\ held' = [held EXCEPT ![p] = @ \ {s}]
  /\ UNCHANGED <<home, lists, hand, lost>>

\* The slot that is freed, and as many of the cache as make it a batch.
FreeOverCap(t, p, s) ==
  /\ Idle(t) /\ Full(t, p)
  /\ s \in held[p]
  /\ held' = [held EXCEPT ![p] = @ \ {s}]
  /\ UNCHANGED <<home, lists, lost>>
  /\ \E b \in SUBSET caches[t][p] :
       /\ Cardinality(b) = kThreadLocalCacheBatchSize - 1
       /\ caches' = [caches EXCEPT ![t][p] = @ \ b]
       /\ hand' = [hand EXCEPT ![t] = [what |-> "flush", pool |-> p, slots |-> b \cup {s}]]

FlushSplice(t) ==
  LET b == hand[t] IN
  /\ b.what = "flush"
  /\ lists' = [lists EXCEPT ![b.pool] = @ \cup b.slots]
  /\ hand' = [hand EXCEPT ![t] = Empty]
  /\ UNCHANGED <<home, caches, held, lost>>

-----------------------------------------------------------------------------
(* Threads and allocator_shutdown.                                         *)

Exit(t) ==
  /\ Idle(t)
  /\ lost' = lost \cup UNION {caches[t][p] : p \in Pools}
  /\ caches' = [caches EXCEPT ![t] = NoCaches]
  /\ UNCHANGED <<home, lists, hand, held>>

\* No other thread runs.
Shutdown(t) ==
  /\ \A u \in Threads : Idle(u) /\ (u # t => caches[u] = NoCaches)
  /\ home' = [s \in Slots |-> NoPool]
  /\ lists' = [p \in Pools |-> {}]
  /\ caches' = [caches EXCEPT ![t] = NoCaches]
  /\ held' = [p \in Pools |-> {}]
  /\ lost' = {}
  /\ UNCHANGED hand

Next ==
  \/ \E p \in Pools : \/ PooledMalloc(p)
                      \/ \E s \in held[p] : PooledFree(p, s)
  \/ \E t \in Threads, p \in Pools : \/ \E s \in caches[t][p] : MallocHit(t, p, s)
                                   \/ MallocRefill(t, p)
                                   \/ \E s \in held[p] : \/ FreeToCache(t, p, s)
                                                         \/ FreeOverCap(t, p, s)
  \/ \E t \in Threads : \/ \E s \in hand[t].slots : MallocRefilled(t, s)
                        \/ FlushSplice(t)
                        \/ Exit(t)
                        \/ Shutdown(t)

Spec == Init /\ [][Next]_vars

-----------------------------------------------------------------------------
(* Properties.                                                             *)

\* Every variable has its type.
TypeOK ==
  /\ home \in [Slots -> Pools \cup {NoPool}]
  /\ lists \in [Pools -> SUBSET Slots]
  /\ caches \in [Threads -> [Pools -> SUBSET Slots]]
  /\ hand \in [Threads -> [what : {"idle", "refill", "flush"},
                           pool : Pools \cup {NoPool}, slots : SUBSET Slots]]
  /\ held \in [Pools -> SUBSET Slots]
  /\ lost \subseteq Slots

\* Where a slot is, that place is its own pool's.
AtHome ==
  \A s \in Slots :
    /\ \A p \in Pools : s \in lists[p] \/ s \in held[p] => home[s] = p
    /\ \A t \in Threads, p \in Pools : s \in caches[t][p] => home[s] = p
    /\ \A t \in Threads : s \in hand[t].slots => home[s] = hand[t].pool

\* What a pool has carved is somewhere, and what none has carved nowhere.
Conserved ==
  \A s \in Slots :
    /\ s \in lost => home[s] # NoPool
    /\ home[s] # NoPool => \/ \E p \in Pools : s \in lists[p] \/ s \in held[p]
                           \/ \E t \in Threads, p \in Pools : s \in caches[t][p]
                           \/ \E t \in Threads : s \in hand[t].slots
                           \/ s \in lost

\* No two places have the same slot.
Apart ==
  \A s \in Slots :
    /\ s \in lost => \A p \in Pools : s \notin lists[p] /\ s \notin held[p]
    /\ \A p \in Pools : s \in lists[p] => s \notin held[p]
    /\ \A t \in Threads, p \in Pools : s \in caches[t][p] =>
         /\ s \notin lists[p] /\ s \notin held[p] /\ s \notin lost
         /\ \A u \in Threads : s \in caches[u][p] => u = t
    /\ \A t \in Threads : s \in hand[t].slots =>
         /\ s \notin lost
         /\ \A p \in Pools : s \notin lists[p] /\ s \notin held[p]
         /\ \A u \in Threads, p \in Pools : s \notin caches[u][p]
         /\ \A u \in Threads : s \in hand[u].slots => u = t

\* Whatever threads do to slots, and whoever frees them: a slot that has been
\* carved is in one place, which is its own pool's, and in no other.  No
\* allocation is given out twice, and none is forgotten.
OnePlace == AtHome /\ Conserved /\ Apart

\* A thread keeps no more than kThreadLocalCacheCap slots of a pool from the
\* others, and has no more than a batch of them in hand.
Bounded ==
  \A t \in Threads :
    /\ \A p \in Pools : Cardinality(caches[t][p]) <= kThreadLocalCacheCap
    /\ Cardinality(hand[t].slots) <= kThreadLocalCacheBatchSize
=============================================================================
