-------------------------- MODULE SlotLedgerProofs --------------------------
(***************************************************************************)
(* The pooled path's promise holds for any number of threads, pools, slots *)
(* and regions, and for any size of batch: no slot is ever in two places,  *)
(* in a place of another pool, or nowhere, and no cache grows past its     *)
(* cap.                                                                    *)
(***************************************************************************)
EXTENDS SlotLedger, FiniteSetTheorems, TLAPS

-----------------------------------------------------------------------------
(* The inductive invariant.                                                *)

\* A batch that is to become a cache finds that cache empty, as it was when
\* the thread went to the pool.  This is why a refill cannot take a cache
\* past its cap, and what Bounded needs beside it.
HandsInOrder ==
  \A t \in Threads :
    /\ hand[t].what = "idle" => hand[t] = Empty
    /\ hand[t].what # "idle" => hand[t].pool \in Pools
    /\ hand[t].what = "refill" => caches[t][hand[t].pool] = {}

\* The part of the invariant that counts nothing.
Placed == TypeOK /\ OnePlace /\ HandsInOrder

IInv == Placed /\ Bounded

\* Nothing is carved yet.
LEMMA InitIInv == Init => IInv
<1> SUFFICES ASSUME Init PROVE IInv
  OBVIOUS
<1>1. TypeOK
  BY DEF Init, TypeOK, NoCaches, Empty
<1>2. OnePlace
  BY NoPoolAssumption DEF Init, OnePlace, AtHome, Conserved, Apart, NoCaches, Empty
<1>3. HandsInOrder
  BY DEF Init, HandsInOrder, Empty
<1>4. Bounded
  <2>1. kThreadLocalCacheBatchSize \in Nat /\ 0 <= kThreadLocalCacheCap
    BY LedgerBatchAssumption DEF kThreadLocalCacheCap
  <2>2. Cardinality({}) = 0
    BY FS_EmptySet
  <2>3. \A t \in Threads : hand[t].slots = {} /\ \A p \in Pools : caches[t][p] = {}
    BY DEF Init, NoCaches, Empty
  <2>4. 0 <= kThreadLocalCacheBatchSize
    BY <2>1
  <2> QED
    BY <2>1, <2>2, <2>3, <2>4 DEF Bounded
<1> QED
  BY <1>1, <1>2, <1>3, <1>4 DEF IInv, Placed

-----------------------------------------------------------------------------
(* No step puts a slot in two places or loses one.                         *)

\* What a pool gains has been nobody's.
LEMMA GainsAreFresh ==
  ASSUME NEW new \in Gains
  PROVE  new \subseteq Slots /\ \A s \in new : home[s] = NoPool
BY DEF Gains, Fresh, Slots

\* Pool::allocate(): what is handed out leaves the list it was in.
LEMMA PooledMallocPlaced ==
  ASSUME Placed, NEW p \in Pools, PooledMalloc(p)
  PROVE  Placed'
<1> USE DEF Placed
<1>1. PICK new \in Gains : PooledMalloc(p)!2!(new)
  BY DEF PooledMalloc
<1>2. PICK s \in lists[p] \cup new :
        /\ lists' = [lists EXCEPT ![p] = (@ \cup new) \ {s}]
        /\ held' = [held EXCEPT ![p] = @ \cup {s}]
  BY <1>1
<1>3. /\ home' = [x \in Slots |-> IF x \in new THEN p ELSE home[x]]
      /\ UNCHANGED <<caches, hand, lost>>
  BY <1>1 DEF PooledMalloc, Expanded
<1>4. new \subseteq Slots /\ \A x \in new : home[x] = NoPool
  BY GainsAreFresh
<1>5. TypeOK'
  BY <1>2, <1>3, <1>4 DEF TypeOK
<1>6. HandsInOrder'
  BY <1>3 DEF HandsInOrder
<1>7. AtHome'
  BY <1>2, <1>3, <1>4, NoPoolAssumption DEF TypeOK, OnePlace, AtHome, HandsInOrder, Empty
<1>8. Conserved'
  BY <1>2, <1>3, <1>4, NoPoolAssumption DEF TypeOK, OnePlace, Conserved
<1>9. Apart'
  BY <1>2, <1>3, <1>4, NoPoolAssumption DEF TypeOK, OnePlace, AtHome, Conserved, Apart, HandsInOrder, Empty
<1> QED
  BY <1>5, <1>6, <1>7, <1>8, <1>9 DEF OnePlace

\* Pool::deallocate(): the slot goes to the list of the pool its header names.
LEMMA PooledFreePlaced ==
  ASSUME Placed, NEW p \in Pools, NEW s \in held[p], PooledFree(p, s)
  PROVE  Placed'
<1> USE DEF Placed
<1>1. TypeOK'
  BY DEF TypeOK, PooledFree
<1>2. HandsInOrder'
  BY DEF TypeOK, PooledFree, HandsInOrder
<1>3. AtHome'
  BY DEF TypeOK, PooledFree, OnePlace, AtHome
<1>4. Conserved'
  BY DEF TypeOK, PooledFree, OnePlace, Conserved
<1>5. Apart'
  BY DEF TypeOK, PooledFree, OnePlace, AtHome, Apart
<1> QED
  BY <1>1, <1>2, <1>3, <1>4, <1>5 DEF OnePlace

\* A hit: from the thread's own cache to its caller.
LEMMA MallocHitPlaced ==
  ASSUME Placed, NEW t \in Threads, NEW p \in Pools, NEW s \in caches[t][p], MallocHit(t, p, s)
  PROVE  Placed'
<1> USE DEF Placed
<1>1. TypeOK'
  BY DEF TypeOK, MallocHit
<1>2. HandsInOrder'
  BY DEF TypeOK, MallocHit, HandsInOrder
<1>3. OnePlace'
  BY DEF TypeOK, MallocHit, OnePlace, AtHome, Conserved, Apart
<1> QED
  BY <1>1, <1>2, <1>3

\* A refill: from the list, or from nowhere yet, to the thread's hand.
LEMMA MallocRefillPlaced ==
  ASSUME Placed, NEW t \in Threads, NEW p \in Pools, MallocRefill(t, p)
  PROVE  Placed'
<1> USE DEF Placed
<1>1. PICK new \in Gains : MallocRefill(t, p)!3!(new)
  BY DEF MallocRefill
<1>2. PICK b \in SUBSET (lists[p] \cup new) :
        /\ lists' = [lists EXCEPT ![p] = (@ \cup new) \ b]
        /\ hand' = [hand EXCEPT ![t] = [what |-> "refill", pool |-> p, slots |-> b]]
  BY <1>1
<1>3. /\ Idle(t) /\ caches[t][p] = {}
      /\ home' = [x \in Slots |-> IF x \in new THEN p ELSE home[x]]
      /\ UNCHANGED <<caches, held, lost>>
  BY <1>1 DEF MallocRefill, Expanded
<1>4. new \subseteq Slots /\ \A x \in new : home[x] = NoPool
  BY GainsAreFresh
<1>5. hand[t].slots = {}
  BY <1>3 DEF Idle, HandsInOrder, Empty
<1>6. TypeOK'
  BY <1>2, <1>3, <1>4 DEF TypeOK
<1>7. HandsInOrder'
  BY <1>2, <1>3 DEF TypeOK, HandsInOrder
<1>8. AtHome'
  BY <1>2, <1>3, <1>4, NoPoolAssumption DEF TypeOK, OnePlace, AtHome, HandsInOrder, Empty
<1>9. Conserved'
  BY <1>2, <1>3, <1>4, <1>5, NoPoolAssumption DEF TypeOK, OnePlace, Conserved
<1>10. Apart'
  BY <1>2, <1>3, <1>4, NoPoolAssumption DEF TypeOK, OnePlace, AtHome, Conserved, Apart, HandsInOrder, Empty
<1> QED
  BY <1>6, <1>7, <1>8, <1>9, <1>10 DEF OnePlace

\* The end of a refill: one slot for the caller, the rest for the cache.
LEMMA MallocRefilledPlaced ==
  ASSUME Placed, NEW t \in Threads, NEW s \in hand[t].slots, MallocRefilled(t, s)
  PROVE  Placed'
<1> USE DEF Placed
<1> DEFINE p == hand[t].pool
           b == hand[t].slots
<1>1. /\ hand[t].what = "refill" /\ p \in Pools /\ caches[t][p] = {}
      /\ caches' = [caches EXCEPT ![t][p] = @ \cup (b \ {s})]
      /\ held' = [held EXCEPT ![p] = @ \cup {s}]
      /\ hand' = [hand EXCEPT ![t] = Empty]
      /\ UNCHANGED <<home, lists, lost>>
  BY DEF MallocRefilled, Cached, HandsInOrder
<1>2. TypeOK'
  BY <1>1 DEF TypeOK, Empty
<1>3. HandsInOrder'
  BY <1>1 DEF TypeOK, HandsInOrder, Empty
<1>4. AtHome'
  BY <1>1 DEF TypeOK, OnePlace, AtHome, Empty
<1>5. Conserved'
  BY <1>1 DEF TypeOK, OnePlace, Conserved, Empty
<1>6. Apart'
  BY <1>1 DEF TypeOK, OnePlace, AtHome, Apart, Empty
<1> QED
  BY <1>2, <1>3, <1>4, <1>5, <1>6 DEF OnePlace

\* A free below the cap: from a caller to the cache of whoever frees.
LEMMA FreeToCachePlaced ==
  ASSUME Placed, NEW t \in Threads, NEW p \in Pools, NEW s \in held[p], FreeToCache(t, p, s)
  PROVE  Placed'
<1> USE DEF Placed
<1>1. TypeOK'
  BY DEF TypeOK, FreeToCache
<1>2. HandsInOrder'
  BY DEF TypeOK, FreeToCache, HandsInOrder, Idle
<1>3. AtHome'
  BY DEF TypeOK, FreeToCache, OnePlace, AtHome
<1>4. Conserved'
  BY DEF TypeOK, FreeToCache, OnePlace, Conserved
<1>5. Apart'
  BY DEF TypeOK, FreeToCache, OnePlace, AtHome, Apart
<1> QED
  BY <1>1, <1>2, <1>3, <1>4, <1>5 DEF OnePlace

\* A free at the cap: the slot and a part of the cache leave for the pool.
LEMMA FreeOverCapPlaced ==
  ASSUME Placed, NEW t \in Threads, NEW p \in Pools, NEW s \in held[p], FreeOverCap(t, p, s)
  PROVE  Placed'
<1> USE DEF Placed
<1>1. PICK b \in SUBSET caches[t][p] :
        /\ caches' = [caches EXCEPT ![t][p] = @ \ b]
        /\ hand' = [hand EXCEPT ![t] = [what |-> "flush", pool |-> p, slots |-> b \cup {s}]]
  BY DEF FreeOverCap
<1>2. /\ Idle(t)
      /\ held' = [held EXCEPT ![p] = @ \ {s}]
      /\ UNCHANGED <<home, lists, lost>>
  BY DEF FreeOverCap
<1>3. hand[t].slots = {}
  BY <1>2 DEF Idle, HandsInOrder, Empty
<1>4. TypeOK'
  BY <1>1, <1>2 DEF TypeOK
<1>5. HandsInOrder'
  BY <1>1, <1>2 DEF TypeOK, HandsInOrder
<1>6. AtHome'
  BY <1>1, <1>2 DEF TypeOK, OnePlace, AtHome
<1>7. Conserved'
  BY <1>1, <1>2, <1>3 DEF TypeOK, OnePlace, Conserved
<1>8. Apart'
  BY <1>1, <1>2 DEF TypeOK, OnePlace, AtHome, Apart
<1> QED
  BY <1>4, <1>5, <1>6, <1>7, <1>8 DEF OnePlace

\* The end of a flush: the batch is in the pool's list.
LEMMA FlushSplicePlaced ==
  ASSUME Placed, NEW t \in Threads, FlushSplice(t)
  PROVE  Placed'
<1> USE DEF Placed
<1> DEFINE p == hand[t].pool
           b == hand[t].slots
<1>1. /\ p \in Pools
      /\ lists' = [lists EXCEPT ![p] = @ \cup b]
      /\ hand' = [hand EXCEPT ![t] = Empty]
      /\ UNCHANGED <<home, caches, held, lost>>
  BY DEF FlushSplice, HandsInOrder
<1>2. TypeOK'
  BY <1>1 DEF TypeOK, Empty
<1>3. HandsInOrder'
  BY <1>1 DEF TypeOK, HandsInOrder, Empty
<1>4. AtHome'
  BY <1>1 DEF TypeOK, OnePlace, AtHome, Empty
<1>5. Conserved'
  BY <1>1 DEF TypeOK, OnePlace, Conserved, Empty
<1>6. Apart'
  BY <1>1 DEF TypeOK, OnePlace, AtHome, Apart, Empty
<1> QED
  BY <1>2, <1>3, <1>4, <1>5, <1>6 DEF OnePlace

\* A thread ends: what it cached is lost, and counted as lost.
LEMMA ExitPlaced ==
  ASSUME Placed, NEW t \in Threads, Exit(t)
  PROVE  Placed'
<1> USE DEF Placed
<1> DEFINE mine == UNION {caches[t][p] : p \in Pools}
<1>1. /\ Idle(t)
      /\ lost' = lost \cup mine
      /\ caches' = [caches EXCEPT ![t] = NoCaches]
      /\ UNCHANGED <<home, lists, hand, held>>
  BY DEF Exit
<1>2. \A s : s \in mine <=> \E p \in Pools : s \in caches[t][p]
  OBVIOUS
<1> HIDE DEF mine
<1>3. \A u \in Threads, p \in Pools :
        caches'[u][p] = IF u = t THEN {} ELSE caches[u][p]
  BY <1>1 DEF TypeOK, NoCaches
<1>4. mine \subseteq Slots
  BY <1>2 DEF TypeOK
<1>5. TypeOK'
  BY <1>1, <1>4 DEF TypeOK, NoCaches
<1>6. HandsInOrder'
  BY <1>1, <1>3 DEF TypeOK, HandsInOrder
<1>7. AtHome'
  BY <1>1, <1>3 DEF TypeOK, OnePlace, AtHome
<1>8. Conserved'
  BY <1>1, <1>2, <1>3, NoPoolAssumption DEF TypeOK, OnePlace, AtHome, Conserved
<1>9. Apart'
  BY <1>1, <1>2, <1>3 DEF TypeOK, OnePlace, AtHome, Apart
<1> QED
  BY <1>5, <1>6, <1>7, <1>8, <1>9 DEF OnePlace

\* allocator_shutdown(): everything is gone at once.
LEMMA ShutdownPlaced ==
  ASSUME Placed, NEW t \in Threads, Shutdown(t)
  PROVE  Placed'
<1> USE DEF Placed
<1>1. /\ \A u \in Threads : Idle(u) /\ (u # t => caches[u] = NoCaches)
      /\ home' = [s \in Slots |-> NoPool]
      /\ lists' = [p \in Pools |-> {}]
      /\ caches' = [caches EXCEPT ![t] = NoCaches]
      /\ held' = [p \in Pools |-> {}]
      /\ lost' = {}
      /\ UNCHANGED hand
  BY DEF Shutdown
<1>2. \A u \in Threads : hand'[u] = Empty /\ \A p \in Pools : caches'[u][p] = {}
  BY <1>1 DEF TypeOK, Idle, HandsInOrder, NoCaches
<1>3. TypeOK'
  BY <1>1 DEF TypeOK, NoCaches
<1>4. HandsInOrder'
  <2>1. \A u \in Threads : hand'[u] = Empty /\ hand'[u].what = "idle"
    BY <1>2, SMTT(30) DEF Empty
  <2> QED
    BY <2>1 DEF HandsInOrder
<1>5. OnePlace'
  BY <1>1, <1>2 DEF OnePlace, AtHome, Conserved, Apart, Empty
<1> QED
  BY <1>3, <1>4, <1>5

\* Every step keeps the slots in their places.
LEMMA NextPlaced == Placed /\ [Next]_vars => Placed'
<1> SUFFICES ASSUME Placed, [Next]_vars PROVE Placed'
  OBVIOUS
<1>1. ASSUME NEW p \in Pools, PooledMalloc(p) PROVE Placed'
  BY <1>1, PooledMallocPlaced
<1>2. ASSUME NEW p \in Pools, NEW s \in held[p], PooledFree(p, s) PROVE Placed'
  BY <1>2, PooledFreePlaced
<1>3. ASSUME NEW t \in Threads, NEW p \in Pools, NEW s \in caches[t][p], MallocHit(t, p, s) PROVE Placed'
  BY <1>3, MallocHitPlaced
<1>4. ASSUME NEW t \in Threads, NEW p \in Pools, MallocRefill(t, p) PROVE Placed'
  BY <1>4, MallocRefillPlaced
<1>5. ASSUME NEW t \in Threads, NEW s \in hand[t].slots, MallocRefilled(t, s) PROVE Placed'
  BY <1>5, MallocRefilledPlaced
<1>6. ASSUME NEW t \in Threads, NEW p \in Pools, NEW s \in held[p], FreeToCache(t, p, s) PROVE Placed'
  BY <1>6, FreeToCachePlaced
<1>7. ASSUME NEW t \in Threads, NEW p \in Pools, NEW s \in held[p], FreeOverCap(t, p, s) PROVE Placed'
  BY <1>7, FreeOverCapPlaced
<1>8. ASSUME NEW t \in Threads, FlushSplice(t) PROVE Placed'
  BY <1>8, FlushSplicePlaced
<1>9. ASSUME NEW t \in Threads, Exit(t) PROVE Placed'
  BY <1>9, ExitPlaced
<1>10. ASSUME NEW t \in Threads, Shutdown(t) PROVE Placed'
  BY <1>10, ShutdownPlaced
<1>11. CASE UNCHANGED vars
  BY <1>11 DEF vars, Placed, TypeOK, OnePlace, AtHome, Conserved, Apart, HandsInOrder
<1> QED
  BY <1>1, <1>2, <1>3, <1>4, <1>5, <1>6, <1>7, <1>8, <1>9, <1>10, <1>11 DEF Next
-----------------------------------------------------------------------------
(* No step takes a cache past its cap.                                     *)

\* What the cardinalities of the model need: its sets are finite.
LEMMA Finite ==
  ASSUME TypeOK
  PROVE  /\ \A t \in Threads, p \in Pools :
              IsFiniteSet(caches[t][p]) /\ Cardinality(caches[t][p]) \in Nat
         /\ \A t \in Threads :
              IsFiniteSet(hand[t].slots) /\ Cardinality(hand[t].slots) \in Nat
<1>1. ASSUME NEW S \in SUBSET Slots PROVE IsFiniteSet(S) /\ Cardinality(S) \in Nat
  BY RegionsAssumption, FS_Subset, FS_CardinalityType DEF Slots
<1>2. \A t \in Threads, p \in Pools : caches[t][p] \in SUBSET Slots
  BY DEF TypeOK
<1>3. \A t \in Threads : hand[t].slots \in SUBSET Slots
  BY DEF TypeOK
<1> QED
  BY <1>1, <1>2, <1>3

\* Both limits are numbers, and a batch fits into a cache.
LEMMA Limits ==
  /\ kThreadLocalCacheBatchSize \in Nat \ {0} /\ kThreadLocalCacheCap \in Nat
  /\ kThreadLocalCacheBatchSize <= kThreadLocalCacheCap
  /\ Cardinality({}) = 0
BY LedgerBatchAssumption, FS_EmptySet DEF kThreadLocalCacheCap

\* A step that gives one thread one other cache or hand only has to keep that
\* one within bounds.
LEMMA OneChange ==
  ASSUME TypeOK, Bounded, NEW t \in Threads, NEW p \in Pools,
         NEW c \in SUBSET Slots, NEW h,
         \/ caches' = [caches EXCEPT ![t][p] = c]
         \/ caches' = caches,
         \/ hand' = [hand EXCEPT ![t] = h]
         \/ hand' = hand,
         Cardinality(c) <= kThreadLocalCacheCap,
         Cardinality(h.slots) <= kThreadLocalCacheBatchSize
  PROVE  Bounded'
<1> SUFFICES ASSUME NEW u \in Threads
             PROVE  /\ \A q \in Pools : Cardinality(caches'[u][q]) <= kThreadLocalCacheCap
                    /\ Cardinality(hand'[u].slots) <= kThreadLocalCacheBatchSize
  BY DEF Bounded, kThreadLocalCacheCap
<1>1. ASSUME NEW q \in Pools PROVE Cardinality(caches'[u][q]) <= kThreadLocalCacheCap
  <2>1. caches'[u][q] = c \/ caches'[u][q] = caches[u][q]
    BY SMTT(30) DEF TypeOK
  <2> QED
    BY <2>1 DEF Bounded
<1>2. Cardinality(hand'[u].slots) <= kThreadLocalCacheBatchSize
  <2>1. hand'[u] = h \/ hand'[u] = hand[u]
    BY DEF TypeOK
  <2> QED
    BY <2>1 DEF Bounded
<1> QED
  BY <1>1, <1>2

\* Every step keeps caches and hands within their limits.
LEMMA NextBounded == IInv /\ [Next]_vars => Bounded'
<1> SUFFICES ASSUME IInv, [Next]_vars PROVE Bounded'
  OBVIOUS
<1>0. TypeOK /\ HandsInOrder /\ Bounded
  BY DEF IInv, Placed
<1>1. ASSUME NEW p \in Pools, PooledMalloc(p) PROVE Bounded'
  BY <1>0, <1>1 DEF PooledMalloc, Bounded
<1>2. ASSUME NEW p \in Pools, NEW s \in held[p], PooledFree(p, s) PROVE Bounded'
  BY <1>0, <1>2 DEF PooledFree, Bounded
<1>3. ASSUME NEW t \in Threads, NEW p \in Pools, NEW s \in caches[t][p], MallocHit(t, p, s)
      PROVE  Bounded'
  <2>1. /\ caches' = [caches EXCEPT ![t][p] = caches[t][p] \ {s}]
        /\ hand' = hand
    BY <1>3 DEF MallocHit
  <2>2. Cardinality(caches[t][p] \ {s}) <= kThreadLocalCacheCap
    <3>1. Cardinality(caches[t][p] \ {s}) <= Cardinality(caches[t][p])
      <4>1. IsFiniteSet(caches[t][p]) /\ caches[t][p] \ {s} \in SUBSET caches[t][p]
        BY <1>0, Finite
      <4> QED
        BY <4>1, FS_Subset
    <3>2. Cardinality(caches[t][p]) <= kThreadLocalCacheCap
      BY <1>0 DEF Bounded
    <3>3. Cardinality(caches[t][p] \ {s}) \in Nat
      BY <1>0, Finite, FS_RemoveElement, FS_CardinalityType
    <3> QED
      BY <1>0, <3>1, <3>2, <3>3, Finite, Limits
  <2>3. caches[t][p] \ {s} \in SUBSET Slots
    BY <1>0 DEF TypeOK
  <2>4. Cardinality(hand[t].slots) <= kThreadLocalCacheBatchSize
    BY <1>0 DEF Bounded
  <2> QED
    BY <1>0, <2>1, <2>2, <2>3, <2>4, OneChange
<1>4. ASSUME NEW t \in Threads, NEW p \in Pools, MallocRefill(t, p) PROVE Bounded'
  <2>1. PICK b : /\ Cardinality(b) \in 1..kThreadLocalCacheBatchSize
                 /\ hand' = [hand EXCEPT ![t] = [what |-> "refill", pool |-> p, slots |-> b]]
    BY <1>4 DEF MallocRefill
  <2>2. caches' = caches
    BY <1>4 DEF MallocRefill
  <2>3. Cardinality(b) <= kThreadLocalCacheBatchSize
    BY <2>1, Limits
  <2>4. Cardinality({}) <= kThreadLocalCacheCap
    BY Limits
  <2> DEFINE h == [what |-> "refill", pool |-> p, slots |-> b]
  <2>5. h.slots = b /\ hand' = [hand EXCEPT ![t] = h]
    BY <2>1
  <2> HIDE DEF h
  <2> QED
    BY <1>0, <2>2, <2>3, <2>4, <2>5, OneChange
<1>5. ASSUME NEW t \in Threads, NEW s \in hand[t].slots, MallocRefilled(t, s) PROVE Bounded'
  <2> DEFINE p == hand[t].pool
             b == hand[t].slots
  <2>1. /\ p \in Pools /\ caches[t][p] = {}
        /\ caches' = [caches EXCEPT ![t][p] = @ \cup (b \ {s})]
        /\ hand' = [hand EXCEPT ![t] = Empty]
    BY <1>0, <1>5 DEF MallocRefilled, Cached, HandsInOrder
  <2>2. caches' = [caches EXCEPT ![t][p] = b \ {s}]
    BY <2>1
  <2>3. Cardinality(b \ {s}) <= kThreadLocalCacheCap
    <3>1. Cardinality(b \ {s}) = Cardinality(b) - 1 /\ Cardinality(b) \in Nat
      BY <1>0, Finite, FS_RemoveElement
    <3>2. Cardinality(b) <= kThreadLocalCacheBatchSize
      BY <1>0 DEF Bounded
    <3> QED
      BY <3>1, <3>2, Limits
  <2>4. b \ {s} \in SUBSET Slots
    BY <1>0 DEF TypeOK
  <2>5. Cardinality(Empty.slots) <= kThreadLocalCacheBatchSize
    BY Limits DEF Empty
  <2> HIDE DEF p, b
  <2> QED
    BY <1>0, <2>1, <2>2, <2>3, <2>4, <2>5, OneChange
<1>6. ASSUME NEW t \in Threads, NEW p \in Pools, NEW s \in held[p], FreeToCache(t, p, s)
      PROVE  Bounded'
  <2>1. /\ caches' = [caches EXCEPT ![t][p] = caches[t][p] \cup {s}]
        /\ hand' = hand /\ ~Full(t, p)
    BY <1>6 DEF FreeToCache
  <2>2. Cardinality(caches[t][p] \cup {s}) <= kThreadLocalCacheCap
    <3>1. Cardinality(caches[t][p]) < kThreadLocalCacheCap
      BY <1>0, <2>1, Finite, Limits DEF Full
    <3>2. /\ Cardinality(caches[t][p] \cup {s}) <= Cardinality(caches[t][p]) + 1
          /\ Cardinality(caches[t][p] \cup {s}) \in Nat
      <4>1. IsFiniteSet(caches[t][p]) /\ Cardinality(caches[t][p]) \in Nat
        BY <1>0, Finite
      <4>2. Cardinality(caches[t][p] \cup {s}) =
              IF s \in caches[t][p] THEN Cardinality(caches[t][p]) ELSE Cardinality(caches[t][p]) + 1
        BY <4>1, FS_AddElement
      <4> QED
        BY <4>1, <4>2
    <3> QED
      BY <1>0, <3>1, <3>2, Finite, Limits
  <2>3. caches[t][p] \cup {s} \in SUBSET Slots
    BY <1>0 DEF TypeOK
  <2>4. Cardinality(hand[t].slots) <= kThreadLocalCacheBatchSize
    BY <1>0 DEF Bounded
  <2> QED
    BY <1>0, <2>1, <2>2, <2>3, <2>4, OneChange
<1>7. ASSUME NEW t \in Threads, NEW p \in Pools, NEW s \in held[p], FreeOverCap(t, p, s)
      PROVE  Bounded'
  <2>1. PICK b \in SUBSET caches[t][p] :
          /\ Cardinality(b) = kThreadLocalCacheBatchSize - 1
          /\ caches' = [caches EXCEPT ![t][p] = @ \ b]
          /\ hand' = [hand EXCEPT ![t] = [what |-> "flush", pool |-> p, slots |-> b \cup {s}]]
    BY <1>7 DEF FreeOverCap
  <2>2. Cardinality(caches[t][p] \ b) <= kThreadLocalCacheCap
    <3>1. caches[t][p] \ b \in SUBSET caches[t][p]
      OBVIOUS
    <3>2. /\ Cardinality(caches[t][p] \ b) <= Cardinality(caches[t][p])
          /\ Cardinality(caches[t][p] \ b) \in Nat
      BY <1>0, <3>1, Finite, FS_Subset, FS_CardinalityType
    <3>3. Cardinality(caches[t][p]) <= kThreadLocalCacheCap
      BY <1>0 DEF Bounded
    <3> QED
      BY <1>0, <3>2, <3>3, Finite, Limits
  <2>3. Cardinality(b \cup {s}) <= kThreadLocalCacheBatchSize
    <3>1. IsFiniteSet(b)
      BY <1>0, Finite, FS_Subset
    <3>2. Cardinality(b \cup {s}) = IF s \in b THEN Cardinality(b) ELSE Cardinality(b) + 1
      BY <3>1, FS_AddElement
    <3> QED
      BY <2>1, <3>2, Limits
  <2>4. caches' = [caches EXCEPT ![t][p] = caches[t][p] \ b] /\ caches[t][p] \ b \in SUBSET Slots
    BY <1>0, <2>1 DEF TypeOK
  <2> DEFINE h == [what |-> "flush", pool |-> p, slots |-> b \cup {s}]
  <2>5. h.slots = b \cup {s} /\ hand' = [hand EXCEPT ![t] = h]
    BY <2>1
  <2> HIDE DEF h
  <2> QED
    BY <1>0, <2>2, <2>3, <2>4, <2>5, OneChange
<1>8. ASSUME NEW t \in Threads, FlushSplice(t) PROVE Bounded'
  <2>1. hand' = [hand EXCEPT ![t] = Empty] /\ caches' = caches
    BY <1>8 DEF FlushSplice
  <2>2. \A u \in Threads : hand'[u].slots = {} \/ hand'[u] = hand[u]
    BY <1>0, <2>1 DEF TypeOK, Empty
  <2>3. Cardinality({}) <= kThreadLocalCacheBatchSize
    BY Limits
  <2>4. \A u \in Threads : Cardinality(hand'[u].slots) <= kThreadLocalCacheBatchSize
    BY <1>0, <2>2, <2>3 DEF Bounded
  <2>5. \A u \in Threads, p \in Pools : Cardinality(caches'[u][p]) <= kThreadLocalCacheCap
    BY <1>0, <2>1 DEF Bounded
  <2> QED
    BY <2>4, <2>5 DEF Bounded, kThreadLocalCacheCap
<1>9. ASSUME NEW t \in Threads, Exit(t) \/ Shutdown(t) PROVE Bounded'
  <2>1. hand' = hand /\ caches' = [caches EXCEPT ![t] = NoCaches]
    BY <1>9 DEF Exit, Shutdown
  <2>2. \A u \in Threads, p \in Pools : caches'[u][p] = {} \/ caches'[u][p] = caches[u][p]
    BY <1>0, <2>1 DEF TypeOK, NoCaches
  <2>3. Cardinality({}) <= kThreadLocalCacheCap
    BY Limits
  <2>4. \A u \in Threads, p \in Pools : Cardinality(caches'[u][p]) <= kThreadLocalCacheCap
    BY <1>0, <2>2, <2>3 DEF Bounded
  <2> QED
    BY <1>0, <2>1, <2>4 DEF Bounded
<1>10. CASE UNCHANGED vars
  BY <1>0, <1>10 DEF vars, Bounded
<1> QED
  BY <1>1, <1>2, <1>3, <1>4, <1>5, <1>6, <1>7, <1>8, <1>9, <1>10 DEF Next

-----------------------------------------------------------------------------
(* The theorems.                                                           *)

\* The pooled path (memory_pool.cpp and the caches of allocator.cpp): every
\* reachable state has each slot in its place and every count in its bounds.
THEOREM Books == Spec => []IInv
<1>1. IInv /\ [Next]_vars => IInv'
  BY NextPlaced, NextBounded DEF IInv
<1> QED
  BY <1>1, InitIInv, PTL DEF Spec

\* my_malloc and my_free of pooled sizes (allocator.cpp): no slot is given out
\* twice, lost, or returned to another pool's list, whichever thread frees it.
THEOREM SlotsHaveOnePlace == Spec => []OnePlace
<1>1. IInv => OnePlace
  BY DEF IInv, Placed
<1> QED
  BY <1>1, Books, PTL

\* kThreadLocalCacheCap (allocator.cpp): no cache ever holds more, and no
\* thread has more than a batch on its way.
THEOREM CachesBounded == Spec => []Bounded
<1>1. IInv => Bounded
  BY DEF IInv
<1> QED
  BY <1>1, Books, PTL

\* Type correctness of the ledger of the pooled path (memory_pool.cpp).
THEOREM LedgerTypes == Spec => []TypeOK
<1>1. IInv => TypeOK
  BY DEF IInv, Placed
<1> QED
  BY <1>1, Books, PTL
=============================================================================
