---------------------------- MODULE ThreadCaches ----------------------------
(***************************************************************************)
(* The pooled path: memory_pool.cpp, the per-thread caches of concurrency  *)
(* stage 3 and the plain locked pools of stages 1 and 2.                   *)
(*                                                                         *)
(* Slots are modelled with the word in front of their payload, the union   *)
(* PoolSlotHeader: while a slot is free, link[s] is its next_free, in a    *)
(* pool's list, in a cache or in a batch on its way between the two; while *)
(* it is allocated, link[s] is the pool it belongs to.  The program has no *)
(* lists but these words, and what it does depends on nothing else.  Beside *)
(* them, list keeps a history: which slots went into which list and have   *)
(* not left it, in their order.  A word overwritten at the wrong moment    *)
(* loses or shares slots, and then the words no longer spell the lists.    *)
(*                                                                         *)
(* What a thread does to its own cache takes no lock and is one action.  A *)
(* critical section under pool.mutex() is one action too, and between the  *)
(* two the steps of other threads may come: a batch allocate_batch() gave  *)
(* is in no list until the thread has stored it in its cache, a flushed    *)
(* one in none until deallocate_batch() has spliced it back.               *)
(*                                                                         *)
(* Handing a pointer to another thread is no step: whatever was allocated  *)
(* may be freed by any thread.                                             *)
(***************************************************************************)
EXTENDS Naturals, SequencesExt

CONSTANTS Threads,
          Pools,
          Stage,          \* ALLOCATOR_CONCURRENCY_STAGE
          kThreadLocalCacheBatchSize,
          SlotsPerArena,  \* slots expand() carves from one region
          MaxArenas       \* regions the OS gives between two shutdowns

ASSUME StageAssumption == Stage \in 1..3
ASSUME BatchAssumption == kThreadLocalCacheBatchSize \in Nat \ {0}
\* A region is 256 slots and more, a batch 32: one region fills any batch.
ASSUME CarvingAssumption == /\ SlotsPerArena \in Nat /\ MaxArenas \in Nat
                            /\ SlotsPerArena >= kThreadLocalCacheBatchSize

kThreadLocalCacheCap == 2 * kThreadLocalCacheBatchSize

Null  == 0
Slots == 1..(SlotsPerArena * MaxArenas)
Word  == Slots \cup Pools \cup {Null}

VARIABLES home,        \* home[i]: the pool whose arenas_ has the i-th region
          link,        \* next_free or owning_pool, see above
          free_head,   \* each pool's free_head_
          tls_caches,  \* each thread's [head, tail, count] for each pool
          pc,          \* "idle", or with a batch in hand: "refill", "flush"
          batch,       \* that batch: [pool, head, tail, count]
          held,        \* the slots callers have
          alive,       \* the threads that run
          stranded,    \* what the caches of threads that ended still held
          list         \* history: the slots of each list, the first one first

vars == <<home, link, free_head, tls_caches, pc, batch, held, alive, stranded, list>>
memory == <<home, link, free_head>>
threads == <<alive, stranded>>

EmptyCache == [head |-> Null, tail |-> Null, count |-> 0]
NoBatch == [pool |-> Null, head |-> Null, tail |-> Null, count |-> 0]

\* The lists there are.
InPool(p)     == <<"pool", p>>
InCache(t, p) == <<"cache", t, p>>
InHand(t)     == <<"hand", t>>

Places == {InPool(p) : p \in Pools} \cup {InHand(t) : t \in Threads}
            \cup {InCache(t, p) : t \in Threads, p \in Pools}

Init ==
  /\ home = << >>
  /\ link = [s \in Slots |-> Null]
  /\ free_head = [p \in Pools |-> Null]
  /\ tls_caches = [t \in Threads |-> [p \in Pools |-> EmptyCache]]
  /\ pc = [t \in Threads |-> "idle"]
  /\ batch = [t \in Threads |-> NoBatch]
  /\ held = {}
  /\ alive = Threads
  /\ stranded = {}
  /\ list = [l \in Places |-> << >>]

-----------------------------------------------------------------------------
(* Lists of slots in a memory lk.                                          *)

\* The first n slots reached from h: a set of one sequence, or of none if
\* the list ends before.
Walks(lk, h, n) ==
  {w \in [1..n -> Slots] : \A i \in 1..n : w[i] = IF i = 1 THEN h ELSE lk[w[i - 1]]}

\* The list goes on where it began.
After_Faulty(lk, h, w) == h

\* What comes after the slots of w on the way from h.
After(lk, h, w) == IF w = << >> THEN h ELSE lk[Last(w)]

First(seq) == IF seq = << >> THEN Null ELSE Head(seq)

\* lk after the slots of seq have been linked in that order.
Linked(lk, seq) ==
  [s \in Slots |->
     IF s \in ToSet(seq)
     THEN LET i == CHOOSE j \in DOMAIN seq : seq[j] = s
          IN  IF i < Len(seq) THEN seq[i + 1] ELSE Null
     ELSE lk[s]]

-----------------------------------------------------------------------------
(* class Pool, always under its mutex.                                     *)

\* The slot at the base of the region is left out.
Carved_Faulty(r) == [i \in 1..(SlotsPerArena - 1) |-> r * SlotsPerArena + 1 - i]

\* expand() pushes the slots of region r one by one, the last one ends first.
Carved(r) == [i \in 1..SlotsPerArena |-> r * SlotsPerArena + 1 - i]

\* The first n slots of p's list, or all there are if they are fewer.
Gathered(p, n) ==
  {w \in UNION {Walks(link, free_head[p], m) : m \in 0..n} :
     Len(w) = n \/ After(link, free_head[p], w) = Null}

\* p hands out the slots of got, in a memory lk.  Its list goes on at head,
\* and has the slots of left.
FromList(p, n) ==
  LET now == list[InPool(p)]
  IN  {[got |-> w, lk |-> link, home |-> home, head |-> After(link, free_head[p], w),
        left |-> SubSeq(now, Len(w) + 1, Len(now))] : w \in Gathered(p, n) \ {<< >>}}

\* The same after expand(), which only an empty list asks for.
FromRegion(p, n) ==
  LET r == Carved(Len(home) + 1)
      Fresh(w) == SubSeq(r, 1, n - Len(w))
      Left(w)  == SubSeq(r, n - Len(w) + 1, Len(r))
  IN  {[got |-> w \o Fresh(w), lk |-> Linked(link, r), home |-> Append(home, p),
        head |-> First(Left(w)), left |-> Left(w)] :
         w \in {v \in Gathered(p, n) : Len(v) < n /\ Len(home) < MaxArenas}}

\* Every outcome of allocate_batch(n) that is not empty, and of allocate()
\* with n = 1.  Whether expand() succeeds is up to the OS.
allocate_batch(p, n) == FromList(p, n) \cup FromRegion(p, n)

\* b is what p hands out; its slots go elsewhere.
TakeOut(p, b) ==
  /\ home' = b.home
  /\ free_head' = [free_head EXCEPT ![p] = b.head]

\* The word in front of the payload is not asked.
Routed_Faulty(s, p) == s \in held /\ p \in Pools

\* is_known_pool() of the word in front of the payload, and the pool's index.
Routed(s, p) == s \in held /\ p \in Pools /\ link[s] = p

\* The slot goes out with next_free still in front of it.
Tagged_Faulty(lk, s, p) == lk

\* slot->owning_pool = p.
Tagged(lk, s, p) == [lk EXCEPT ![s] = p]

-----------------------------------------------------------------------------
(* Stages 1 and 2: Pool::allocate and Pool::deallocate under pool_lock().  *)

PooledMalloc(t, p) ==
  /\ Stage # 3 /\ t \in alive
  /\ \E b \in allocate_batch(p, 1) :
       /\ TakeOut(p, b)
       /\ link' = Tagged(b.lk, Head(b.got), p)
       /\ held' = held \cup {Head(b.got)}
       /\ list' = [list EXCEPT ![InPool(p)] = b.left]
  /\ UNCHANGED <<tls_caches, pc, batch, threads>>

PooledFree(t, s, p) ==
  /\ Stage # 3 /\ t \in alive
  /\ Routed(s, p)
  /\ link' = [link EXCEPT ![s] = free_head[p]]
  /\ free_head' = [free_head EXCEPT ![p] = s]
  /\ held' = held \ {s}
  /\ list' = [list EXCEPT ![InPool(p)] = Cons(s, @)]
  /\ UNCHANGED <<home, tls_caches, pc, batch, threads>>

-----------------------------------------------------------------------------
(* Stage 3: my_malloc_pooled_stage3().                                     *)

Idle(t) == Stage = 3 /\ t \in alive /\ pc[t] = "idle"

\* The count is not brought down.
Popped_Faulty(c) ==
  [head |-> link[c.head],
   tail |-> IF link[c.head] = Null THEN Null ELSE c.tail,
   count |-> c.count]

Popped(c) ==
  [head |-> link[c.head],
   tail |-> IF link[c.head] = Null THEN Null ELSE c.tail,
   count |-> c.count - 1]

\* t pops c, which is or becomes its cache for p, and returns the slot.
pop_from_cache(t, p, c) ==
  /\ tls_caches' = [tls_caches EXCEPT ![t][p] = Popped(c)]
  /\ link' = Tagged(link, c.head, p)
  /\ held' = held \cup {c.head}

\* The cache of t for p is not empty: no lock.
MallocHit(t, p) ==
  /\ Idle(t)
  /\ tls_caches[t][p].head # Null
  /\ pop_from_cache(t, p, tls_caches[t][p])
  /\ list' = [list EXCEPT ![InCache(t, p)] = Tail(@)]
  /\ UNCHANGED <<home, free_head, pc, batch, threads>>

\* Under the mutex.  With nothing to take my_malloc returns nullptr, and
\* nothing changes.
MallocRefill(t, p) ==
  /\ Idle(t)
  /\ tls_caches[t][p].head = Null
  /\ \E b \in allocate_batch(p, kThreadLocalCacheBatchSize) :
       /\ TakeOut(p, b)
       /\ link' = Linked(b.lk, b.got)
       /\ batch' = [batch EXCEPT ![t] = [pool |-> p, head |-> Head(b.got),
                                         tail |-> Last(b.got), count |-> Len(b.got)]]
       /\ list' = [list EXCEPT ![InPool(p)] = b.left, ![InHand(t)] = b.got]
  /\ pc' = [pc EXCEPT ![t] = "refill"]
  /\ UNCHANGED <<tls_caches, held, threads>>

\* The mutex is released: the batch becomes the cache and is popped.
MallocRefilled(t) ==
  LET b == batch[t] IN
  /\ t \in alive /\ pc[t] = "refill"
  /\ pop_from_cache(t, b.pool, [head |-> b.head, tail |-> b.tail, count |-> b.count])
  /\ list' = [list EXCEPT ![InCache(t, b.pool)] = Tail(list[InHand(t)]), ![InHand(t)] = << >>]
  /\ pc' = [pc EXCEPT ![t] = "idle"]
  /\ batch' = [batch EXCEPT ![t] = NoBatch]
  /\ UNCHANGED <<home, free_head, threads>>

-----------------------------------------------------------------------------
(* Stage 3: my_free_pooled_stage3().                                       *)

\* The cache of t for p with s pushed.
Pushed(t, p, s) ==
  LET c == tls_caches[t][p]
  IN  [head |-> s, tail |-> IF c.head = Null THEN s ELSE c.tail, count |-> c.count + 1]

\* Lets a cache grow by one slot too many.
OverCap_Faulty(c) == c.count > kThreadLocalCacheCap + 1

OverCap(c) == c.count > kThreadLocalCacheCap

FreeToCache(t, s, p) ==
  /\ Idle(t) /\ Routed(s, p)
  /\ ~OverCap(Pushed(t, p, s))
  /\ tls_caches' = [tls_caches EXCEPT ![t][p] = Pushed(t, p, s)]
  /\ link' = [link EXCEPT ![s] = tls_caches[t][p].head]
  /\ held' = held \ {s}
  /\ list' = [list EXCEPT ![InCache(t, p)] = Cons(s, @)]
  /\ UNCHANGED <<home, free_head, pc, batch, threads>>

\* The count is not brought down.
Detached_Faulty(c, d, rest, n) ==
  [head |-> rest, tail |-> IF rest = Null THEN Null ELSE c.tail, count |-> c.count]

\* The cache c without the first n of its slots, the last of them being d.
Detached(c, d, rest, n) ==
  [head |-> rest, tail |-> IF rest = Null THEN Null ELSE c.tail, count |-> c.count - n]

\* flush_batch_to_pool() up to the lock: the pushed slot and those behind it
\* leave the cache.
FreeOverCap(t, s, p) ==
  LET c == Pushed(t, p, s)
      pushed == [link EXCEPT ![s] = tls_caches[t][p].head]
      cached == Cons(s, list[InCache(t, p)])
  IN  /\ Idle(t) /\ Routed(s, p)
      /\ OverCap(c)
      /\ \E n \in 1..kThreadLocalCacheBatchSize : \E w \in Walks(pushed, s, n) :
           LET d == Last(w) IN
           /\ n = kThreadLocalCacheBatchSize \/ pushed[d] = Null
           /\ tls_caches' = [tls_caches EXCEPT ![t][p] = Detached(c, d, pushed[d], n)]
           /\ link' = [pushed EXCEPT ![d] = Null]
           /\ batch' = [batch EXCEPT ![t] = [pool |-> p, head |-> s, tail |-> d, count |-> n]]
           /\ list' = [list EXCEPT ![InCache(t, p)] = SubSeq(cached, n + 1, Len(cached)),
                                   ![InHand(t)] = w]
      /\ pc' = [pc EXCEPT ![t] = "flush"]
      /\ held' = held \ {s}
      /\ UNCHANGED <<home, free_head, threads>>

\* The pool's list is dropped: the last slot of the batch stays the last.
Spliced_Faulty(b) == link

\* deallocate_batch(): the last slot of batch b is linked to the pool's list.
Spliced(b) == [link EXCEPT ![b.tail] = free_head[b.pool]]

FlushSplice(t) ==
  LET b == batch[t] IN
  /\ t \in alive /\ pc[t] = "flush"
  /\ link' = Spliced(b)
  /\ free_head' = [free_head EXCEPT ![b.pool] = b.head]
  /\ list' = [list EXCEPT ![InPool(b.pool)] = list[InHand(t)] \o @, ![InHand(t)] = << >>]
  /\ pc' = [pc EXCEPT ![t] = "idle"]
  /\ batch' = [batch EXCEPT ![t] = NoBatch]
  /\ UNCHANGED <<home, tls_caches, held, threads>>

-----------------------------------------------------------------------------
(* Threads and allocator_shutdown.                                         *)

Start(t) ==
  /\ t \notin alive
  /\ alive' = alive \cup {t}
  /\ UNCHANGED <<memory, tls_caches, pc, batch, held, stranded, list>>

\* A thread_local ThreadLocalCache has no destructor: its slots stay where
\* they are, in no list anyone can reach.
Exit(t) ==
  /\ t \in alive /\ pc[t] = "idle"
  /\ alive' = alive \ {t}
  /\ stranded' = stranded \cup UNION {ToSet(list[InCache(t, p)]) : p \in Pools}
  /\ tls_caches' = [tls_caches EXCEPT ![t] = [p \in Pools |-> EmptyCache]]
  /\ list' = [l \in Places |-> IF \E p \in Pools : l = InCache(t, p) THEN << >> ELSE list[l]]
  /\ UNCHANGED <<memory, pc, batch, held>>

\* release_all_arenas() on each pool, and the caller's caches.  Called once
\* every other thread has been joined; pointers held are not used again.
Shutdown(t) ==
  /\ alive = {t} /\ pc[t] = "idle"
  /\ home # << >>
  /\ home' = << >>
  /\ link' = [s \in Slots |-> Null]
  /\ free_head' = [p \in Pools |-> Null]
  /\ tls_caches' = [tls_caches EXCEPT ![t] = [p \in Pools |-> EmptyCache]]
  /\ held' = {}
  /\ stranded' = {}
  /\ list' = [l \in Places |-> << >>]
  /\ UNCHANGED <<pc, batch, alive>>

Next ==
  \E t \in Threads :
    \/ \E p \in Pools : \/ PooledMalloc(t, p)
                        \/ MallocHit(t, p)
                        \/ MallocRefill(t, p)
    \/ \E s \in held, p \in Pools : \/ PooledFree(t, s, p)
                                   \/ FreeToCache(t, s, p)
                                   \/ FreeOverCap(t, s, p)
    \/ MallocRefilled(t)
    \/ FlushSplice(t)
    \/ Start(t)
    \/ Exit(t)
    \/ Shutdown(t)

Spec == Init /\ [][Next]_vars

-----------------------------------------------------------------------------
(* Properties.                                                             *)

Count == 0..(kThreadLocalCacheCap + 1)
Cache == [head : Slots \cup {Null}, tail : Slots \cup {Null}, count : Count]

\* Every variable has its type.
TypeOK ==
  /\ home \in Seq(Pools) /\ Len(home) <= MaxArenas
  /\ link \in [Slots -> Word]
  /\ free_head \in [Pools -> Slots \cup {Null}]
  /\ tls_caches \in [Threads -> [Pools -> Cache]]
  /\ pc \in [Threads -> {"idle", "refill", "flush"}]
  /\ batch \in [Threads -> [pool : Pools \cup {Null}, head : Slots \cup {Null},
                           tail : Slots \cup {Null}, count : Count]]
  /\ held \subseteq Slots
  /\ alive \subseteq Threads
  /\ stranded \subseteq Slots
  /\ list \in [Places -> Seq(Slots)]

\* Where the words have the first slot of each list.
Heads ==
  [l \in Places |-> CASE l[1] = "pool"  -> free_head[l[2]]
                     [] l[1] = "cache" -> tls_caches[l[2]][l[3]].head
                     [] l[1] = "hand"  -> batch[l[2]].head]

\* Following lk from h visits the slots of seq and ends.
Spells(lk, h, seq) ==
  /\ h = First(seq)
  /\ \A i \in DOMAIN seq : lk[seq[i]] = IF i < Len(seq) THEN seq[i + 1] ELSE Null

Acquired == 1..(SlotsPerArena * Len(home))

\* Every slot of every region is in one place and in no other: allocated, in
\* the list of a pool, in the cache of a thread, in a batch on its way, or
\* left behind by a thread that ended.  The words spell all these lists: they
\* end, no two share a slot, and no refill, flush or free of any thread, in
\* any order, duplicates or drops one.
SlotsInOnePlace ==
  /\ \A l \in Places : Spells(link, Heads[l], list[l]) /\ IsInjective(list[l])
  /\ \A l, m \in Places : l # m => ToSet(list[l]) \cap ToSet(list[m]) = {}
  /\ held \cap stranded = {}
  /\ \A l \in Places : ToSet(list[l]) \cap (held \cup stranded) = {}
  /\ (UNION {ToSet(list[l]) : l \in Places}) \cup held \cup stranded = Acquired

\* The bookkeeping of a cache, and of a batch in hand, tells the truth about
\* its list: count is how long it is and tail where it ends.  The flush
\* decides by count, and the splice links the pool's list behind tail.
CachesCountTheirSlots ==
  /\ \A t \in Threads, p \in Pools :
       LET c == tls_caches[t][p]
           slots == list[InCache(t, p)]
       IN  c.count = Len(slots) /\ c.tail = IF slots = << >> THEN Null ELSE Last(slots)
  /\ \A t \in Threads : pc[t] # "idle" =>
       LET slots == list[InHand(t)]
       IN  slots # << >> /\ batch[t].count = Len(slots) /\ batch[t].tail = Last(slots)

HomeOf(s) == home[((s - 1) \div SlotsPerArena) + 1]

\* Whoever frees a slot, it goes back to lists of the pool that carved it,
\* and the word in front of an allocated payload says which: what my_free()
\* and my_realloc() read without a lock to tell a slot from a general block.
SlotsStayWithTheirPool ==
  /\ \A s \in held : link[s] = HomeOf(s)
  /\ \A p \in Pools :
       /\ \A s \in ToSet(list[InPool(p)]) : HomeOf(s) = p
       /\ \A t \in Threads : \A s \in ToSet(list[InCache(t, p)]) : HomeOf(s) = p
  /\ \A t \in Threads : \A s \in ToSet(list[InHand(t)]) : HomeOf(s) = batch[t].pool

\* Slots that sit in caches, those of threads that ended included, are never
\* more than the cap for each thread that can run.
IdleSlotsBounded ==
  \A p \in Pools :
    LET idle == {s \in stranded : HomeOf(s) = p}
                 \cup UNION {ToSet(list[InCache(t, p)]) : t \in Threads}
    IN  Cardinality(idle) <= kThreadLocalCacheCap * Cardinality(Threads)

\* No step writes the word in front of a slot that stays allocated, so that
\* reading it takes no lock.
HeldTagsUndisturbed == [][\A s \in held \cap held' : link'[s] = link[s]]_vars

\* Lists, caches and batches as the sets of their slots; what callers have,
\* by the pool the word in front of it names.
LedgerRegions == {((r - 1) * SlotsPerArena + 1)..(r * SlotsPerArena) : r \in 1..MaxArenas}
LedgerHome == [s \in Slots |-> IF s \in Acquired THEN HomeOf(s) ELSE Null]
LedgerLists == [p \in Pools |-> ToSet(list[InPool(p)])]
LedgerCaches == [t \in Threads |-> [p \in Pools |-> ToSet(list[InCache(t, p)])]]
LedgerHand ==
  [t \in Threads |-> [what |-> pc[t], pool |-> batch[t].pool, slots |-> ToSet(list[InHand(t)])]]
LedgerHeld == [p \in Pools |-> {s \in held : link[s] = p}]

Ledger == INSTANCE SlotLedger WITH
  NoPool <- Null, Regions <- LedgerRegions, home <- LedgerHome, lists <- LedgerLists,
  caches <- LedgerCaches, hand <- LedgerHand, held <- LedgerHeld, lost <- stranded

\* The stores of refills, hits, frees, flushes and of the pools themselves
\* move slots the way SlotLedger allows, and no others: a thread never
\* disturbs what another one has, a refill finds its cache empty, a flush
\* takes a batch and no more.
ImplementsLedger == Ledger!Spec
=============================================================================
