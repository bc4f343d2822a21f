# A TLA+ verification of custom-memory-allocator

This directory models the allocator of `src/` in TLA+, checks the model with
TLC and proves its most important properties with TLAPS. Paths below are
relative to the directory that holds `src/` and `tla/`.

## 1. The system

The program is a heap allocator in C++17: `my_malloc`, `my_calloc`, `my_free`,
`my_realloc` and `allocator_shutdown` (`src/include/allocator.hpp`). A request
of up to 4096 bytes is rounded up to one of nine size classes and served by the
pool of that class; anything larger goes to the *general path*. A pointer
carries, in the word in front of it, what tells the two apart.

| Component | State | Operations | Talks to |
|---|---|---|---|
| **Block layout** `block.hpp` | `BlockHeader` (size and a free bit), `BlockFooter` (the size again), `FreeListLinks` laid over the payload of a free block | get/set size and flag, `sync_footer`, the addresses of neighbours | everyone on the general path |
| **Free list** `free_list.hpp/.cpp` | `head_`, and the links inside the free blocks | `insert` at the head, `remove` from anywhere, `find_first_fit` | called by the general path |
| **General path** `allocator.cpp` | `arenas()`, `free_list()`, the bytes of the arenas | first fit and split, bump allocation in the newest arena, a new arena, coalescing both ways, growth in place, move | one mutex, `general_path_lock()` |
| **OS memory** `os_memory.cpp` | what is mapped | `os_acquire` (rounds to pages, may fail, puts regions anywhere), `os_release` | `mmap`, `munmap` |
| **Memory pools** `memory_pool.cpp` | per class: `arenas_`, `free_head_`, the word in front of every slot | `expand`, `allocate`, `deallocate`, `allocate_batch`, `deallocate_batch`, `release_all_arenas` | one mutex per pool, or the global one |
| **Thread caches** `allocator.cpp`, stage 3 | `tls_caches`: per thread and class a list with head, tail and count | pop, refill by a batch when empty, push, flush a batch over the cap | pools |
| **Concurrency stage** | a compile-time constant: 1 one global mutex, 2 one mutex per pool and one for the general path, 3 thread caches over stage 2 | | |
| **Routing** `allocator.cpp` | none of its own | `size_class_for`, `is_known_pool`, pooled `my_realloc`, `my_calloc` | both paths |

Of the test hooks, `block_payload_size_for_testing` and
`ptr_is_pooled_for_testing` are operators of `Allocator`. The two empty
placeholder files, tests, examples and benchmarks keep no state of the allocator
and are not modelled.

### What is hard about it, and what makes it correct

*General path.* Four structures describe the same bytes: headers, footers, the
free list and the arena records. A split, a merge, a growth in place and a bump
each change several of them, and a slip shows only when, many calls later,
another operation trusts the stale one: a footer sends `left_neighbor_if_free`
into the middle of a block, a listed neighbour that was absorbed is handed out
again. Two arenas may be adjacent in memory, so the block behind the last one of
an arena can be real and belong to another arena. `my_realloc` reads the size of
the old block under the lock, releases it, calls `my_malloc` and `my_free`, and
copies by a size read before other threads worked on the heap. Sizes come from
the caller and are rounded up in `std::size_t`. It is correct when blocks tile
their arenas, the footers agree with the headers, the free list is exactly the
free blocks, no two free neighbours stay apart, each allocated block has one
owner, and the owner has the bytes it asked for until it lets go of them.

*Free list.* `head_` is the only word the list owns. Its links are bytes of
payloads: before a block is listed and after it has left, they are its owner's
data, written without any lock, also while another thread walks the list. `remove`
has only the block's own two words to tell it which neighbours to correct. It is
correct when head and links always spell the list both ways, and a search
returns the first block that is large enough, and returns.

*Pooled path.* One word in front of a slot is the next pointer of a list or the
tag of the owner, depending on where the slot is. Between a pool's mutex and a
thread's own cache a batch is in no list; any thread frees what any other
allocated; `os_acquire` may fail in the middle of a batch; counts and tails are
kept beside the lists and trusted by the flush. It is correct when every slot
is in exactly one place, in lists of the pool that carved it, when the cached
counts and tails are true, when caches respect their cap, and when the tag of an
allocated slot is never disturbed, since it is read without a lock.

*Routing.* `my_free` and `my_realloc` read the eight bytes in front of a pointer
without a lock and without knowing what they are: the address of a `Pool`, or the
size and the flag of a block. Memory moves between the meanings as clients
resize from class to class and into the general path. It is correct when every
live pointer is routed to where it came from, and when what a client wrote
is there after any resize, and zeros after `my_calloc`.

*Mutexes.* A call may take several, one after another, `my_realloc` by way of
`my_malloc` and `my_free`; none of them is reentrant; which exist depends on the
stage. It is correct when two threads are never in critical sections of one path,
nobody waits while holding, contention stays where `allocator.cpp:63` says, and
calls return.

`PROJECT.json` lists the hazards one by one with their lines and the properties
that cover each.

## 2. The modules

| Module | Models | Kind |
|---|---|---|
| `Blocks` | `block.hpp`, `free_list.cpp`, the helpers of `allocator.cpp` on blocks and arenas | operators on a heap record, no state |
| `GeneralHeap` | the general path and its clients | state machine over `Blocks` |
| `ModestRequests` | `GeneralHeap` whose clients keep away from the end of `std::size_t` | an assumption |
| `LinkedFreeList` | `free_list.cpp` on its words | state machine |
| `ThreadCaches` | pools, thread caches, stages 1 to 3 of the pooled path | state machine |
| `SizeClasses` | `kSizeClasses`, `size_class_for` | operators, no state |
| `Allocator` | all entry points over both paths, with payload contents | state machine, uses `GeneralHeap` and `SizeClasses` |
| `ModestCalls` | `Allocator` whose clients keep away from the end of `std::size_t` | an assumption |
| `Locking` | the mutexes of the three stages and the calls that take them | state machine |
| `HeapContract` | the promise of `allocator.hpp` | abstract; implemented by `GeneralHeap` and by `Allocator` |
| `SlotLedger` | the promise of the pooled path: where each slot is | abstract; implemented by `ThreadCaches` |
| `BlocksProofs`, `HeapStepsProofs`, `GeneralHeapProofs`, `LinkedFreeListProofs`, `ThreadCachesProofs`, `SlotLedgerProofs`, `LockingProofs`, `AllocatorProofs` | | proofs |
| `MCGeneralHeap`, `MCHeapWrap`, `MCLinkedFreeList`, `MCThreadCaches`, `MCSlotLedger`, `MCAllocator`, `MCLocking` | | instances for TLC |

`X_Faulty` definitions are operators with a plausible slip. No specification
uses them; each stands beside the definition it would replace and serves to show
that a property notices the slip (`mutants` in `PROJECT.json`).

### Blocks and GeneralHeap

Addresses and sizes are bytes. The heap is a record: `size` maps the address of
each header to its payload size, `free` is the set of headers with the flag bit,
`ftr` maps the address of each footer to the size stored in it, `fl` is the free
list from `head_`. Headers and footers are kept apart on purpose: the model may
disagree with itself exactly where the program may. A header that a merge
swallows leaves its domain, as its bytes have become payload. Sums and products
made from what callers ask for wrap around at `SizeMax + 1`, the modulus of
`std::size_t`; TLC runs with a `size_t` of 16 bits.

`arenas` is the vector of `[base, size, used]`. `MapFresh` puts a new arena at
any base where nothing is mapped, possibly touching another one; `OutOfMemory`
is `mmap` failing, at any time.

A *client* is one allocation that some thread looks after: `ptr`, `req` (what it
asked for) and, inside `my_realloc`, `pc`, `new`, `want` and `old`, which are the
function's locals. Which thread makes a call has no effect on the general path,
so threads need no identity there. Every critical section of
`general_path_lock()` is one action:

| Code | Actions |
|---|---|
| `my_malloc` | `Malloc`, by `Reuse`, `BumpCurrent`, `MapFresh` or `OutOfMemory` |
| `my_calloc` | `Calloc`: the overflow check, then `my_malloc` of the product |
| `my_free` | `Free` |
| `my_realloc` that needs nothing, or grows in place | `ReallocFits`, `ReallocInPlace` |
| `my_realloc` that moves: lock, look, unlock; `my_malloc`; `memcpy`, `my_free` | `ReallocMiss`, `ReallocMalloc`, `ReallocFree` |
| `allocator_shutdown` | `Shutdown`, when no call is under way |

### HeapContract

What a caller may rely on, without blocks: each client has a region with an
address, room and the bytes it asked for. Regions are aligned, large enough and
disjoint; a resize is one step that either keeps the address and takes no room
away, or moves to a region apart from the old one and only in order to grow; a
failed call changes nothing. `map` names the code that delivers each of its
steps. `GeneralHeap!ImplementsContract` instantiates it
with the payloads clients hold. A moving realloc is three steps of `GeneralHeap`
and one of the contract, at its last.

### ThreadCaches

The pooled path at the level of the word in front of a slot: `link[s]` is
`next_free` or `owning_pool`, as in the union `PoolSlotHeader`. The lists of
pools, caches and batches are nothing but these words and their heads, and no
guard or store looks at anything else, so an assignment in the wrong order loses
or shares slots in the model as in memory. Beside them `list` is a history: for
every list, the slots that went into it and have not left it, in their order.
`SlotsInOnePlace` says that the words spell it. `kThreadLocalCacheBatchSize`, the slots of an arena and the
concurrency stage are constants. Stage 3: `MallocHit`; `MallocRefill` (under the
mutex) and `MallocRefilled` (after it); `FreeToCache`; `FreeOverCap` (up to the
mutex) and `FlushSplice` (under it). Stages 1 and 2: `PooledMalloc` and
`PooledFree`; the two differ only in which mutex makes the step atomic. `Start`
and `Exit` are threads that come and go: a `ThreadLocalCache` has no destructor,
so `Exit` strands what was cached. `Shutdown` is `allocator_shutdown` by the last
thread alive, the condition its comment states. `os_acquire` may fail at any
time; `MaxArenas` bounds how often it succeeds.

### LinkedFreeList

`Blocks` has the free list as a sequence. Here it is `fl`, the head and the
`next` and `prev` words of every place a block may be at, with `list`, the
sequence, beside it as a history of what was inserted and not yet removed.
`insert` and `remove` are the stores of the code, in one action each, as
nothing else reads those words without the mutex. `find_first_fit` holds the
mutex for as long as the list is: `want` is its argument, `cursor` its loop
variable, and `Advance` looks at one block. In between, and at any other time,
`Write` lets whoever has an unlisted block put anything into the words of it.
That callers insert only unlisted blocks and remove only listed ones is
`FreeListExact` of `GeneralHeap`.

### SlotLedger

What the pooled path does, without words: `home` is the pool that carved a slot;
`lists`, `caches`, `hand` (the batch of a thread between its two steps), `held`
and `lost` (in caches of threads that ended) are sets of slots. Which slots
make a batch is left open. `ThreadCaches!ImplementsLedger` maps each list to the
set of its slots. As `SlotsInOnePlace` ties the lists to the words, a wrong head
or a batch cut in the wrong place breaks one of the two, and so does a store that
comes too early or too late.

### SizeClasses and Allocator

`class_for` is the scan of `size_class_for`, with the code's table of nine
classes. `Allocator` instantiates `GeneralHeap` on its own variables, for the
requests that have no class, and adds the pools (`pools`, with arenas and
`free_head`, and `word`, the `PoolSlotHeader` of every slot, at their addresses in
the same memory), and routing: `WordBefore(p)` is the word in front of `p`,
whatever it is, and `is_known_pool` compares it with the addresses of the pools.
Pools are those of stages 1 and 2; the caches of stage 3 are between the
router and the pools, and do not change what is in front of an allocated
slot (`HeldTagsUndisturbed`).

`data` is what payloads hold, told apart by who wrote it and how far; `saved` is
what a client may expect of its own. Where nothing is recorded, anything may be:
the free list's links, tags, what a former owner left. `memset` and `memcpy` are
actions of their own, `CallocZero` and `ReallocCopy`, since other threads run
meanwhile. `Contract` maps the clients of both paths to `HeapContract`.

### Locking

A call is the sequence of critical sections it has still to do, `todo`; a
`my_realloc` that moves a block is `look`, `malloc`, `free`, and its first section
decides whether the other two follow. `at` says whether a thread waits for the
mutex of its next section or is inside, `owner` who has which mutex. The stage is
chosen by `Init` and never changes, as when the program is compiled. In stage 3,
`UseCache` is the section that takes no lock. Which mutex a section takes is
decided where the code decides it: `pool_lock`, `general_path_lock`, and, in
stage 3, `refill_lock` and `flush_lock`, which take `pool.mutex()` without asking
`pool_lock()`; `MutexOf` says which of them a section uses. The other modules
take a critical section for one step; `OneThreadPerPath` is why they may.

## 3. What the runs show

| Run | Instance | Shows |
|---|---|---|
| `heap_touching` | 3 clients, 2 arenas of 3 pages that touch, 3 sizes | all invariants of the general path, no bytes taken from a held block, `ImplementsContract` |
| `heap_single` | 4 clients, 1 arena of 4 pages or of 5, 4 sizes, `my_calloc` | splitting at its limits, an arena made to measure, a product that overflows: requests are served and the contract kept |
| `heap_size_wrap` | 2 clients, a size at the end of `size_t` | **violates** `PointersServeRequests`, see section 5 |
| `free_list_links` | 3 blocks, 2 sizes, 3 requests, payloads that hold what looks like a link or does not | the words spell the list, searches return the first fit, and return |
| `caches_flush` | stage 3, 2 threads, 1 pool, batch 2, cap 4, 2 arenas of 3 slots | slots in one place, true counts and tails, and `ImplementsLedger` |
| `caches_route` | stage 3, 2 threads, 2 pools, batch 1, cap 2, 2 arenas of 3 slots | slots return to the pool that carved them, tags undisturbed, and `ImplementsLedger` |
| `pools_locked` | stages 1 and 2, 2 threads, 2 pools, 3 arenas of 2 slots | one place and the right pool for pools used directly |
| `caches_exit` | stage 3, 1 thread at a time, batch 1, cap 2 | **violates** `IdleSlotsBounded`, see section 5 |
| `slot_ledger` | 2 threads, 1 pool, 2 regions of 3 slots, batch 2, cap 4 | the ledger keeps every slot in one place and every cache within its cap |
| `both_paths` | 2 clients, 4 sizes, of the first and the last class and two of the general path, 3 bases | pointers go home, contents survive |
| `both_paths_contract` | the same with 2 bases | both paths together keep the contract of `allocator.hpp` |
| `mutexes` | stages 1 to 3, 3 threads, 2 pools and the general path | exclusion, no hold and wait, contention as documented, calls return |

**Why the bounds are enough.** The sizes of the heap runs are chosen so that
each comparison of the code is met on both sides: a remainder of exactly
`kMinBlockSize`, one of 16 and one of 32 bytes below it, a merged block that is a
sliver too long, two blocks that fill an arena to its last byte, two arenas that
touch, an arena made for one request larger than `arena_size()`. The arithmetic
is in `MCGeneralHeap`. Three blocks are what a coalescing on both sides takes,
and three clients with one of them inside `my_realloc` make room for the steps
that others can take in its gaps. There is no bound on the number of calls. What
these instances leave open is what the proofs close. In the cache runs the batch,
the cap and the arena keep their proportions (cap twice the batch, arena not a
multiple of the batch) at the smallest values at which refills span two arenas or
come out partial, caches pass their cap while the other thread is between its
two steps, and lists become empty and singletons. Clients, and threads and pools,
are symmetric: the specification names none of them.

In `free_list_links` three blocks are the fewest of which one has a neighbour on
either side, and its data include the address of a block, the most confusing
thing a payload can hold. In `both_paths` the largest class and the smallest
requests beyond it meet: blocks and slots of about the same size, arenas of
either kind at each other's ends, a rounded pool arena with a remainder
that is not a slot and one with more slots than were asked for, two general
blocks that merge into what a third request needs. Two clients are what it takes
for one to be in the middle of a move or of a `my_calloc` while the other frees
and fills; four sizes make it possible to go up from every kind of payload to
every larger one. The contract of both paths is checked on two bases instead of
three, 43 pages apart: a pool arena of the largest class and a general arena then
touch, and which of three bases is left free makes no difference to what a client
is promised. In `mutexes` three threads let two pass a mutex to each other
while the third waits; two pools and the general path make each pair of paths
that `allocator.cpp` tells apart.

Deadlock is checked in every run.

**Fairness.** Two modules have liveness properties, with weak fairness only.
In `LinkedFreeList`, the thread inside `find_first_fit` holds the mutex and waits
for nothing, so `Advance` and `Return` are weakly fair; nobody has to insert,
remove or write. In `Locking`, a thread in a call runs on: going to a cache or to
a mutex, unlocking, and locking a mutex that stays free are weakly fair for every
thread, and nobody has to make a call. `std::mutex` promises no more than that,
and with that `SomeCallReturns` holds: threads never all stay in their calls.
That *each* call returns does not follow, since a mutex may pass over
one waiting thread for ever; `EveryCallReturns` says so as an implication, from
strong fairness of each thread's `Lock` to the return of every call. Everything
else checked is safety.

## 4. What is proved

### The general path

For any set of clients, any requests beyond the size classes, any page size,
arena size and placement of arenas, `tlapm` checks that `Spec` of `GeneralHeap`
implies each of its invariants, the action property `HeldBlocksKeepTheirBytes`
and the refinement `ImplementsContract`.

*Assumptions*, all named: `SizeMax + 1` is a multiple of 16, pages and arenas are
not empty, `mmap` returns aligned addresses other than null
(`BasesAssumption`), requests are those of the general path
(`RequestsAssumption`), and sizes stay `Slack` (15 for the alignment, 32 for the
tags, a page less one for the rounding) away from `SizeMax` (`SlackAssumption`,
in `ModestRequests`). The last one is needed: `heap_size_wrap` shows what happens
without it. TLC evaluates all of them in the runs.

*The inductive invariant* `IInv` (`GeneralHeapProofs`) is

- `TypeOK`;
- `Good(arenas, heap)`: the arenas are apart, the blocks tile them, the footers
  are in sync, everything is aligned, the free list is exact, the free blocks
  coalesced. `BlocksTileArenas` has to speak of *both* neighbours of a block:
  that the left neighbour's footer is the one in front of a header follows only
  if no gap can open, and that the absorbed neighbour is a block only if its
  header is one;
- `OneOwner`, `PointersServeRequests`, `CopyStaysInside`;
- `Stages`: what holds of a client that is between two critical sections of
  `my_realloc`. Without it nothing would say that the pointer of a client in the
  middle of a move is still allocated, or that its new block is as large as it
  wants.

*The argument.* `BlocksProofs` proves what each helper does to the record: where
neighbours are, what `Put`, `Merge`, `maybe_split` and the free list's operations
change and keep, and that merging two touching blocks or splitting one keeps the
tiling and the footers. `HeapStepsProofs` composes them into the four things a
critical section does to a `Good` heap, freeing (`ReleaseGood`), reusing
(`ReuseGood`), growing (`GrowGood`) and carving (`CarveGood`): the result is
`Good`, and the blocks of others are where and as large as they were.
`GeneralHeapProofs` ties each action to one of the four and adds the clients.
Its last section maps states and steps to the contract; that needs one more
invariant, that a client without a pointer has no request on record.

### The words of the free list

`LinkedFreeListProofs`, for any number of blocks and any sizes, requests and data.
*Assumed*: null is no block's address (`NullAssumption`), sizes are natural
numbers and requests are not zero (`SizesAssumption`). The data a caller may write
are not restricted at all. The inductive invariant is `TypeOK`, `LinksSpellList`
and `Walked`: while a search is under way, the cursor is at some position of the
list (or past its end), and no block before it is large enough. Without the
second half `Return` could not be said to return the *first* fit; without the
first, `Advance` might follow words that are data. The argument for `remove` is
about positions: that the list has each block once makes the two words of a block
name its two neighbours and no other, so that closing the gap in the words is
closing it in the sequence.

### The promise of the pooled path

`SlotLedgerProofs`, for any threads, pools and batch of at least one, and any
finite regions (`LedgerBatchAssumption`, `RegionsAssumption`,
`NoPoolAssumption`). `OnePlace` is three statements about places, at home, none
forgotten, apart. `Bounded` is not inductive: a refill adds up to a batch less one
to a cache, and stays below the cap only because the cache was empty when the
thread went to the pool, which is `HandsInOrder`, and because nobody else has
touched it since.

### The words of the pooled path

`ThreadCachesProofs`, for any threads and pools, any number of regions of any
number of slots, and all three stages: the four invariants of `ThreadCaches`, the
action property `HeldTagsUndisturbed`, and the refinement `ImplementsLedger`.
*Assumed*: a stage is 1, 2 or 3 (`StageAssumption`), a batch is not empty
(`BatchAssumption`), and a region has at least as many slots as a batch
(`CarvingAssumption`: the code has 256 and more against 32).

*The inductive invariant* `IInv` is the four invariants and `InOrder`. The
invariants carry each other: that a cut behind the n-th slot leaves two lists
takes `SlotsInOnePlace` (the words spell the list and each slot is in it once);
that the cut is where the code thinks takes `CachesCountTheirSlots`; that a
splice overwrites the last word of the batch and nothing else takes the tail to
be true. `InOrder` is what none of them says: a cache is still empty when its
refill arrives, so that overwriting head, tail and count loses no slot; a thread
that ended leaves no cache behind that a later thread with its identity would
use; a thread has a batch only between its two critical sections; no count is
above the cap.

*The argument.* Most steps are a move: some slots leave one place and arrive in
another, whose lists and heads change, and every other list is left alone.
`Moves` and `Arrive` state that once, and from them `OnePlaceKept` and
`HomesKept` conclude for all of memory what would otherwise be shown for every
pair of lists in every action. What remains of a step is a fact about its own
lists: pushing, popping, cutting behind the n-th slot, linking a batch in front
of a list, carving a region. Carving links the slots of a region in a loop
in the code; the model has the resulting words in one
definition, so that no induction is needed, and a list that has at least n
slots is walked to its n-th one by taking the least counterexample
(`LeastNumber`). The refinement needs `IInv` at both ends of a step and maps each
action to the action of `SlotLedger` of the same purpose; `MallocRefilled` and
`FlushSplice` are what empties a hand there.

### Both paths

`AllocatorProofs`, for any clients, any requests, any page and arena size, any
placement of regions and any number of slots to a region: the types, that every
pointer is routed to where it came from, that contents survive, and that the two
paths together implement the contract.
*Assumed*, besides what the general path assumes: a region has slots
(`SlotsAssumption`); the nine `Pool` objects are at different addresses, beyond
what the size in a block's header can be (`PoolObjectAssumption`), which is what
makes the test of `is_known_pool` sound; and neither a request nor a pool's
region is so large that a size wraps around (`CallsAssumption`, in
`ModestCalls`). `PoolObjectAssumption` is what the comment at `allocator.cpp:702`
takes for granted: it depends on where the program is loaded, and of a block whose
size is the address of a `Pool` neither the run nor the proofs say anything.

*The inductive invariant* `Inv` has three parts.

- `Memory(arenas, heap, pools, word, Owned)`, for the headers that clients own.
  The general heap is `Good`, as above. `Small`: no arena is so large that a
  size inside it could be the address of a pool. `PoolsApart`: regions are
  disjoint, whichever path mapped them, so that neither path writes the
  words of the other. `Chained`: from `free_head` on, the words of slots that
  nobody owns lead to slots that nobody owns, no two to the same one, so that a
  pop takes a slot from nobody. Every owned header is a slot with the tag of its
  pool or an allocated block.
- Headers of different clients are different.
- `Client(c)`: `Call`, where a call stands and what it has in hand;
  `Room`, that a payload is as large as what it serves; `Text`, that what the
  client expects is there, and lies within what it asked for. `Call` says that a
  resize that moves always grows, `req <= old < want`: that `memcpy` takes
  all that the client had follows from it, and so does that the new payload
  has room for the copy. Without `Room` the copy could not be said to stay in
  it.

*The argument.* The general path is not proved again: `AllocatorProofs`
instantiates `GeneralHeapProofs` for the requests that have no class, and the
`Same` lemmas (`SameMalloc`, `SameGood`, ...) say that the general path of
`Allocator` is the one those theorems are about. `MallocMemory`, `FreeMemory`
and `GrowMemory` then state, once for both paths, what taking, giving back and
growing a payload do to `Memory` and to the set of owned headers. A step is a
step of one client: `RestingClient`, `OneClient` and `LocalStep` reduce each
action to that client, as the headers of the others are spared.

*The refinement.* The contract speaks of payloads byte by byte, `Inv` of headers.
`PayloadsApart` bridges them: slots of a region are at least a slot size apart,
regions are disjoint and blocks do not overlap, so payloads that start behind
different headers share no byte, and all of them are aligned. `Measures` says how
large the payload behind a header is, and `LeftAlone` that a step keeps that size
for the headers it names; every step does so for those of the other clients
(`StepLeaves`). One more invariant is needed, `Recorded`: a
client without a pointer has no request on record, and a resize that moves
remembers the size of the payload it is leaving, so that the move the contract
sees at `ReallocFree` is one that grows. Each action that gives, resizes or
takes back a payload maps to its step of the contract (`AcquireMaps`,
`FitsMaps`, `GrowMaps`, `MoveMaps`, `ReleaseMaps`, `ShutdownMaps`); the steps
inside a call, and a client's own writes, map to stutters (`HiddenSteps`).

### Mutexes and classes

`LockingProofs`, for any threads, any stage and number of classes: the invariant
adds to `TypeOK` that a mutex is owned by the thread that is inside a section of
one of its paths and by nobody else. Exclusion rests on `PlacesAgree`: the places
that choose a mutex choose the same one for the same path. `AllocatorProofs`: for every size up to
4096 `class_for` is the smallest class that holds it, and `NoClass` beyond.

| Module | Theorem | States |
|---|---|---|
| `GeneralHeapProofs` | `InOrder` | `Spec => []IInv` |
| | `TypeCorrect`, `Tiling`, `Footers`, `FreeList`, `Coalescing`, `Ownership`, `Service`, `CopyInside`, `Wholeness` | `Spec => []Inv` for each invariant of `heap_touching` |
| | `BytesKept` | `Spec => HeldBlocksKeepTheirBytes` |
| | `Implements` | `Spec => ImplementsContract` |
| `LinkedFreeListProofs` | `TypeCorrect`, `WordsSpellTheList` | `Spec => []Inv` for the invariants of `free_list_links` |
| | `SearchFindsFirstFit` | `Spec => ReturnsFirstFit` |
| `ThreadCachesProofs` | `TypeCorrect`, `SlotsHaveOnePlace`, `CountsAreTrue`, `SlotsReturnHome` | `Spec => []Inv` for the invariants of `caches_flush` and `caches_route` |
| | `TagsUndisturbed` | `Spec => HeldTagsUndisturbed` |
| | `ImplementsTheLedger` | `Spec => ImplementsLedger` |
| `SlotLedgerProofs` | `Books` | `Spec => []IInv` |
| | `SlotsHaveOnePlace`, `CachesBounded`, `LedgerTypes` | `Spec => []Inv` for its invariants |
| `LockingProofs` | `TypeCorrect`, `MutualExclusion`, `NoHoldAndWait`, `Contention` | `Spec => []Inv` for the invariants of `mutexes` |
| `AllocatorProofs` | `TypeCorrect`, `PointersComeHome`, `ContentsAreKept` | `Spec => []Inv` for the invariants of `both_paths` |
| | `ContractIsKept` | `Spec => ImplementsContract` |
| | `ClassForIsTightest` | `class_for` meets `SmallestClass`, and `NoClass` is for no size of a class |

*Only model-checked*: `IdleSlotsBounded`, which fails; and the liveness of
`LinkedFreeList` and `Locking`, as liveness under fairness and `ENABLED` are out
of the prover's reach.

## 5. Findings

- **A size near `SIZE_MAX` wraps around** (`src/src/allocator.cpp:168`).
  `align_up` adds 15 without a check, and 15 of the sizes next to `SIZE_MAX`
  become a payload of zero. `my_realloc(ptr, SIZE_MAX)` then "already fits" and
  returns `ptr`; `my_malloc(SIZE_MAX)` succeeds with a block of no bytes.
  `allocator.hpp` promises at least the size asked for. `my_calloc` checks its
  product, but a product that near `SIZE_MAX` meets the same sum. Sizes a little
  smaller wrap around one sum later, when the tags are added
  (`src/src/allocator.cpp:630`).
- **Slots of threads that ended add up** (`src/src/allocator.cpp:146`).
  `docs/design-decisions.md:385` calls what caches retain bounded, by the cap,
  and says of a thread that exits that memory is not permanently lost. The
  bound holds per thread; over threads that come and go there is none until
  `allocator_shutdown`, which `allocator.hpp:94` tells embedders not to need.

## 6. What is not modelled, and what is left

| | Why not |
|---|---|
| The caches of stage 3 between the router and the pools of `Allocator` | `ThreadCaches` has them without addresses; together the state space is out of TLC's reach |
| `std::bad_alloc` out of `push_back` | the functions are `noexcept`: the program ends |
| Failure of `munmap` | ignored by the code |
| Changing `arena_size()` between calls, the counters for tests | test hooks; `ArenaSize` is a constant |
| Use after free, double free, `allocator_shutdown` with other threads alive | the documents put them on the caller |
| Placeholders, tests, examples, benchmarks, scripts | no state of the allocator |

Left to do: `Allocator` over `SlotLedger` in place of its pools, with slots at
addresses, so that routing holds in stage 3 by composition rather than by two
modules that are read side by side.
