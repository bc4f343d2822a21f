---------------------------- MODULE GeneralHeap ----------------------------
(***************************************************************************)
(* The general path of allocator.cpp: my_malloc, my_calloc, my_free and    *)
(* my_realloc of requests too large for every size class, and              *)
(* allocator_shutdown.                                                     *)
(*                                                                         *)
(* A client is one allocation being looked after by some thread.  Which    *)
(* thread calls makes no difference to the general path, so a thread that  *)
(* keeps several allocations is several clients, and handing a pointer to  *)
(* another thread is no step at all.                                       *)
(*                                                                         *)
(* Every critical section of general_path_lock() is one action.  my_malloc *)
(* and my_free are one critical section each; my_realloc is one when it    *)
(* stays in place, and three when it moves (look, my_malloc, my_free),     *)
(* with the lock released in between and the steps of others interleaved.  *)
(***************************************************************************)
EXTENDS Blocks

CONSTANTS Clients,
          Requests,    \* the sizes clients ask my_malloc and my_realloc for
          Arrays       \* the pairs of count and size they ask my_calloc for

\* size_class_for() finds no class beyond: kSizeClasses ends with 4096.
LargestSizeClass == 4096
ASSUME RequestsAssumption == Requests \subseteq (LargestSizeClass + 1)..SizeMax
ASSUME ArraysAssumption == Arrays \subseteq (0..SizeMax) \X (0..SizeMax)

VARIABLES arenas,   \* arenas(): sequence of [base, size, used]
          heap,     \* the blocks and the free list, see Blocks
          pc,       \* where in my_realloc a client is: "idle", "move", "copy"
          ptr,      \* the pointer the client holds, or Null
          req,      \* the bytes the client asked for when it got ptr
          new,      \* my_realloc's new_ptr
          want,     \* my_realloc's new_size
          old       \* my_realloc's old_payload_size

vars == <<arenas, heap, pc, ptr, req, new, want, old>>

Init ==
  /\ arenas = << >>
  /\ heap = EmptyHeap
  /\ pc   = [c \in Clients |-> "idle"]
  /\ ptr  = [c \in Clients |-> Null]
  /\ req  = [c \in Clients |-> 0]
  /\ new  = [c \in Clients |-> Null]
  /\ want = [c \in Clients |-> 0]
  /\ old  = [c \in Clients |-> 0]

-----------------------------------------------------------------------------
(* my_malloc beyond the pools: one critical section, returning q.          *)

needed(n) == size_t(HeaderSize + align_up(n) + FooterSize)

\* The first free block that fits, shrunk if what is left can be a block.
Reuse(n, q) ==
  \E i \in DOMAIN heap.fl :
    /\ FirstFit(heap, i, align_up(n))
    /\ LET b == heap.fl[i] IN
       /\ heap' = Reused(heap, b, align_up(n))
       /\ q = payload(b)
    /\ UNCHANGED arenas

\* arena_with_room() looks at the newest arena only.
CurrentHasRoom(n) ==
  /\ arenas # << >>
  /\ Last(arenas).size - Last(arenas).used >= needed(n)

BumpPointer == CarvedEnd(Last(arenas))

BumpCurrent(n, q) ==
  /\ NoFit(heap, align_up(n))
  /\ CurrentHasRoom(n)
  /\ heap' = NewBlock(heap, BumpPointer, align_up(n), FALSE)
  /\ arenas' = [arenas EXCEPT ![Len(arenas)].used = @ + needed(n)]
  /\ q = payload(BumpPointer)

\* os_acquire: mmap puts the region wherever nothing is mapped, which may
\* well be right next to another arena.  It maps no empty region.
MapFresh(n, q) ==
  /\ NoFit(heap, align_up(n))
  /\ ~CurrentHasRoom(n)
  /\ \E base \in Bases :
       LET fresh == [base |-> base,
                     size |-> round_up_to_page(Maximum(needed(n), ArenaSize)),
                     used |-> needed(n)]
       IN  /\ fresh.size # 0
           /\ \A i \in DOMAIN arenas : \/ ArenaEnd(fresh) <= arenas[i].base
                                       \/ ArenaEnd(arenas[i]) <= base
           /\ arenas' = Append(arenas, fresh)
           /\ heap' = NewBlock(heap, base, align_up(n), FALSE)
           /\ q = payload(base)

\* mmap may fail at any time.
OutOfMemory(n, q) ==
  /\ NoFit(heap, align_up(n))
  /\ ~CurrentHasRoom(n)
  /\ q = Null
  /\ UNCHANGED <<arenas, heap>>

my_malloc(n, q) == \/ Reuse(n, q)
                   \/ BumpCurrent(n, q)
                   \/ MapFresh(n, q)
                   \/ OutOfMemory(n, q)

\* Every value my_malloc can return in this state.
Results == {Null} \cup {payload(b) : b \in heap.free \cup Bases}
             \cup {payload(BumpPointer) : i \in DOMAIN arenas}

\* c, with asked bytes in mind, calls my_malloc(n).
Obtain(c, n, asked) ==
  /\ pc[c] = "idle"
  /\ ptr[c] = Null
  /\ \E q \in Results :
       /\ my_malloc(n, q)
       /\ ptr' = [ptr EXCEPT ![c] = q]
       /\ req' = [req EXCEPT ![c] = IF q = Null THEN 0 ELSE asked]
  /\ UNCHANGED <<pc, new, want, old>>

Malloc(c, n) == Obtain(c, n, n)

\* The division is left out: every product is taken to fit.
Overflows_Faulty(count, size) == FALSE

\* my_calloc returns nullptr.
Overflows(count, size) == size # 0 /\ count > SizeMax \div size

Calloc(c, count, size) ==
  /\ ~Overflows(count, size)
  /\ size_t(count * size) > LargestSizeClass
  /\ Obtain(c, size_t(count * size), count * size)

-----------------------------------------------------------------------------
(* my_free of a general block: one critical section.                       *)

my_free(p) == heap' = Release(arenas, heap, header_of(p)) /\ UNCHANGED arenas

Free(c) ==
  /\ pc[c] = "idle"
  /\ ptr[c] # Null
  /\ my_free(ptr[c])
  /\ ptr' = [ptr EXCEPT ![c] = Null]
  /\ req' = [req EXCEPT ![c] = 0]
  /\ UNCHANGED <<pc, new, want, old>>

-----------------------------------------------------------------------------
(* my_realloc of a general block.                                          *)

PayloadSize(p) == heap.size[header_of(p)]

\* Absorbing the right neighbour of b would make room for n bytes.
CanGrow(b, n) ==
  /\ RightIsFree(arenas, heap, b)
  /\ combined_payload_size(heap, b, next_physical_header(heap, b)) >= n

Holding(c) == pc[c] = "idle" /\ ptr[c] # Null

ReallocFits(c, n) ==
  /\ Holding(c)
  /\ align_up(n) <= PayloadSize(ptr[c])
  /\ req' = [req EXCEPT ![c] = n]
  /\ UNCHANGED <<arenas, heap, pc, ptr, new, want, old>>

ReallocInPlace(c, n) ==
  LET b == header_of(ptr[c])
      r == next_physical_header(heap, b)
  IN  /\ Holding(c)
      /\ align_up(n) > heap.size[b]
      /\ CanGrow(b, align_up(n))
      /\ heap' = maybe_split(absorb_right_neighbor(heap, b, r), b, align_up(n))
      /\ req' = [req EXCEPT ![c] = n]
      /\ UNCHANGED <<arenas, pc, ptr, new, want, old>>

\* The lock is released with old_payload_size read and nothing changed.
ReallocMiss(c, n) ==
  /\ Holding(c)
  /\ align_up(n) > PayloadSize(ptr[c])
  /\ ~CanGrow(header_of(ptr[c]), align_up(n))
  /\ pc' = [pc EXCEPT ![c] = "move"]
  /\ want' = [want EXCEPT ![c] = n]
  /\ old' = [old EXCEPT ![c] = PayloadSize(ptr[c])]
  /\ UNCHANGED <<arenas, heap, ptr, req, new>>

\* The inner my_malloc.  When it fails the caller keeps ptr as it was.
ReallocMalloc(c) ==
  /\ pc[c] = "move"
  /\ \E q \in Results :
       /\ my_malloc(want[c], q)
       /\ \/ /\ q # Null
             /\ pc' = [pc EXCEPT ![c] = "copy"]
             /\ new' = [new EXCEPT ![c] = q]
             /\ UNCHANGED <<want, old>>
          \/ /\ q = Null
             /\ pc' = [pc EXCEPT ![c] = "idle"]
             /\ want' = [want EXCEPT ![c] = 0]
             /\ old' = [old EXCEPT ![c] = 0]
             /\ UNCHANGED new
  /\ UNCHANGED <<ptr, req>>

\* memcpy, then the inner my_free of the old block.
ReallocFree(c) ==
  /\ pc[c] = "copy"
  /\ my_free(ptr[c])
  /\ ptr' = [ptr EXCEPT ![c] = new[c]]
  /\ req' = [req EXCEPT ![c] = want[c]]
  /\ pc' = [pc EXCEPT ![c] = "idle"]
  /\ new' = [new EXCEPT ![c] = Null]
  /\ want' = [want EXCEPT ![c] = 0]
  /\ old' = [old EXCEPT ![c] = 0]

\* Copies as much as was asked for, old block that long or not.
copy_size_Faulty(c) == want[c]

\* The bytes the memcpy of ReallocFree moves.
copy_size(c) == IF old[c] < want[c] THEN old[c] ELSE want[c]

-----------------------------------------------------------------------------
(* allocator_shutdown, called once every other thread is done: pointers    *)
(* into the released arenas are not used again.                            *)

Shutdown ==
  /\ arenas # << >>
  /\ \A c \in Clients : pc[c] = "idle"
  /\ arenas' = << >>
  /\ heap' = EmptyHeap
  /\ ptr' = [c \in Clients |-> Null]
  /\ req' = [c \in Clients |-> 0]
  /\ UNCHANGED <<pc, new, want, old>>

Next ==
  \/ \E c \in Clients :
       \/ \E n \in Requests : \/ Malloc(c, n)
                              \/ ReallocFits(c, n)
                              \/ ReallocInPlace(c, n)
                              \/ ReallocMiss(c, n)
       \/ \E a \in Arrays : Calloc(c, a[1], a[2])
       \/ Free(c)
       \/ ReallocMalloc(c)
       \/ ReallocFree(c)
  \/ Shutdown

Spec == Init /\ [][Next]_vars

-----------------------------------------------------------------------------
(* Properties.                                                             *)

\* The headers clients have in their hands: of ptr, and of a new_ptr that
\* my_realloc has not returned yet.
Held(c) == {header_of(p) : p \in {ptr[c], new[c]} \ {Null}}

\* Every variable has its type.
TypeOK ==
  /\ ArenasType(arenas)
  /\ HeapType(heap)
  /\ pc \in [Clients -> {"idle", "move", "copy"}]
  /\ ptr \in [Clients -> Nat]
  /\ req \in [Clients -> Nat]
  /\ new \in [Clients -> Nat]
  /\ want \in [Clients -> Nat]
  /\ old \in [Clients -> Nat]

\* Blocks do not overlap, none crosses the end of its arena or starts before
\* its base, and they leave no gap: walking next_physical_header() or
\* preceding_footer() from any block visits the carved part of its arena and
\* nothing else.  Splitting, coalescing and bump allocation each rely on it.
BlocksTileArenas == ArenasApart(arenas) /\ Tiled(arenas, heap)

\* What left_neighbor_if_free() and the asserts of footer_in_sync() rely on:
\* the footer of every block, free or not, repeats its header's size.
FootersInSync == InSync(heap)

\* The free list holds each free block once and no other: absorbed neighbours
\* have left it, split remainders and freed blocks have joined it.  Each has
\* the room its FreeListLinks take, so that linking it disturbs no footer.
FreeListExact == Listed(heap)

\* No two free blocks of an arena touch: my_free() coalesces both ways, and
\* neither reuse nor growing in place leaves a free pair behind.  Blocks of
\* different arenas may touch and stay apart.
FullyCoalesced == Coalesced(arenas, heap)

\* An allocated block is in exactly one pair of hands, and every pointer held
\* leads to an allocated block: no block is handed out twice, none is lost in
\* a realloc that fails or moves.
OneOwner ==
  /\ Allocated(heap) = UNION {Held(c) : c \in Clients}
  /\ \A c, d \in Clients : c # d => Held(c) \cap Held(d) = {}
  /\ \A c \in Clients : new[c] # Null => new[c] # ptr[c] /\ ptr[c] # Null

\* A pointer is aligned for std::max_align_t and its block has room for what
\* was asked for.
PointersServeRequests ==
  \A c \in Clients : ptr[c] # Null =>
    /\ IsAligned(ptr[c])
    /\ PayloadSize(ptr[c]) >= req[c]

\* old_payload_size was read before the lock was released and is used after
\* the inner my_malloc: it still is the size of the old block, and the copy
\* neither reads past that block nor writes past the new one.
CopyStaysInside ==
  \A c \in Clients :
    /\ pc[c] # "idle" => old[c] = PayloadSize(ptr[c])
    /\ pc[c] = "copy" => /\ copy_size(c) >= req[c]
                         /\ copy_size(c) <= PayloadSize(ptr[c])
                         /\ copy_size(c) <= PayloadSize(new[c])

\* With nothing allocated, each arena is back to one free block: no
\* fragmentation outlives the allocations that caused it.
FreedArenasAreWhole ==
  Allocated(heap) = {} =>
    \A i \in DOMAIN arenas :
      /\ arenas[i].base \in Block(heap)
      /\ next_physical_header(heap, arenas[i].base) = CarvedEnd(arenas[i])

\* No step, its owner's included, takes bytes from a block while a client
\* keeps the pointer, nor marks it free.
HeldBlocksKeepTheirBytes ==
  [][\A c \in Clients : ptr[c] # Null /\ ptr'[c] = ptr[c] =>
       LET b == header_of(ptr[c])
       IN  /\ b \in DOMAIN heap'.size
           /\ heap'.size[b] >= heap.size[b]
           /\ b \notin heap'.free]_vars

-----------------------------------------------------------------------------
(* The promise of allocator.hpp.  A client holds the payload of its block; *)
(* the new block of a realloc that has not returned is not visible yet.    *)

ClientRegion(c) ==
  [addr  |-> ptr[c],
   room  |-> IF ptr[c] = Null THEN 0 ELSE PayloadSize(ptr[c]),
   asked |-> req[c]]

Contract == INSTANCE HeapContract WITH region <- [c \in Clients |-> ClientRegion(c)]

\* Blocks, arenas and the free list together deliver that promise, a realloc
\* that moves and is interleaved with the calls of others included: seen from
\* outside it takes effect in one step or not at all.
ImplementsContract == Contract!Spec
=============================================================================
