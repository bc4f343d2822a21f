----------------------------- MODULE Allocator -----------------------------
(***************************************************************************)
(* The whole of the public interface over both paths: my_malloc routes by  *)
(* size, my_free and my_realloc by the word in front of the payload, which *)
(* is the address of a Pool before a slot and the size and flag of a block *)
(* before anything else.                                                   *)
(*                                                                         *)
(* The general path is that of GeneralHeap, on the same variables.  A pool *)
(* is its arenas and the list of its free slots, as memory_pool.cpp has it *)
(* (stages 1 and 2: ThreadCaches adds the caches of stage 3).  Payloads    *)
(* have contents here: what the memset of my_calloc and the memcpy of      *)
(* my_realloc are for.                                                     *)
(*                                                                         *)
(* A step is what a thread does between two points at which others can see *)
(* or change what it works on: a critical section, a memset, a memcpy.     *)
(***************************************************************************)
EXTENDS Blocks, SizeClasses

CONSTANTS Clients,
          Requests,       \* the sizes clients ask for
          kSlotsPerArena,
          PoolObject      \* PoolObject[i]: the address of pools()[i]

ASSUME SlotsAssumption == kSlotsPerArena \in Nat \ {0}

\* Static objects at different addresses, each beyond what the header of a
\* block can hold: an arena is no larger than what is asked of os_acquire,
\* rounded up to pages.
ASSUME PoolObjectAssumption ==
  /\ PoolObject \in [Classes -> Nat \ {Null}]
  /\ IsInjective(PoolObject)
  /\ \A i \in Classes, n \in Requests \cup {ArenaSize} :
       PoolObject[i] > n + Alignment + HeaderSize + FooterSize + PageSize

VARIABLES arenas, heap, pc, ptr, req, new, want, old,  \* as in GeneralHeap
          pools,   \* pools(): for each class [arenas, free_head]
          word,    \* the PoolSlotHeader of each slot: next_free or owning_pool
          data,    \* what payloads hold, see Filled
          saved    \* what each client may expect to find in its payload

generalVars == <<arenas, heap>>
poolVars    == <<pools, word>>
callVars    == <<pc, new, want, old>>
vars == <<generalVars, poolVars, callVars, ptr, req, data, saved>>

General == INSTANCE GeneralHeap
             WITH Requests <- {n \in Requests : class_for(n) = NoClass}, Arrays <- {}

\* The first n bytes are those that w put there: a client, or my_calloc.
Filled(w, n) == [who |-> w, upto |-> n]
Zero == "zero"
Unknown == Filled(Zero, 0)

\* Where nothing is recorded, anything may be.
DataAt(p) == IF p \in DOMAIN data THEN data[p] ELSE Unknown

Least(m, n) == IF m < n THEN m ELSE n

NewPool == [arenas |-> {}, free_head |-> Null]

Init ==
  /\ General!Init
  /\ pools = [i \in Classes |-> NewPool]
  /\ word = << >>
  /\ data = << >>
  /\ saved = [c \in Clients |-> Unknown]

-----------------------------------------------------------------------------
(* class Pool.                                                             *)

slot_total_size(i) == HeaderSize + kSizeClasses[i]

\* A slot that is cut off at the end of the region counts.
slot_count_Faulty(i, size) == (size + slot_total_size(i) - 1) \div slot_total_size(i)

slot_count(i, size) == size \div slot_total_size(i)

Slot(i, a, k) == a.base + (k - 1) * slot_total_size(i)

SlotsOf(i) ==
  UNION {{Slot(i, a, k) : k \in 1..slot_count(i, a.size)} : a \in pools[i].arenas}

Disjoint(a, b) == a.base + a.size <= b.base \/ b.base + b.size <= a.base

\* Everything mapped for the pools.
PoolArenas == UNION {pools[i].arenas : i \in Classes}

\* The regions expand() of pool i may get: mmap puts one where nothing is.
Regions(i) ==
  {a \in {[base |-> b,
           size |-> round_up_to_page(size_t(slot_total_size(i) * kSlotsPerArena))] : b \in Bases} :
     /\ \A r \in PoolArenas : Disjoint(a, r)
     /\ \A r \in ToSet(arenas) : Disjoint(a, r)}

\* The words once a is new to pool i: each slot of a links the one before it.
\* The list was empty, or it would not have been expanded.
CarvedWords(i, a) ==
  LET S == {Slot(i, a, k) : k \in 1..slot_count(i, a.size)}
  IN  [s \in DOMAIN word \cup S |->
         IF s \notin S THEN word[s] ELSE IF s = a.base THEN Null ELSE s - slot_total_size(i)]

\* The slot keeps the link to the next free one.
Tagged_Faulty(w, s, i) == w

Tagged(w, s, i) == Put(w, s, PoolObject[i])

\* s is taken off the list of pool i, in a memory w where the list starts
\* with it.
Pop(i, s, w, regions) ==
  /\ pools' = [pools EXCEPT ![i] = [arenas |-> @.arenas \cup regions, free_head |-> w[s]]]
  /\ word' = Tagged(w, s, i)

\* Pool::allocate() returns q.
allocate(i, q) ==
  \/ /\ pools[i].free_head # Null
     /\ q = payload(pools[i].free_head)
     /\ Pop(i, pools[i].free_head, word, {})
  \/ /\ pools[i].free_head = Null
     /\ \E a \in Regions(i) :
          LET last == Slot(i, a, slot_count(i, a.size)) IN
          /\ q = payload(last)
          /\ Pop(i, last, CarvedWords(i, a), {a})
  \/ /\ pools[i].free_head = Null
     /\ q = Null
     /\ UNCHANGED poolVars

\* Pool::deallocate(p).
deallocate(i, p) ==
  LET s == header_of(p)
  IN  /\ word' = Put(word, s, pools[i].free_head)
      /\ pools' = [pools EXCEPT ![i].free_head = s]

-----------------------------------------------------------------------------
(* Routing.                                                                *)

\* The flag is the lowest bit of the size (BlockHeader).
HeaderWord(b) == heap.size[b] + (IF b \in heap.free THEN 1 ELSE 0)

\* The bytes in front of payload p, read as a PoolSlotHeader.
WordBefore(p) ==
  LET h == header_of(p) IN IF h \in DOMAIN word THEN word[h] ELSE HeaderWord(h)

is_known_pool(w) == \E i \in Classes : PoolObject[i] = w

\* Indexed from one too high, as if pools() had an element before the first.
pool_index_of_Faulty(w) ==
  LET i == CHOOSE j \in Classes : PoolObject[j] = w IN IF i = 1 THEN 1 ELSE i - 1

pool_index_of(w) == CHOOSE i \in Classes : PoolObject[i] = w

ptr_is_pooled(p) == is_known_pool(WordBefore(p))
PoolOf(p) == pool_index_of(WordBefore(p))

\* What block_payload_size_for_testing() returns, and both halves of
\* my_realloc read.
payload_size(p) ==
  IF ptr_is_pooled(p) THEN kSizeClasses[PoolOf(p)] ELSE heap.size[header_of(p)]

\* my_malloc(n) returns q.  Arenas of the general path, too, are mapped where
\* nothing is.
my_malloc(n, q) ==
  IF class_for(n) = NoClass
  THEN /\ General!my_malloc(n, q)
       /\ \A a \in ToSet(arenas'), r \in PoolArenas : Disjoint(a, r)
       /\ UNCHANGED poolVars
  ELSE /\ allocate(class_for(n), q)
       /\ UNCHANGED generalVars

\* Every value my_malloc(n) can return in this state.
Results(n) ==
  IF class_for(n) = NoClass
  THEN General!Results
  ELSE LET i == class_for(n)
       IN  {Null} \cup {payload(s) : s \in {pools[i].free_head} \ {Null}}
             \cup {payload(Slot(i, a, slot_count(i, a.size))) : a \in Regions(i)}

\* my_free(p).  From then on, anything may be where the payload was: links and
\* tags if it was a block, what the next owner writes in any case.
my_free(p) ==
  /\ IF ptr_is_pooled(p)
     THEN deallocate(PoolOf(p), p) /\ UNCHANGED generalVars
     ELSE General!my_free(p) /\ UNCHANGED poolVars
  /\ data' = Restrict(data, DOMAIN data \ {p})

Idle(c) == pc[c] = "idle"
Holding(c) == Idle(c) /\ ptr[c] # Null

-----------------------------------------------------------------------------
(* my_malloc, my_calloc and my_free.  A call that fails changes nothing.   *)

\* my_malloc(n), and my_realloc(nullptr, n).
Malloc(c, n) ==
  /\ Idle(c) /\ ptr[c] = Null
  /\ \E q \in Results(n) \ {Null} :
       /\ my_malloc(n, q)
       /\ ptr' = [ptr EXCEPT ![c] = q]
  /\ req' = [req EXCEPT ![c] = n]
  /\ saved' = [saved EXCEPT ![c] = Unknown]
  /\ UNCHANGED <<callVars, data>>

\* my_calloc of a product that is n, up to the return of my_malloc.  A product
\* that overflows changes nothing here: GeneralHeap!Overflows has that check.
CallocMalloc(c, n) ==
  /\ Idle(c) /\ ptr[c] = Null
  /\ \E q \in Results(n) \ {Null} :
       /\ my_malloc(n, q)
       /\ new' = [new EXCEPT ![c] = q]
  /\ pc' = [pc EXCEPT ![c] = "zero"]
  /\ want' = [want EXCEPT ![c] = n]
  /\ UNCHANGED <<old, ptr, req, data, saved>>

\* Memory from an arena is zero anyway.
Zeroed_Faulty(p, n) == data

Zeroed(p, n) == Put(data, p, Filled(Zero, n))

\* The memset, with no lock held, and the return of my_calloc.
CallocZero(c) ==
  /\ pc[c] = "zero"
  /\ data' = Zeroed(new[c], want[c])
  /\ saved' = [saved EXCEPT ![c] = Filled(Zero, want[c])]
  /\ ptr' = [ptr EXCEPT ![c] = new[c]]
  /\ req' = [req EXCEPT ![c] = want[c]]
  /\ new' = [new EXCEPT ![c] = Null]
  /\ want' = [want EXCEPT ![c] = 0]
  /\ pc' = [pc EXCEPT ![c] = "idle"]
  /\ UNCHANGED <<generalVars, poolVars, old>>

Free(c) ==
  /\ Holding(c)
  /\ my_free(ptr[c])
  /\ ptr' = [ptr EXCEPT ![c] = Null]
  /\ req' = [req EXCEPT ![c] = 0]
  /\ saved' = [saved EXCEPT ![c] = Unknown]
  /\ UNCHANGED callVars

-----------------------------------------------------------------------------
(* my_realloc.                                                             *)

\* What a client may expect of its payload after a resize to n bytes.
Kept(s, n) == [s EXCEPT !.upto = Least(@, n)]

\* A slot is compared with n, a block with n rounded up.
Rounded(c, n) == IF ptr_is_pooled(ptr[c]) THEN n ELSE align_up(n)

CanGrow(c, n) ==
  ~ptr_is_pooled(ptr[c]) /\ General!CanGrow(header_of(ptr[c]), align_up(n))

ReallocFits(c, n) ==
  /\ Holding(c)
  /\ Rounded(c, n) <= payload_size(ptr[c])
  /\ req' = [req EXCEPT ![c] = n]
  /\ saved' = [saved EXCEPT ![c] = Kept(@, n)]
  /\ UNCHANGED <<generalVars, poolVars, callVars, ptr, data>>

\* Slots never grow in place.
ReallocInPlace(c, n) ==
  /\ Holding(c) /\ ~ptr_is_pooled(ptr[c])
  /\ General!ReallocInPlace(c, n)
  /\ UNCHANGED <<poolVars, data, saved>>

ReallocMiss(c, n) ==
  /\ Holding(c)
  /\ Rounded(c, n) > payload_size(ptr[c])
  /\ ~CanGrow(c, n)
  /\ pc' = [pc EXCEPT ![c] = "move"]
  /\ want' = [want EXCEPT ![c] = n]
  /\ old' = [old EXCEPT ![c] = payload_size(ptr[c])]
  /\ UNCHANGED <<generalVars, poolVars, new, ptr, req, data, saved>>

ReallocMalloc(c) ==
  /\ pc[c] = "move"
  /\ \E q \in Results(want[c]) :
       /\ my_malloc(want[c], q)
       /\ \/ /\ q # Null
             /\ new' = [new EXCEPT ![c] = q]
             /\ pc' = [pc EXCEPT ![c] = "copy"]
             /\ UNCHANGED <<want, old>>
          \/ /\ q = Null
             /\ pc' = [pc EXCEPT ![c] = "idle"]
             /\ want' = [want EXCEPT ![c] = 0]
             /\ old' = [old EXCEPT ![c] = 0]
             /\ UNCHANGED new
  /\ UNCHANGED <<ptr, req, data, saved>>

copy_size(c) == Least(old[c], want[c])

\* The memcpy, with no lock held.
ReallocCopy(c) ==
  /\ pc[c] = "copy"
  /\ data' = Put(data, new[c], Kept(DataAt(ptr[c]), copy_size(c)))
  /\ pc' = [pc EXCEPT ![c] = "free"]
  /\ UNCHANGED <<generalVars, poolVars, new, want, old, ptr, req, saved>>

\* The inner my_free, and the return of my_realloc.
ReallocFree(c) ==
  /\ pc[c] = "free"
  /\ my_free(ptr[c])
  /\ ptr' = [ptr EXCEPT ![c] = new[c]]
  /\ req' = [req EXCEPT ![c] = want[c]]
  /\ pc' = [pc EXCEPT ![c] = "idle"]
  /\ new' = [new EXCEPT ![c] = Null]
  /\ want' = [want EXCEPT ![c] = 0]
  /\ old' = [old EXCEPT ![c] = 0]
  /\ UNCHANGED saved

-----------------------------------------------------------------------------
(* Callers, and allocator_shutdown.                                        *)

\* A client fills what it asked for.
Write(c) ==
  /\ Holding(c) /\ req[c] > 0
  /\ data' = Put(data, ptr[c], Filled(c, req[c]))
  /\ saved' = [saved EXCEPT ![c] = Filled(c, req[c])]
  /\ UNCHANGED <<generalVars, poolVars, callVars, ptr, req>>

\* Called once every other thread is done.
Shutdown ==
  /\ arenas # << >> \/ PoolArenas # {}
  /\ \A c \in Clients : Idle(c)
  /\ arenas' = << >>
  /\ heap' = EmptyHeap
  /\ pools' = [i \in Classes |-> NewPool]
  /\ word' = << >>
  /\ data' = << >>
  /\ ptr' = [c \in Clients |-> Null]
  /\ req' = [c \in Clients |-> 0]
  /\ saved' = [c \in Clients |-> Unknown]
  /\ UNCHANGED callVars

Next ==
  \/ \E c \in Clients :
       \/ \E n \in Requests : \/ Malloc(c, n)
                              \/ CallocMalloc(c, n)
                              \/ ReallocFits(c, n)
                              \/ ReallocInPlace(c, n)
                              \/ ReallocMiss(c, n)
       \/ CallocZero(c)
       \/ Free(c)
       \/ ReallocMalloc(c)
       \/ ReallocCopy(c)
       \/ ReallocFree(c)
       \/ Write(c)
  \/ Shutdown

Spec == Init /\ [][Next]_vars

-----------------------------------------------------------------------------
(* Properties.                                                             *)

\* The payloads c has, the one my_realloc or my_calloc is at work on included.
Payloads(c) == {ptr[c], new[c]} \ {Null}

Contents == [who : Clients \cup {Zero}, upto : Nat]

\* Every variable has its type; the list of a pool starts with a slot of that
\* pool, and every slot has a word.
TypeOK ==
  /\ ArenasType(arenas) /\ HeapType(heap)
  /\ pc \in [Clients -> {"idle", "zero", "move", "copy", "free"}]
  /\ \A f \in {ptr, req, new, want, old} : f \in [Clients -> Nat]
  /\ \A i \in Classes :
       /\ pools[i] \in [arenas : SUBSET [base : Nat, size : Nat], free_head : Nat]
       /\ pools[i].free_head \in SlotsOf(i) \cup {Null}
  /\ DOMAIN word = UNION {SlotsOf(i) : i \in Classes}
  /\ word \in [DOMAIN word -> Nat]
  /\ data \in [DOMAIN data -> Contents]
  /\ saved \in [Clients -> Contents]

\* The word in front of a payload, read without a lock, tells the two paths
\* apart, and the pools from each other: a pointer into an arena of a pool is
\* a slot of it and carries its tag; any other leads to an allocated block,
\* whose size and flag are no pool's address.  So my_free() gives it back to
\* where it came from, after any moves between classes and paths.
PointersRouteHome ==
  \A c \in Clients : \A p \in Payloads(c) :
    LET h == header_of(p) IN
    \/ ptr_is_pooled(p) /\ h \in SlotsOf(PoolOf(p)) /\ h \notin Block(heap)
    \/ ~ptr_is_pooled(p) /\ h \in Allocated(heap) /\ h \notin DOMAIN word

\* A client finds in its payload what it wrote there, and zeros after
\* my_calloc(), as far as its last resize left room for them: through moves
\* between slots and blocks, growth in place, and other clients that are
\* given, fill and free memory between the steps of its own my_realloc(),
\* whether that succeeds or not.
ContentsSurvive ==
  \A c \in Clients :
    ptr[c] # Null /\ saved[c].upto > 0 =>
      /\ DataAt(ptr[c]).who = saved[c].who
      /\ DataAt(ptr[c]).upto >= saved[c].upto

ClientRegion(c) ==
  [addr  |-> ptr[c],
   room  |-> IF ptr[c] = Null THEN 0 ELSE payload_size(ptr[c]),
   asked |-> req[c]]

Contract == INSTANCE HeapContract WITH region <- [c \in Clients |-> ClientRegion(c)]

\* Both paths together keep the promise of allocator.hpp: regions of slots
\* and of blocks are disjoint, large enough, and resized as promised.
ImplementsContract == Contract!Spec
=============================================================================
