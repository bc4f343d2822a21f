-------------------------- MODULE AllocatorProofs --------------------------
(***************************************************************************)
(* Both paths together, for every number of clients, every set of requests *)
(* and every size of pages and arenas: the types of Allocator, that every  *)
(* pointer leads back to where it came from, that payloads keep what was   *)
(* written to them, and that clients of both paths are served as           *)
(* HeapContract says.  First the scan of size_class_for() over the nine    *)
(* size classes.                                                           *)
(***************************************************************************)
EXTENDS ModestCalls, HeapStepsProofs

\* The classes, one by one: they grow, and the last one is the largest.
LEMMA TheClasses ==
  /\ Classes = 1..9
  /\ \A i \in Classes : kSizeClasses[i] \in Nat
  /\ \A i, j \in Classes : i < j => kSizeClasses[i] < kSizeClasses[j]
  /\ kSizeClasses[9] = 4096
<1>1. Len(kSizeClasses) = 9 /\ Classes = 1..9
  BY DEF Classes, kSizeClasses
<1>2. \A i \in 1..9 : \/ i = 1 \/ i = 2 \/ i = 3 \/ i = 4 \/ i = 5
                      \/ i = 6 \/ i = 7 \/ i = 8 \/ i = 9
  OBVIOUS
<1>3. /\ kSizeClasses[1] = 16 /\ kSizeClasses[2] = 32 /\ kSizeClasses[3] = 64
      /\ kSizeClasses[4] = 128 /\ kSizeClasses[5] = 256 /\ kSizeClasses[6] = 512
      /\ kSizeClasses[7] = 1024 /\ kSizeClasses[8] = 2048 /\ kSizeClasses[9] = 4096
  BY DEF kSizeClasses
<1>4. \A i \in 1..9 : kSizeClasses[i] \in Nat
  BY <1>2, <1>3
<1>5. \A i, j \in 1..9 : i < j => kSizeClasses[i] < kSizeClasses[j]
  BY <1>2, <1>3
<1> QED
  BY <1>1, <1>3, <1>4, <1>5

\* The scan stops at some class if and only if the last one is large enough.
LEMMA ScanStops ==
  ASSUME NEW n \in Nat, n <= 4096
  PROVE  \E i \in Classes : FitsClass(n, i) /\ \A j \in 1..(i - 1) : ~FitsClass(n, j)
<1> DEFINE Stop(i) == FitsClass(n, i) /\ \A j \in 1..(i - 1) : ~FitsClass(n, j)
<1>1. Classes = 1..9 /\ FitsClass(n, 9)
  BY TheClasses DEF FitsClass
<1>2. ASSUME NEW i \in 1..9, FitsClass(n, i), \A j \in 1..9 : ~Stop(j)
      PROVE  \E j \in 1..(i - 1) : FitsClass(n, j)
  BY <1>2
<1>3. ASSUME \A j \in 1..9 : ~Stop(j) PROVE FALSE
  <2> HIDE DEF Stop
  <2>1. \E j \in 1..8 : FitsClass(n, j)
    BY <1>1, <1>2, <1>3
  <2>2. ASSUME NEW i \in 2..8, \E j \in 1..i : FitsClass(n, j)
        PROVE  \E j \in 1..(i - 1) : FitsClass(n, j)
    <3>1. CASE FitsClass(n, i)
      BY <1>2, <1>3, <3>1
    <3>2. CASE ~FitsClass(n, i)
      BY <2>2, <3>2
    <3> QED
      BY <3>1, <3>2
  <2>3. \E j \in 1..4 : FitsClass(n, j)
    BY <2>1, <2>2
  <2>4. \E j \in 1..1 : FitsClass(n, j)
    BY <2>2, <2>3
  <2> QED
    BY <1>2, <1>3, <2>4
<1> QED
  BY <1>1, <1>3

\* size_class_for() (memory_pool.cpp): a size up to the largest class gets the
\* smallest class that holds it, and a larger one, and only that, gets none
\* and takes the general path.
THEOREM ClassForIsTightest ==
  ASSUME NEW n \in Nat
  PROVE  /\ n <= 4096 => SmallestClass(n, class_for(n))
         /\ n > 4096 => class_for(n) = NoClass
<1>1. ASSUME n <= 4096 PROVE SmallestClass(n, class_for(n))
  <2>1. \E i \in Classes : FitsClass(n, i)
    BY <1>1, ScanStops
  <2> DEFINE i == class_for(n)
  <2>2. i \in Classes /\ FitsClass(n, i) /\ \A j \in 1..(i - 1) : ~FitsClass(n, j)
    BY <1>1, <2>1, ScanStops DEF class_for
  <2> HIDE DEF i
  <2>3. ASSUME NEW j \in Classes, kSizeClasses[j] >= n
        PROVE  kSizeClasses[j] >= kSizeClasses[i]
    <3>1. j \notin 1..(i - 1) /\ i \in 1..9 /\ j \in 1..9
      BY <2>2, <2>3, TheClasses DEF FitsClass
    <3>2. j = i \/ i < j
      BY <3>1
    <3> QED
      BY <2>2, <3>2, TheClasses
  <2>4. kSizeClasses[i] >= n
    BY <2>2, TheClasses DEF FitsClass
  <2> QED
    BY <2>2, <2>3, <2>4 DEF i, SmallestClass
<1>2. ASSUME n > 4096 PROVE class_for(n) = NoClass
  <2>1. \A i \in Classes : kSizeClasses[i] \in Nat /\ kSizeClasses[i] <= 4096
    <3>1. \A i \in 1..9 : i = 9 \/ i < 9
      OBVIOUS
    <3> QED
      BY <3>1, TheClasses
  <2>2. \A i \in Classes : ~FitsClass(n, i)
    BY <1>2, <2>1 DEF FitsClass
  <2> QED
    BY <2>2 DEF class_for
<1> QED
  BY <1>1, <1>2

-----------------------------------------------------------------------------
(* The general path of Allocator is the one that GeneralHeapProofs is      *)
(* about, and its helpers are those of Blocks: instances of the same text. *)

Heap == INSTANCE GeneralHeapProofs
          WITH Requests <- {n \in Requests : class_for(n) = NoClass}, Arrays <- {}

\* Sizes and addresses.
LEMMA SameAddresses ==
  /\ General!Null = Null /\ Heap!Null = Null
  /\ \A n : General!align_up(n) = align_up(n) /\ Heap!align_up(n) = align_up(n)
  /\ \A n : General!round_up_to_page(n) = round_up_to_page(n)
            /\ Heap!round_up_to_page(n) = round_up_to_page(n)
  /\ \A n : General!size_t(n) = size_t(n) /\ Heap!size_t(n) = size_t(n)
  /\ \A m, n : General!Maximum(m, n) = Maximum(m, n) /\ Heap!Maximum(m, n) = Maximum(m, n)
  /\ \A b : General!payload(b) = payload(b) /\ Heap!payload(b) = payload(b)
  /\ \A p : General!header_of(p) = header_of(p) /\ Heap!header_of(p) = header_of(p)
  /\ \A b, n : General!FooterAt(b, n) = FooterAt(b, n) /\ Heap!FooterAt(b, n) = FooterAt(b, n)
  /\ \A hp, b : General!next_physical_header(hp, b) = next_physical_header(hp, b)
                /\ Heap!next_physical_header(hp, b) = next_physical_header(hp, b)
  /\ \A n : Heap!IsAligned(n) <=> IsAligned(n)
  /\ \A a : /\ General!CarvedEnd(a) = CarvedEnd(a) /\ Heap!CarvedEnd(a) = CarvedEnd(a)
            /\ General!ArenaEnd(a) = ArenaEnd(a) /\ Heap!ArenaEnd(a) = ArenaEnd(a)
  /\ General!kMinBlockSize = kMinBlockSize /\ Heap!kMinBlockSize = kMinBlockSize
  /\ General!HeaderSize = 16 /\ General!FooterSize = 16
  /\ Heap!HeaderSize = 16 /\ Heap!FooterSize = 16
  /\ \A s : General!Last(s) = Last(s) /\ Heap!Last(s) = Last(s)
<1>1. /\ General!HeaderSize = 16 /\ General!FooterSize = 16 /\ General!Alignment = 16
      /\ Heap!HeaderSize = 16 /\ Heap!FooterSize = 16 /\ Heap!Alignment = 16
      /\ General!kMinBlockSize = 48 /\ Heap!kMinBlockSize = 48
  BY DEF General!HeaderSize, General!FooterSize, General!Alignment, General!kMinBlockSize,
         General!LinksSize, Heap!HeaderSize, Heap!FooterSize, Heap!Alignment,
         Heap!kMinBlockSize, Heap!LinksSize
<1>2. HeaderSize = 16 /\ FooterSize = 16 /\ Alignment = 16 /\ kMinBlockSize = 48
  BY DEF HeaderSize, FooterSize, Alignment, kMinBlockSize, LinksSize
<1>3. /\ \A n : General!size_t(n) = size_t(n) /\ Heap!size_t(n) = size_t(n)
      /\ \A m, n : General!Maximum(m, n) = Maximum(m, n) /\ Heap!Maximum(m, n) = Maximum(m, n)
      /\ General!Null = Null /\ Heap!Null = Null
      /\ \A a : /\ General!CarvedEnd(a) = CarvedEnd(a) /\ Heap!CarvedEnd(a) = CarvedEnd(a)
                /\ General!ArenaEnd(a) = ArenaEnd(a) /\ Heap!ArenaEnd(a) = ArenaEnd(a)
      /\ \A s : General!Last(s) = Last(s) /\ Heap!Last(s) = Last(s)
  BY DEF General!size_t, Heap!size_t, size_t, General!Maximum, Heap!Maximum, Maximum,
         General!Null, Heap!Null, Null, General!CarvedEnd, Heap!CarvedEnd, CarvedEnd,
         General!ArenaEnd, Heap!ArenaEnd, ArenaEnd, General!Last, Heap!Last, Last
<1>4. /\ \A n : General!align_up(n) = align_up(n) /\ Heap!align_up(n) = align_up(n)
      /\ \A n : Heap!IsAligned(n) <=> IsAligned(n)
      /\ \A n : General!round_up_to_page(n) = round_up_to_page(n)
                /\ Heap!round_up_to_page(n) = round_up_to_page(n)
  BY <1>1, <1>2, <1>3 DEF General!align_up, Heap!align_up, align_up, Heap!IsAligned, IsAligned,
     General!round_up_to_page, Heap!round_up_to_page, round_up_to_page
<1>5. /\ \A b : General!payload(b) = payload(b) /\ Heap!payload(b) = payload(b)
      /\ \A p : General!header_of(p) = header_of(p) /\ Heap!header_of(p) = header_of(p)
      /\ \A b, n : General!FooterAt(b, n) = FooterAt(b, n) /\ Heap!FooterAt(b, n) = FooterAt(b, n)
  BY <1>1, <1>2 DEF General!payload, Heap!payload, payload, General!header_of, Heap!header_of,
     header_of, General!FooterAt, Heap!FooterAt, FooterAt
<1>6. \A hp, b : General!next_physical_header(hp, b) = next_physical_header(hp, b)
                 /\ Heap!next_physical_header(hp, b) = next_physical_header(hp, b)
  BY <1>1, <1>2, <1>5 DEF General!next_physical_header, Heap!next_physical_header,
     next_physical_header
<1> QED
  BY <1>1, <1>2, <1>3, <1>4, <1>5, <1>6

\* Stores to the heap and to the free list.
LEMMA SameStores ==
  /\ \A f, k, v : General!Put(f, k, v) = Put(f, k, v) /\ Heap!Put(f, k, v) = Put(f, k, v)
  /\ \A hp, b : General!unlink(hp, b) = unlink(hp, b) /\ Heap!unlink(hp, b) = unlink(hp, b)
  /\ \A hp, b : General!insert(hp, b) = insert(hp, b) /\ Heap!insert(hp, b) = insert(hp, b)
  /\ \A hp, b, f : General!set_free(hp, b, f) = set_free(hp, b, f)
                   /\ Heap!set_free(hp, b, f) = set_free(hp, b, f)
  /\ \A hp, b, n, f : General!NewBlock(hp, b, n, f) = NewBlock(hp, b, n, f)
                      /\ Heap!NewBlock(hp, b, n, f) = NewBlock(hp, b, n, f)
<1>1. \A f, k, v : General!Put(f, k, v) = Put(f, k, v) /\ Heap!Put(f, k, v) = Put(f, k, v)
  BY DEF General!Put, Heap!Put, Put
<1>2. \A fl, b : General!Unlink(fl, b) = Unlink(fl, b) /\ Heap!Unlink(fl, b) = Unlink(fl, b)
  BY DEF General!Unlink, Heap!Unlink, Unlink, General!RemoveAt, Heap!RemoveAt, RemoveAt
<1>3. \A fl, b : General!Insert(fl, b) = Insert(fl, b) /\ Heap!Insert(fl, b) = Insert(fl, b)
  BY DEF General!Insert, Heap!Insert, Insert, General!Cons, Heap!Cons, Cons
<1>4. \A hp, b : General!unlink(hp, b) = unlink(hp, b) /\ Heap!unlink(hp, b) = unlink(hp, b)
  BY <1>2 DEF General!unlink, Heap!unlink, unlink
<1>5. \A hp, b : General!insert(hp, b) = insert(hp, b) /\ Heap!insert(hp, b) = insert(hp, b)
  BY <1>3 DEF General!insert, Heap!insert, insert
<1>6. \A hp, b, f : General!set_free(hp, b, f) = set_free(hp, b, f)
                    /\ Heap!set_free(hp, b, f) = set_free(hp, b, f)
  BY DEF General!set_free, Heap!set_free, set_free
<1>7. \A hp, b, n, f : General!NewBlock(hp, b, n, f) = NewBlock(hp, b, n, f)
                       /\ Heap!NewBlock(hp, b, n, f) = NewBlock(hp, b, n, f)
  BY <1>1, SameAddresses DEF General!NewBlock, Heap!NewBlock, NewBlock
<1> QED
  BY <1>1, <1>4, <1>5, <1>6, <1>7

\* Splitting.
LEMMA SameSplit ==
  /\ \A hp, b, n : General!maybe_split(hp, b, n) = maybe_split(hp, b, n)
                   /\ Heap!maybe_split(hp, b, n) = maybe_split(hp, b, n)
  /\ \A hp, b, n : General!Reused(hp, b, n) = Reused(hp, b, n)
                   /\ Heap!Reused(hp, b, n) = Reused(hp, b, n)
<1>1. HeaderSize = 16 /\ FooterSize = 16
  BY DEF HeaderSize, FooterSize
<1>2. ASSUME NEW hp, NEW b, NEW n
      PROVE  General!maybe_split(hp, b, n) = maybe_split(hp, b, n)
             /\ Heap!maybe_split(hp, b, n) = maybe_split(hp, b, n)
  <2> DEFINE remainder == hp.size[b] - n
             shrunk == [size |-> Put(hp.size, b, n), free |-> hp.free,
                        ftr |-> Put(hp.ftr, FooterAt(b, n), n), fl |-> hp.fl]
             r == next_physical_header(shrunk, b)
             Rest == IF remainder < kMinBlockSize
                     THEN hp
                     ELSE insert(NewBlock(shrunk, r, remainder - 16 - 16, TRUE), r)
  <2>1. maybe_split(hp, b, n) = Rest
    BY <1>1 DEF maybe_split
  <2>2. General!maybe_split(hp, b, n) = Rest
    BY SameAddresses, SameStores DEF General!maybe_split
  <2>3. Heap!maybe_split(hp, b, n) = Rest
    BY SameAddresses, SameStores DEF Heap!maybe_split
  <2> QED
    BY <2>1, <2>2, <2>3
<1> QED
  BY <1>2, SameStores DEF General!Reused, Heap!Reused, Reused

\* my_malloc.
LEMMA SameMalloc ==
  ASSUME NEW n, NEW q
  PROVE  General!my_malloc(n, q) <=> Heap!my_malloc(n, q)
<1>1. /\ \A hp, i, m : General!FirstFit(hp, i, m) <=> Heap!FirstFit(hp, i, m)
      /\ \A hp, m : General!NoFit(hp, m) <=> Heap!NoFit(hp, m)
  BY DEF General!FirstFit, Heap!FirstFit, General!NoFit, Heap!NoFit
<1>2. General!needed(n) = Heap!needed(n)
  BY SameAddresses DEF General!needed, Heap!needed
<1>3. General!CurrentHasRoom(n) <=> Heap!CurrentHasRoom(n)
  BY <1>2, SameAddresses DEF General!CurrentHasRoom, Heap!CurrentHasRoom
<1>4. General!Reuse(n, q) <=> Heap!Reuse(n, q)
  BY <1>1, SameAddresses, SameSplit DEF General!Reuse, Heap!Reuse
<1>5. General!BumpCurrent(n, q) <=> Heap!BumpCurrent(n, q)
  BY <1>1, <1>2, <1>3, SameAddresses, SameStores
  DEF General!BumpCurrent, Heap!BumpCurrent, General!BumpPointer, Heap!BumpPointer
<1>6. General!MapFresh(n, q) <=> Heap!MapFresh(n, q)
  BY <1>1, <1>2, <1>3, SameAddresses, SameStores DEF General!MapFresh, Heap!MapFresh
<1>7. General!OutOfMemory(n, q) <=> Heap!OutOfMemory(n, q)
  BY <1>1, <1>3, SameAddresses DEF General!OutOfMemory, Heap!OutOfMemory
<1> QED
  BY <1>4, <1>5, <1>6, <1>7 DEF General!my_malloc, Heap!my_malloc

\* Good order.
LEMMA SameGood ==
  ASSUME NEW A, NEW hp
  PROVE  Heap!Good(A, hp) <=> Good(A, hp)
<1>1. /\ Heap!LinksSize = LinksSize /\ Heap!HeaderSize = HeaderSize /\ Heap!FooterSize = FooterSize
      /\ \A s : Heap!ToSet(s) = ToSet(s) /\ (Heap!IsInjective(s) <=> IsInjective(s))
  BY DEF Heap!LinksSize, LinksSize, Heap!HeaderSize, HeaderSize, Heap!FooterSize, FooterSize,
         Heap!ToSet, ToSet, Heap!IsInjective, IsInjective
<1>2. Heap!Block(hp) = Block(hp)
  BY DEF Heap!Block, Block
<1>3. \A i, b : Heap!Within(A, hp, i, b) <=> Within(A, hp, i, b)
  BY SameAddresses DEF Heap!Within, Within
<1>4. /\ Heap!ArenasType(A) <=> ArenasType(A)
      /\ Heap!HeapType(hp) <=> HeapType(hp)
      /\ Heap!ArenasApart(A) <=> ArenasApart(A)
  BY <1>2, SameAddresses DEF Heap!ArenasType, ArenasType, Heap!HeapType, HeapType,
     Heap!ArenasApart, ArenasApart
<1>5. Heap!Tiled(A, hp) <=> Tiled(A, hp)
  BY <1>2, <1>3, SameAddresses DEF Heap!Tiled, Tiled
<1>6. Heap!InSync(hp) <=> InSync(hp)
  BY <1>2, SameAddresses DEF Heap!InSync, InSync
<1>7. Heap!Listed(hp) <=> Listed(hp)
  BY <1>1 DEF Heap!Listed, Listed
<1>8. \A b : Heap!RightIsFree(A, hp, b) <=> RightIsFree(A, hp, b)
  <2>1. \A a, x : Heap!Owns(a, x) <=> Owns(a, x)
    BY SameAddresses DEF Heap!Owns, Owns
  <2>2. \A x : Heap!arena_owning(A, x) = arena_owning(A, x)
    BY <2>1 DEF Heap!arena_owning, arena_owning
  <2>3. \A b : Heap!HasRightNeighbor(A, hp, b) <=> HasRightNeighbor(A, hp, b)
    BY <1>1, <2>2, SameAddresses DEF Heap!HasRightNeighbor, HasRightNeighbor
  <2> QED
    BY <2>3, SameAddresses DEF Heap!RightIsFree, RightIsFree
<1>9. Heap!Coalesced(A, hp) <=> Coalesced(A, hp)
  BY <1>8 DEF Heap!Coalesced, Coalesced
<1>10. Heap!AllAligned(A, hp) <=> AllAligned(A, hp)
  BY <1>2, SameAddresses DEF Heap!AllAligned, AllAligned
<1>11. Heap!Roomy(hp) <=> Roomy(hp)
  BY <1>2 DEF Heap!Roomy, Roomy
<1> QED
  BY <1>4, <1>5, <1>6, <1>7, <1>9, <1>10, <1>11
  DEF Heap!Good, Good, Heap!Sound, Sound, Heap!Shape, Shape

\* Merging.
LEMMA SameMerge ==
  /\ \A hp, l, r : General!combined_payload_size(hp, l, r) = combined_payload_size(hp, l, r)
  /\ \A hp, l, r : General!Merge(hp, l, r) = Merge(hp, l, r)
  /\ \A hp, b, r : General!absorb_right_neighbor(hp, b, r) = absorb_right_neighbor(hp, b, r)
  /\ \A A, hp, b : General!RightIsFree(A, hp, b) <=> RightIsFree(A, hp, b)
  /\ \A A, hp, b : General!Release(A, hp, b) = Release(A, hp, b)
<1>1. HeaderSize = 16 /\ FooterSize = 16
  BY DEF HeaderSize, FooterSize
<1>2. \A hp, l, r : General!combined_payload_size(hp, l, r) = combined_payload_size(hp, l, r)
  <2>1. General!HeaderSize = HeaderSize /\ General!FooterSize = FooterSize
    BY <1>1, SameAddresses
  <2> QED
    BY <2>1 DEF General!combined_payload_size, combined_payload_size
<1>3. ASSUME NEW hp, NEW l, NEW r PROVE General!Merge(hp, l, r) = Merge(hp, l, r)
  <2> DEFINE n == combined_payload_size(hp, l, r)
             Z == [b \in Block(hp) \ {r} |-> IF b = l THEN n ELSE hp.size[b]]
             f == Put(Restrict(hp.ftr, DOMAIN hp.ftr \ {FooterAt(l, hp.size[l])}), FooterAt(l, n), n)
  <2>1. Merge(hp, l, r) = [size |-> Z, free |-> hp.free \ {r}, ftr |-> f, fl |-> hp.fl]
    BY DEF Merge
  <2>2. General!Block(hp) = Block(hp) /\ \A g, S : General!Restrict(g, S) = Restrict(g, S)
    BY DEF General!Block, Block, General!Restrict, Restrict
  <2>3. /\ \A g, k, v : General!Put(g, k, v) = Put(g, k, v)
        /\ \A b, m : General!FooterAt(b, m) = FooterAt(b, m)
        /\ General!combined_payload_size(hp, l, r) = n
    BY <1>2, SameAddresses, SameStores
  <2>4. General!Merge(hp, l, r) = [size |-> Z, free |-> hp.free \ {r}, ftr |-> f, fl |-> hp.fl]
    BY <2>2, <2>3 DEF General!Merge
  <2> QED
    BY <2>1, <2>4
<1>4. \A hp, b, r : General!absorb_right_neighbor(hp, b, r) = absorb_right_neighbor(hp, b, r)
  BY <1>3, SameStores DEF General!absorb_right_neighbor, absorb_right_neighbor
<1>5. \A A, b : General!arena_owning(A, b) = arena_owning(A, b)
  BY SameAddresses DEF General!arena_owning, arena_owning, General!Owns, Owns
<1>6. \A A, hp, b : General!RightIsFree(A, hp, b) <=> RightIsFree(A, hp, b)
  <2>1. \A A, hp, b : General!HasRightNeighbor(A, hp, b) <=> HasRightNeighbor(A, hp, b)
    BY <1>1, <1>5, SameAddresses DEF General!HasRightNeighbor, HasRightNeighbor
  <2> QED
    BY <2>1, SameAddresses DEF General!RightIsFree, RightIsFree
<1>7. \A hp, b : General!LeftNeighbor(hp, b) = LeftNeighbor(hp, b)
  BY <1>1, SameAddresses DEF General!LeftNeighbor, LeftNeighbor, General!header_from_footer,
     header_from_footer, General!preceding_footer, preceding_footer
<1>8. \A A, hp, b : General!LeftIsFree(A, hp, b) <=> LeftIsFree(A, hp, b)
  <2>1. \A A, hp, b : General!HasLeftNeighbor(A, hp, b) <=> HasLeftNeighbor(A, hp, b)
    BY <1>1, <1>5, <1>7, SameAddresses DEF General!HasLeftNeighbor, HasLeftNeighbor
  <2> QED
    BY <1>7, <2>1 DEF General!LeftIsFree, LeftIsFree
<1>9. \A A, hp, b : General!coalesce_right(A, hp, b) = coalesce_right(A, hp, b)
  BY <1>4, <1>6, SameAddresses DEF General!coalesce_right, coalesce_right
<1>10. \A A, hp, b : General!coalesce_left(A, hp, b) = coalesce_left(A, hp, b)
  BY <1>3, <1>7, <1>8, SameStores DEF General!coalesce_left, coalesce_left
<1>11. \A A, hp, b : General!Release(A, hp, b) = Release(A, hp, b)
  BY <1>9, <1>10, SameStores DEF General!Release, Release
<1> QED
  BY <1>2, <1>3, <1>4, <1>6, <1>11

\* The requests of this module meet the assumptions of that one, which its
\* theorems rest on.
LEMMA GeneralAssumptions ==
  /\ /\ \A n \in Heap!Sizes : n + Heap!Slack <= SizeMax
     /\ ArenaSize + Heap!Slack <= SizeMax
  /\ {} \subseteq (0..SizeMax) \X (0..SizeMax)
  /\ {n \in Requests : class_for(n) = NoClass} \subseteq (Heap!LargestSizeClass + 1)..SizeMax
  /\ Bases \subseteq Nat \ {Heap!Null} /\ \A a \in Bases : Heap!IsAligned(a)
<1>1. Heap!LargestSizeClass = 4096 /\ Heap!Slack = Slack
  BY DEF Heap!LargestSizeClass, Heap!Slack, Slack, Heap!Alignment, Alignment, Heap!HeaderSize,
     HeaderSize, Heap!FooterSize, FooterSize
<1>2. Heap!Sizes \subseteq Requests
  BY DEF Heap!Sizes
<1>3. Slack \in Nat
  BY PageSizeAssumption DEF Slack, Alignment, HeaderSize, FooterSize
<1>4. ASSUME NEW n \in Requests, class_for(n) = NoClass PROVE n \in 4097..SizeMax
  <2>1. n \in Nat /\ n + Slack <= SizeMax
    BY CallsAssumption
  <2>2. n > 4096
    <3>1. NoClass \notin Classes
      BY TheClasses DEF NoClass
    <3> QED
      BY <1>4, <2>1, <3>1, ClassForIsTightest DEF SmallestClass
  <2> QED
    BY <1>3, <2>1, <2>2, SizeMaxAssumption
<1>5. \A n \in Heap!Sizes : n + Heap!Slack <= SizeMax
  BY <1>1, <1>2, CallsAssumption
<1>6. ArenaSize + Heap!Slack <= SizeMax
  BY <1>1, CallsAssumption
<1>7. {n \in Requests : class_for(n) = NoClass} \subseteq (Heap!LargestSizeClass + 1)..SizeMax
  BY <1>1, <1>4
<1>8. Bases \subseteq Nat \ {Heap!Null} /\ \A a \in Bases : Heap!IsAligned(a)
  BY SameAddresses, BasesAssumption
<1> QED
  BY <1>5, <1>6, <1>7, <1>8

-----------------------------------------------------------------------------
(* The critical sections of the general path.                              *)

\* What my_malloc, my_free and my_realloc do to the blocks of others.
Spares(S) == \A b \in S : b \in Allocated(heap') /\ heap'.size[b] = heap.size[b]

\* my_malloc beyond the size classes hands out a new block or changes nothing.
LEMMA GeneralMalloc ==
  ASSUME Good(arenas, heap), NEW n \in Requests, class_for(n) = NoClass, NEW q,
         General!my_malloc(n, q)
  PROVE  \/ q = Null /\ arenas' = arenas /\ heap' = heap
         \/ /\ q \in Nat /\ q # Null /\ Good(arenas', heap')
            /\ header_of(q) \in Nat /\ header_of(q) \notin Allocated(heap)
            /\ Allocated(heap') = Allocated(heap) \cup {header_of(q)}
            /\ heap'.size[header_of(q)] >= n
            /\ Spares(Allocated(heap))
<1>1. n \in Heap!Sizes
  BY DEF Heap!Sizes
<1>2. Heap!my_malloc(n, q) /\ Heap!Good(arenas, heap)
  BY SameMalloc, SameGood
<1>3. Heap!Handed(n, q) \/ (q = Heap!Null /\ arenas' = arenas /\ heap' = heap)
  BY <1>1, <1>2, GeneralAssumptions, SizeMaxAssumption, PageSizeAssumption,
     ArenaSizeAssumption, Heap!MallocHands DEF Heap!MallocHands
<1>4. CASE Heap!Handed(n, q)
  <2>1. Heap!Allocated(heap) = Allocated(heap) /\ Heap!Allocated(heap') = Allocated(heap')
    BY DEF Heap!Allocated, Allocated, Heap!Block, Block
  <2>2. /\ q \in Nat /\ q # Null
        /\ header_of(q) \notin Allocated(heap)
        /\ Allocated(heap') = Allocated(heap) \cup {header_of(q)}
        /\ heap'.size[header_of(q)] >= align_up(n)
        /\ Heap!Keeps(heap, heap', Allocated(heap))
        /\ Heap!Good(arenas', heap')
    BY <1>4, <2>1, SameAddresses DEF Heap!Handed
  <2>3. Good(arenas', heap')
    BY <2>2, SameGood
  <2>4. Spares(Allocated(heap))
    BY <2>2 DEF Heap!Keeps, Spares
  <2>5. header_of(q) \in Nat /\ heap'.size[header_of(q)] \in Nat
    <3>1. header_of(q) \in Block(heap') /\ HeapType(heap')
      BY <2>2, <2>3 DEF Allocated, Good, Sound, Shape
    <3> QED
      BY <3>1, BlockEnds
  <2>6. align_up(n) \in Nat /\ align_up(n) >= n /\ n \in Nat
    <3>1. n \in Nat /\ n + 15 <= SizeMax
      <4>1. n \in Nat /\ n + Slack <= SizeMax
        BY CallsAssumption
      <4> QED
        BY <4>1, PageSizeAssumption, SizeMaxAssumption DEF Slack, Alignment, HeaderSize, FooterSize
    <3> QED
      BY <3>1, AlignUp
  <2>7. heap'.size[header_of(q)] >= n
    BY <2>2, <2>5, <2>6
  <2> QED
    BY <2>2, <2>3, <2>4, <2>5, <2>7
<1> QED
  BY <1>3, <1>4, SameAddresses

\* my_free of a block frees that block and leaves the others alone.
LEMMA GeneralFree ==
  ASSUME Good(arenas, heap), NEW p, header_of(p) \in Allocated(heap), General!my_free(p)
  PROVE  /\ Good(arenas', heap') /\ arenas' = arenas
         /\ Allocated(heap') = Allocated(heap) \ {header_of(p)}
         /\ Spares(Allocated(heap) \ {header_of(p)})
<1>1. heap' = Release(arenas, heap, header_of(p)) /\ arenas' = arenas
  BY SameMerge, SameAddresses DEF General!my_free
<1>2. /\ Good(arenas, heap')
      /\ Allocated(heap') = Allocated(heap) \ {header_of(p)}
      /\ Keeps(heap, heap', Allocated(heap) \ {header_of(p)})
  BY <1>1, ReleaseGood
<1> QED
  BY <1>1, <1>2 DEF Keeps, Spares

\* my_realloc() in place gives the block what was asked for, and takes it
\* from no other.
LEMMA GeneralGrow ==
  ASSUME Good(arenas, heap), NEW c \in Clients, NEW n \in Requests,
         header_of(ptr[c]) \in Allocated(heap), General!ReallocInPlace(c, n)
  PROVE  LET b == header_of(ptr[c]) IN
         /\ Good(arenas', heap') /\ arenas' = arenas
         /\ Allocated(heap') = Allocated(heap)
         /\ heap'.size[b] >= n /\ n > heap.size[b]
         /\ Spares(Allocated(heap) \ {b})
<1> DEFINE b == header_of(ptr[c])
           r == next_physical_header(heap, b)
           m == align_up(n)
<1>1. /\ m > heap.size[b] /\ RightIsFree(arenas, heap, b)
      /\ combined_payload_size(heap, b, r) >= m
      /\ heap' = maybe_split(absorb_right_neighbor(heap, b, r), b, m)
      /\ arenas' = arenas
  BY SameMerge, SameAddresses, SameSplit DEF General!ReallocInPlace, General!CanGrow
<1>2. n \in Nat /\ n + 15 <= SizeMax
  <2>1. n \in Nat /\ n + Slack <= SizeMax
    BY CallsAssumption
  <2> QED
    BY <2>1, PageSizeAssumption, SizeMaxAssumption DEF Slack, Alignment, HeaderSize, FooterSize
<1>3. m \in Nat /\ m >= n /\ IsAligned(m)
  BY <1>2, AlignUp
<1>4. b \in Nat /\ heap.size[b] \in Nat /\ heap.size[b] >= 16 /\ IsAligned(heap.size[b])
  <2>1. HeapType(heap) /\ b \in Block(heap)
    BY DEF Good, Sound, Shape, Allocated
  <2> QED
    BY <2>1, BlockEnds DEF Good, Sound, Roomy, AllAligned
<1>5. n > heap.size[b]
  <2>1. n <= heap.size[b] => m <= heap.size[b]
    BY <1>2, <1>4, AlignUpLeast
  <2> QED
    BY <1>1, <1>2, <1>3, <1>4, <2>1
<1> HIDE DEF b, m
<1>6. b \in Allocated(heap) /\ m >= 16 /\ m >= heap.size[b]
  BY <1>1, <1>3, <1>4 DEF b
<1>7. combined_payload_size(heap, b, next_physical_header(heap, b)) >= m
      /\ heap' = maybe_split(absorb_right_neighbor(heap, b, next_physical_header(heap, b)), b, m)
  BY <1>1
<1>8. /\ Good(arenas, heap')
      /\ Allocated(heap') = Allocated(heap)
      /\ heap'.size[b] >= m
      /\ Keeps(heap, heap', Allocated(heap) \ {b})
  BY <1>1, <1>3, <1>6, <1>7, GrowGood
<1>9. heap'.size[b] \in Nat
  <2>1. HeapType(heap') /\ b \in Block(heap')
    BY <1>6, <1>8 DEF Good, Sound, Shape, Allocated
  <2> QED
    BY <2>1, BlockEnds
<1>10. heap'.size[b] >= n
  BY <1>2, <1>3, <1>8, <1>9
<1>11. Spares(Allocated(heap) \ {b})
  BY <1>8 DEF Keeps, Spares
<1> QED
  BY <1>1, <1>5, <1>8, <1>10, <1>11 DEF b

\* No arena is as large as the address of a pool: a size in front of a payload
\* is not taken for one.
Small(A) == \A j \in DOMAIN A, i \in Classes : A[j].size < PoolObject[i]

\* my_malloc maps no larger arena.
LEMMA SmallKept ==
  ASSUME Good(arenas, heap), Small(arenas), NEW n \in Requests, NEW q, General!my_malloc(n, q)
  PROVE  Small(arenas')
<1> DEFINE R == [base : Nat, size : Nat, used : Nat]
<1>1. arenas \in Seq(R)
  BY DEF Good, Sound, Shape, ArenasType
<1>2. CASE arenas' = arenas
  BY <1>2
<1>3. CASE General!BumpCurrent(n, q)
  <2> DEFINE k == Len(arenas)
  <2>1. arenas # << >> /\ arenas' = [arenas EXCEPT ![k].used = @ + General!needed(n)]
    BY <1>3 DEF General!BumpCurrent, General!CurrentHasRoom
  <2> HIDE DEF R
  <2>2. DOMAIN arenas = 1..k /\ \A j \in 1..k : arenas[j] \in R
    BY <1>1
  <2>3. DOMAIN arenas' = 1..k /\ \A j \in 1..k : arenas'[j].size = arenas[j].size
    <3>1. arenas' = [arenas EXCEPT ![k] = [arenas[k] EXCEPT !.used = @ + General!needed(n)]]
      BY <2>1
    <3>2. \A r \in R : \A v : [r EXCEPT !.used = v].size = r.size
      BY DEF R
    <3> QED
      BY <2>2, <3>1, <3>2
  <2> QED
    BY <2>2, <2>3 DEF Small
<1>4. CASE General!MapFresh(n, q)
  <2> DEFINE m == General!needed(n)
             s == round_up_to_page(Maximum(m, ArenaSize))
  <2>1. PICK fresh : arenas' = Append(arenas, fresh) /\ fresh.size = s
    BY <1>4, SameAddresses DEF General!MapFresh
  <2>2. m \in Nat /\ m <= n + 47
    <3>1. n \in Nat /\ n + 46 + PageSize <= SizeMax
      BY CallsAssumption, PageSizeAssumption DEF Slack, Alignment, HeaderSize, FooterSize
    <3>2. n + 15 <= SizeMax /\ align_up(n) + 32 \in 0..SizeMax
          /\ align_up(n) \in Nat /\ align_up(n) <= n + 15
      <4>1. n + 15 <= SizeMax
        BY <3>1, PageSizeAssumption, SizeMaxAssumption
      <4>2. align_up(n) \in Nat /\ align_up(n) <= n + 15
        BY <3>1, <4>1, AlignUp
      <4> QED
        BY <3>1, <4>1, <4>2, PageSizeAssumption, SizeMaxAssumption
    <3>3. m = size_t(align_up(n) + 32)
      BY <3>2, SameAddresses DEF General!needed
    <3> QED
      BY <3>1, <3>2, <3>3, SizeT
  <2> HIDE DEF m
  <2>3. s \in Nat /\ s <= Maximum(m, ArenaSize) + PageSize
    <3> DEFINE x == Maximum(m, ArenaSize)
    <3>1. x \in Nat /\ x + PageSize - 1 <= SizeMax
      <4>1. n + 46 + PageSize <= SizeMax /\ ArenaSize + 46 + PageSize <= SizeMax /\ n \in Nat
        BY CallsAssumption, PageSizeAssumption, ArenaSizeAssumption
        DEF Slack, Alignment, HeaderSize, FooterSize
      <4> QED
        BY <2>2, <4>1, PageSizeAssumption, ArenaSizeAssumption, SizeMaxAssumption DEF Maximum
    <3> HIDE DEF x
    <3>2. size_t(x + PageSize - 1) = x + PageSize - 1
      BY <3>1, PageSizeAssumption, SizeT
    <3>3. round_up_to_page(x) = (x + PageSize - 1) - ((x + PageSize - 1) % PageSize)
      BY <3>2 DEF round_up_to_page
    <3>4. round_up_to_page(x) \in Nat /\ round_up_to_page(x) <= x + PageSize
      BY <3>1, <3>3, PageSizeAssumption
    <3> QED
      BY <3>4 DEF x
  <2> HIDE DEF s
  <2>4. \A i \in Classes : s < PoolObject[i]
    <3>1. ASSUME NEW i \in Classes PROVE s < PoolObject[i]
      <4>1. /\ PoolObject[i] > n + 48 + PageSize /\ PoolObject[i] > ArenaSize + 48 + PageSize
            /\ PoolObject[i] \in Nat /\ n \in Nat
        BY PoolObjectAssumption, CallsAssumption, PageSizeAssumption, ArenaSizeAssumption
        DEF Alignment, HeaderSize, FooterSize
      <4> QED
        BY <2>2, <2>3, <4>1, PageSizeAssumption, ArenaSizeAssumption DEF Maximum
    <3> QED
      BY <3>1
  <2>5. /\ DOMAIN arenas = 1..Len(arenas) /\ DOMAIN arenas' = 1..(Len(arenas) + 1)
        /\ arenas'[Len(arenas) + 1] = fresh
        /\ \A j \in 1..Len(arenas) : arenas'[j] = arenas[j]
    <3> HIDE DEF R
    <3> QED
      BY <1>1, <2>1
  <2> QED
    BY <2>1, <2>4, <2>5 DEF Small
<1> QED
  BY <1>2, <1>3, <1>4 DEF General!my_malloc, General!Reuse, General!OutOfMemory

-----------------------------------------------------------------------------
(* The slots of a pool.                                                    *)

\* k slots of d bytes fit a region of s bytes when k <= s \div d.
LEMMA Multiples ==
  ASSUME NEW d \in Nat \ {0}, NEW s \in Nat, NEW k \in Nat
  PROVE  /\ s \div d \in Nat
         /\ k <= s \div d => k * d <= s
         /\ d <= s => s \div d >= 1
<1>1. /\ s \div d \in Nat /\ d * (s \div d) <= s /\ s < d * (s \div d) + d
  OBVIOUS
<1>2. k <= s \div d => k * d <= s
  <2>1. ASSUME NEW m \in Nat, k <= m PROVE k * d <= d * m
    BY <2>1
  <2>2. k * d \in Nat /\ d * (s \div d) \in Nat
    BY <1>1
  <2> QED
    BY <1>1, <2>1, <2>2
<1>3. s \div d = 0 => s < d
  BY <1>1
<1> QED
  BY <1>1, <1>2, <1>3

\* The regions that pool i may have mapped, and their slots.
RegionSize(i) == round_up_to_page(size_t(slot_total_size(i) * kSlotsPerArena))
RegionsAt(i) == [base : Bases, size : {RegionSize(i)}]
SlotsIn(i, R) == UNION {{Slot(i, a, k) : k \in 1..slot_count(i, a.size)} : a \in R}

\* A region has room for one slot and more.
LEMMA RegionSizes ==
  ASSUME NEW i \in Classes
  PROVE  /\ slot_total_size(i) \in Nat /\ slot_total_size(i) >= 32
         /\ RegionSize(i) \in Nat /\ RegionSize(i) >= slot_total_size(i)
         /\ slot_count(i, RegionSize(i)) \in Nat \ {0}
<1> DEFINE d == slot_total_size(i)
           m == d * kSlotsPerArena
<1>1. d \in Nat /\ d >= 32
  <2>1. kSizeClasses[i] \in Nat /\ kSizeClasses[i] >= 16
    <3>1. kSizeClasses[1] = 16
      BY DEF kSizeClasses
    <3>2. i \in 1..9 /\ 1 \in 1..9 /\ (i = 1 \/ 1 < i)
      BY TheClasses
    <3> QED
      BY <3>1, <3>2, TheClasses
  <2> QED
    BY <2>1 DEF slot_total_size, HeaderSize
<1>2. m \in Nat /\ m >= d /\ m + (PageSize - 1) <= SizeMax
  <2>1. d * kSlotsPerArena + (PageSize - 1) <= SizeMax
    BY CallsAssumption
  <2> HIDE DEF d
  <2>2. m \in Nat /\ m >= d
    BY <1>1, SlotsAssumption
  <2> QED
    BY <2>1, <2>2
<1> HIDE DEF m
<1>3. size_t(m) = m
  BY <1>2, PageSizeAssumption, SizeMaxAssumption, SizeT
<1>4. RegionSize(i) \in Nat /\ RegionSize(i) >= m
  <2>1. m + PageSize - 1 <= SizeMax
    BY <1>2, PageSizeAssumption
  <2>2. RegionSize(i) = round_up_to_page(m)
    BY <1>3 DEF RegionSize, m
  <2> QED
    BY <1>2, <2>1, <2>2, RoundUpToPage
<1>5. RegionSize(i) >= d
  <2> HIDE DEF d
  <2> QED
    BY <1>1, <1>2, <1>4
<1>6. RegionSize(i) \div d \in Nat /\ RegionSize(i) \div d >= 1
  <2> HIDE DEF d
  <2> QED
    BY <1>1, <1>4, <1>5, Multiples
<1>7. slot_count(i, RegionSize(i)) = RegionSize(i) \div d
  BY DEF slot_count
<1> QED
  BY <1>1, <1>4, <1>5, <1>6, <1>7

\* Slots lie inside their region, one after another.
LEMMA SlotPlaces ==
  ASSUME NEW i \in Classes, NEW a \in RegionsAt(i), NEW k \in 1..slot_count(i, a.size)
  PROVE  /\ a.base \in Nat /\ a.size \in Nat /\ a.base # Null
         /\ Slot(i, a, k) \in Nat /\ Slot(i, a, k) # Null
         /\ a.base <= Slot(i, a, k) /\ Slot(i, a, k) + 32 <= a.base + a.size
         /\ k = 1 => Slot(i, a, k) = a.base
         /\ k # 1 => /\ Slot(i, a, k) # a.base
                     /\ k - 1 \in 1..slot_count(i, a.size)
                     /\ Slot(i, a, k) - slot_total_size(i) = Slot(i, a, k - 1)
         /\ \A l \in 1..slot_count(i, a.size) : l # k => Slot(i, a, l) # Slot(i, a, k)
<1> DEFINE d == slot_total_size(i)
           n == slot_count(i, a.size)
<1>1. a.base \in Nat /\ a.base # Null /\ a.size = RegionSize(i)
  BY BasesAssumption DEF RegionsAt
<1>2. d \in Nat /\ d >= 32 /\ a.size \in Nat /\ n \in Nat \ {0} /\ n = a.size \div d
  BY <1>1, RegionSizes DEF slot_count
<1>3. \A l \in 1..n : Slot(i, a, l) = a.base + (l - 1) * d
  BY DEF Slot
<1> HIDE DEF d
<1>4. k \in Nat /\ k >= 1 /\ k * d <= a.size
  <2>1. k \in Nat /\ k >= 1 /\ k <= a.size \div d
    BY <1>2
  <2> QED
    BY <1>2, <2>1, Multiples
<1>5. (k - 1) * d = k * d - d /\ (k - 1) * d \in Nat /\ k * d \in Nat
  BY <1>2, <1>4
<1>6. k # 1 => /\ (k - 1) * d >= d /\ k - 1 \in 1..n
               /\ ((k - 1) - 1) * d = (k - 1) * d - d
  <2>1. k # 1 => k - 1 >= 1 /\ k - 1 \in Nat
    BY <1>4
  <2>2. \A l \in Nat : l >= 1 => l * d >= d /\ (l - 1) * d = l * d - d
    BY <1>2
  <2> QED
    BY <1>2, <1>4, <2>1, <2>2
<1>7. ASSUME NEW l \in 1..n, l # k PROVE (l - 1) * d # (k - 1) * d
  <2>1. \A x, y \in Nat : x < y => x * d < y * d
    <3>1. ASSUME NEW x \in Nat, NEW y \in Nat, x < y PROVE x * d < y * d
      <4>1. (x + 1) * d = x * d + d /\ (x + 1) * d <= y * d /\ x * d \in Nat /\ y * d \in Nat
        BY <1>2, <3>1
      <4> QED
        BY <1>2, <4>1
    <3> QED
      BY <3>1
  <2>2. l - 1 \in Nat /\ k - 1 \in Nat /\ (l - 1 < k - 1 \/ k - 1 < l - 1)
    BY <1>2, <1>4, <1>7
  <2>3. (l - 1) * d \in Nat /\ (k - 1) * d \in Nat
    BY <1>2, <2>2
  <2> QED
    BY <2>1, <2>2, <2>3
<1>8. k \in 1..n /\ Slot(i, a, k) = a.base + (k - 1) * d
  BY <1>3
<1>9. k # 1 => Slot(i, a, k - 1) = a.base + ((k - 1) - 1) * d
  BY <1>3, <1>6
<1>10. /\ Slot(i, a, k) \in Nat /\ Slot(i, a, k) # Null
       /\ a.base <= Slot(i, a, k) /\ Slot(i, a, k) + 32 <= a.base + a.size
       /\ k = 1 => Slot(i, a, k) = a.base
  <2>1. k = 1 => (k - 1) * d = 0
    BY <1>2
  <2> QED
    BY <1>1, <1>2, <1>4, <1>5, <1>8, <2>1 DEF Null
<1>11. k # 1 => Slot(i, a, k) # a.base /\ Slot(i, a, k) - d = Slot(i, a, k - 1)
  BY <1>1, <1>2, <1>5, <1>6, <1>8, <1>9
<1>12. \A l \in 1..n : l # k => Slot(i, a, l) # Slot(i, a, k)
  <2>1. ASSUME NEW l \in 1..n, l # k PROVE Slot(i, a, l) # Slot(i, a, k)
    <3>1. l - 1 \in Nat /\ (l - 1) * d \in Nat /\ (l - 1) * d # (k - 1) * d
      <4>1. l - 1 \in Nat
        BY <1>2
      <4> QED
        BY <1>2, <1>7, <2>1, <4>1
    <3> QED
      BY <1>1, <1>3, <1>5, <1>8, <3>1
  <2> QED
    BY <2>1
<1> QED
  BY <1>1, <1>2, <1>6, <1>10, <1>11, <1>12 DEF d

-----------------------------------------------------------------------------
(* The memory of both paths, when O are the headers in front of payloads   *)
(* that clients have.                                                      *)

\* The values of the fields of a pool.
Cells == [base : Nat, size : Nat]
PoolRecords == [arenas : SUBSET Cells, free_head : Nat]

\* w is the word of the slots, and pl the pools, of the right types.
PoolsType(pl, w) ==
  /\ pl \in [Classes -> PoolRecords]
  /\ DOMAIN w = UNION {SlotsIn(i, pl[i].arenas) : i \in Classes}
  /\ w \in [DOMAIN w -> Nat]

\* No two regions overlap, whatever they are for.
PoolsApart(A, pl) ==
  /\ \A i \in Classes : pl[i].arenas \subseteq RegionsAt(i)
  /\ \A i, j \in Classes : \A a \in pl[i].arenas, b \in pl[j].arenas :
       (i = j /\ a = b) \/ Disjoint(a, b)
  /\ \A i \in Classes : \A a \in pl[i].arenas, j \in DOMAIN A : Disjoint(a, A[j])

\* From first, the links of the slots F stay in F, no two alike, and none leads
\* back to first: a slot that is popped is in nobody's way.
Chained(w, F, first) ==
  /\ first \in F \cup {Null}
  /\ \A s \in F : w[s] \in F \cup {Null} /\ (w[s] # Null => w[s] # first)
  /\ \A s, t \in F : w[s] = w[t] /\ w[s] # Null => s = t

\* h is a slot of pool i that carries its tag.
InSlot(pl, w, i, h) ==
  /\ h \in SlotsIn(i, pl[i].arenas)
  /\ h \in DOMAIN w /\ w[h] = PoolObject[i]

Memory(A, hp, pl, w, O) ==
  /\ Good(A, hp) /\ Small(A)
  /\ PoolsType(pl, w) /\ PoolsApart(A, pl)
  /\ \A i \in Classes : Chained(w, SlotsIn(i, pl[i].arenas) \ O, pl[i].free_head)
  /\ \A h \in O : (\E i \in Classes : InSlot(pl, w, i, h)) \/ h \in Allocated(hp)

\* A slot lies in a region of its pool.
LEMMA InRegion ==
  ASSUME NEW i \in Classes, NEW R, R \subseteq RegionsAt(i), NEW s \in SlotsIn(i, R)
  PROVE  \E a \in R : /\ a.base \in Nat /\ a.size \in Nat /\ s \in Nat /\ s # Null
                      /\ a.base <= s /\ s + 32 <= a.base + a.size
<1>1. PICK a \in R : \E k \in 1..slot_count(i, a.size) : s = Slot(i, a, k)
  BY DEF SlotsIn
<1>2. PICK k \in 1..slot_count(i, a.size) : s = Slot(i, a, k)
  BY <1>1
<1> QED
  BY <1>2, SlotPlaces

\* What lies in one region does not lie in a disjoint one.
LEMMA NotBoth ==
  ASSUME NEW a, NEW b, a.base \in Nat, a.size \in Nat, b.base \in Nat, b.size \in Nat,
         Disjoint(a, b), NEW s \in Nat, NEW t \in Nat,
         a.base <= s, s + 32 <= a.base + a.size,
         b.base <= t, t + 32 <= b.base + b.size
  PROVE  s # t
BY DEF Disjoint

\* A slot belongs to one pool, and is no block.
LEMMA OnePool ==
  ASSUME NEW A, NEW hp, NEW pl, Good(A, hp), PoolsApart(A, pl),
         NEW i \in Classes, NEW s \in SlotsIn(i, pl[i].arenas)
  PROVE  /\ s \in Nat /\ s # Null
         /\ \A j \in Classes : s \in SlotsIn(j, pl[j].arenas) => j = i
         /\ s \notin Block(hp)
<1>1. PICK a \in pl[i].arenas : /\ a.base \in Nat /\ a.size \in Nat /\ s \in Nat /\ s # Null
                                /\ a.base <= s /\ s + 32 <= a.base + a.size
  BY InRegion DEF PoolsApart
<1>2. ASSUME NEW j \in Classes, s \in SlotsIn(j, pl[j].arenas) PROVE j = i
  <2>1. PICK b \in pl[j].arenas : /\ b.base \in Nat /\ b.size \in Nat
                                  /\ b.base <= s /\ s + 32 <= b.base + b.size
    BY <1>2, InRegion DEF PoolsApart
  <2>2. ~Disjoint(a, b)
    BY <1>1, <2>1, NotBoth
  <2> QED
    BY <2>2 DEF PoolsApart
<1>3. ASSUME s \in Block(hp) PROVE FALSE
  <2>1. ArenasType(A) /\ ArenasApart(A) /\ HeapType(hp) /\ Tiled(A, hp)
    BY DEF Good, Sound, Shape
  <2>2. PICK j \in DOMAIN A : Within(A, hp, j, s)
    BY <1>3, <2>1 DEF Tiled
  <2>3. /\ A[j].base \in Nat /\ A[j].size \in Nat /\ A[j].used \in Nat
        /\ CarvedEnd(A[j]) = A[j].base + A[j].used
    BY <2>1, ArenaEnds
  <2>4. A[j].used <= A[j].size
    BY <2>1 DEF ArenasApart
  <2>5. hp.size[s] \in Nat /\ next_physical_header(hp, s) = s + 32 + hp.size[s]
    BY <1>3, <2>1, BlockEnds
  <2>6. A[j].base <= s /\ s + 32 <= A[j].base + A[j].size
    BY <1>1, <2>2, <2>3, <2>4, <2>5 DEF Within
  <2>7. ~Disjoint(a, A[j])
    BY <1>1, <2>3, <2>6, NotBoth
  <2> QED
    BY <2>7 DEF PoolsApart
<1> QED
  BY <1>1, <1>2, <1>3

\* The block in front of a payload is too small to be taken for a pool.
LEMMA BlockIsSmall ==
  ASSUME NEW A, NEW hp, Good(A, hp), Small(A), NEW b \in Block(hp), NEW i \in Classes
  PROVE  b \in Nat /\ hp.size[b] \in Nat /\ hp.size[b] < PoolObject[i]
<1>1. ArenasType(A) /\ ArenasApart(A) /\ HeapType(hp) /\ Tiled(A, hp)
  BY DEF Good, Sound, Shape
<1>2. PICK j \in DOMAIN A : Within(A, hp, j, b)
  BY <1>1 DEF Tiled
<1>3. /\ A[j].base \in Nat /\ A[j].size \in Nat /\ A[j].used \in Nat
      /\ CarvedEnd(A[j]) = A[j].base + A[j].used
  BY <1>1, ArenaEnds
<1>4. A[j].used <= A[j].size
  BY <1>1 DEF ArenasApart
<1>5. b \in Nat /\ hp.size[b] \in Nat /\ next_physical_header(hp, b) = b + 32 + hp.size[b]
  BY <1>1, BlockEnds
<1>6. hp.size[b] <= A[j].size
  BY <1>2, <1>3, <1>4, <1>5 DEF Within
<1>7. A[j].size < PoolObject[i] /\ PoolObject[i] \in Nat
  BY PoolObjectAssumption DEF Small
<1> QED
  BY <1>3, <1>5, <1>6, <1>7

\* Pool i with other fields.
WithPool(pl, i, R, f) == [pl EXCEPT ![i] = [arenas |-> R, free_head |-> f]]

\* Its type, and the other pools.
LEMMA PoolFields ==
  ASSUME NEW pl, pl \in [Classes -> PoolRecords],
         NEW i \in Classes, NEW R \in SUBSET Cells, NEW f \in Nat,
         NEW pl2, WithPool(pl, i, R, f) = pl2
  PROVE  /\ pl2 \in [Classes -> PoolRecords]
         /\ pl2[i].arenas = R /\ pl2[i].free_head = f
         /\ \A j \in Classes \ {i} : pl2[j] = pl[j]
<1> DEFINE p == [arenas |-> R, free_head |-> f]
           P == PoolRecords
<1>1. p \in P /\ p.arenas = R /\ p.free_head = f
  BY DEF PoolRecords
<1> HIDE DEF p
<1>2. pl2 = [pl EXCEPT ![i] = p]
  BY DEF p, WithPool
<1>3. pl \in [Classes -> P]
  OBVIOUS
<1> HIDE DEF P
<1>4. pl2 \in [Classes -> P] /\ pl2[i] = p /\ \A j \in Classes \ {i} : pl2[j] = pl[j]
  BY <1>1, <1>2, <1>3
<1> QED
  BY <1>1, <1>4 DEF P

\* The first free slot of a pool leaves its list and is tagged.
LEMMA PopMemory ==
  ASSUME NEW A, NEW hp, NEW pl, NEW w, NEW O, Memory(A, hp, pl, w, O),
         NEW i \in Classes, NEW s, s = pl[i].free_head, s # Null,
         NEW pl2, pl2 = WithPool(pl, i, pl[i].arenas, w[s]),
         NEW w2, w2 = Put(w, s, PoolObject[i])
  PROVE  /\ s \in Nat /\ s \notin O
         /\ Memory(A, hp, pl2, w2, O \cup {s})
         /\ InSlot(pl2, w2, i, s)
         /\ \A j \in Classes, h \in O : InSlot(pl, w, j, h) => InSlot(pl2, w2, j, h)
<1> DEFINE S(j) == SlotsIn(j, pl[j].arenas)
<1>1. /\ PoolsType(pl, w) /\ PoolsApart(A, pl) /\ Good(A, hp) /\ Small(A)
      /\ \A j \in Classes : Chained(w, S(j) \ O, pl[j].free_head)
      /\ \A h \in O : (\E j \in Classes : InSlot(pl, w, j, h)) \/ h \in Allocated(hp)
  BY DEF Memory
<1>2. s \in S(i) \ O /\ w[s] \in (S(i) \ O) \cup {Null} /\ (w[s] # Null => w[s] # s)
  BY <1>1 DEF Chained
<1>3. s \in Nat /\ \A j \in Classes : s \in S(j) => j = i
  BY <1>1, <1>2, OnePool
<1>4. s \in DOMAIN w /\ w[s] \in Nat /\ PoolObject[i] \in Nat
  BY <1>1, <1>2, PoolObjectAssumption DEF PoolsType
<1>5. /\ pl2 \in [Classes -> PoolRecords]
      /\ pl2[i].arenas = pl[i].arenas /\ pl2[i].free_head = w[s]
      /\ \A j \in Classes \ {i} : pl2[j] = pl[j]
  <2>1. pl[i].arenas \in SUBSET Cells
    BY <1>1 DEF PoolsType, PoolRecords
  <2>2. pl \in [Classes -> PoolRecords]
    BY <1>1 DEF PoolsType
  <2> QED
    BY <1>4, <2>1, <2>2, PoolFields
<1>6. \A j \in Classes : pl2[j].arenas = pl[j].arenas /\ SlotsIn(j, pl2[j].arenas) = S(j)
  BY <1>5
<1> HIDE DEF S
<1>7. /\ DOMAIN w2 = DOMAIN w /\ w2[s] = PoolObject[i]
      /\ \A t \in DOMAIN w \ {s} : w2[t] = w[t]
      /\ w2 \in [DOMAIN w2 -> Nat]
  <2>1. w \in [DOMAIN w -> Nat]
    BY <1>1 DEF PoolsType
  <2> QED
    BY <1>4, <2>1 DEF Put
<1>8. \A j \in Classes : S(j) \subseteq DOMAIN w
  BY <1>1 DEF PoolsType, S
<1>9. PoolsType(pl2, w2)
  <2>1. UNION {SlotsIn(j, pl2[j].arenas) : j \in Classes}
          = UNION {SlotsIn(j, pl[j].arenas) : j \in Classes}
    BY <1>6 DEF S
  <2>2. DOMAIN w = UNION {SlotsIn(j, pl[j].arenas) : j \in Classes}
    BY <1>1 DEF PoolsType
  <2> QED
    BY <1>5, <1>7, <2>1, <2>2 DEF PoolsType
<1>10. PoolsApart(A, pl2)
  BY <1>1, <1>6 DEF PoolsApart
<1>11. ASSUME NEW j \in Classes
       PROVE  Chained(w2, S(j) \ (O \cup {s}), pl2[j].free_head)
  <2>1. \A t \in S(j) \ (O \cup {s}) : w2[t] = w[t]
    BY <1>7, <1>8
  <2>2. CASE j = i
    <3> DEFINE F == S(i) \ O
    <3>1. Chained(w, F, s) /\ s \in F /\ S(i) \ (O \cup {s}) = F \ {s}
      BY <1>1, <1>2
    <3>2. w[s] \in F \cup {Null} /\ (w[s] # Null => w[s] # s)
      BY <1>2
    <3> HIDE DEF F
    <3>3. \A t \in F \ {s} : w[t] \in (F \ {s}) \cup {Null} /\ (w[t] # Null => w[t] # w[s])
      BY <3>1 DEF Chained
    <3>4. w[s] \in (F \ {s}) \cup {Null}
      BY <3>2
    <3>5. Chained(w2, F \ {s}, w[s])
      BY <2>1, <2>2, <3>1, <3>3, <3>4 DEF Chained
    <3> QED
      BY <1>5, <2>2, <3>1, <3>5
  <2>3. CASE j # i
    <3>1. s \notin S(j) /\ S(j) \ (O \cup {s}) = S(j) \ O
      BY <1>3, <2>3
    <3>2. pl2[j].free_head = pl[j].free_head
      BY <1>5, <2>3
    <3> QED
      BY <1>1, <2>1, <3>1, <3>2 DEF Chained
  <2> QED
    BY <2>2, <2>3
<1>12. InSlot(pl2, w2, i, s)
  BY <1>2, <1>4, <1>6, <1>7 DEF InSlot
<1>13. \A j \in Classes, h \in O : InSlot(pl, w, j, h) => InSlot(pl2, w2, j, h)
  <2>1. ASSUME NEW j \in Classes, NEW h \in O, InSlot(pl, w, j, h)
        PROVE  InSlot(pl2, w2, j, h)
    <3>1. h # s /\ h \in S(j) /\ h \in DOMAIN w /\ w[h] = PoolObject[j]
      BY <1>2, <2>1 DEF InSlot, S
    <3> QED
      BY <1>6, <1>7, <3>1 DEF InSlot
  <2> QED
    BY <2>1
<1>14. \A h \in O \cup {s} : (\E j \in Classes : InSlot(pl2, w2, j, h)) \/ h \in Allocated(hp)
  BY <1>1, <1>12, <1>13
<1>15. Memory(A, hp, pl2, w2, O \cup {s})
  BY <1>1, <1>6, <1>9, <1>10, <1>11, <1>14 DEF Memory
<1> QED
  BY <1>2, <1>3, <1>12, <1>13, <1>15

\* A slot that a client gives back is the first of the list of its pool again.
LEMMA PushMemory ==
  ASSUME NEW A, NEW hp, NEW pl, NEW w, NEW O, Memory(A, hp, pl, w, O),
         NEW i \in Classes, NEW s \in O, InSlot(pl, w, i, s),
         NEW pl2, pl2 = WithPool(pl, i, pl[i].arenas, s),
         NEW w2, w2 = Put(w, s, pl[i].free_head)
  PROVE  /\ Memory(A, hp, pl2, w2, O \ {s})
         /\ \A j \in Classes, h \in O \ {s} : InSlot(pl, w, j, h) => InSlot(pl2, w2, j, h)
<1> DEFINE S(j) == SlotsIn(j, pl[j].arenas)
<1>1. /\ PoolsType(pl, w) /\ PoolsApart(A, pl) /\ Good(A, hp) /\ Small(A)
      /\ \A j \in Classes : Chained(w, S(j) \ O, pl[j].free_head)
      /\ \A h \in O : (\E j \in Classes : InSlot(pl, w, j, h)) \/ h \in Allocated(hp)
  BY DEF Memory
<1>2. s \in S(i) /\ s \in DOMAIN w
  BY DEF InSlot
<1>3. s \in Nat /\ s # Null /\ \A j \in Classes : s \in S(j) => j = i
  BY <1>1, <1>2, OnePool
<1>4. pl[i].arenas \in SUBSET Cells /\ pl[i].free_head \in Nat
  BY <1>1 DEF PoolsType, PoolRecords
<1>5. /\ pl2 \in [Classes -> PoolRecords]
      /\ pl2[i].arenas = pl[i].arenas /\ pl2[i].free_head = s
      /\ \A j \in Classes \ {i} : pl2[j] = pl[j]
  <2>1. pl \in [Classes -> PoolRecords]
    BY <1>1 DEF PoolsType
  <2>2. ASSUME NEW R \in SUBSET Cells, pl2 = WithPool(pl, i, R, s)
        PROVE  /\ pl2 \in [Classes -> PoolRecords]
               /\ pl2[i].arenas = R /\ pl2[i].free_head = s
               /\ \A j \in Classes \ {i} : pl2[j] = pl[j]
    BY <1>3, <2>1, <2>2, PoolFields
  <2> QED
    BY <1>4, <2>2
<1>6. \A j \in Classes : pl2[j].arenas = pl[j].arenas /\ SlotsIn(j, pl2[j].arenas) = S(j)
  BY <1>5
<1> HIDE DEF S
<1>7. /\ DOMAIN w2 = DOMAIN w /\ w2[s] = pl[i].free_head
      /\ \A t \in DOMAIN w \ {s} : w2[t] = w[t]
      /\ w2 \in [DOMAIN w2 -> Nat]
  <2>1. w \in [DOMAIN w -> Nat]
    BY <1>1 DEF PoolsType
  <2> QED
    BY <1>2, <1>4, <2>1 DEF Put
<1>8. \A j \in Classes : S(j) \subseteq DOMAIN w
  BY <1>1 DEF PoolsType, S
<1>9. PoolsType(pl2, w2)
  <2>1. UNION {SlotsIn(j, pl2[j].arenas) : j \in Classes}
          = UNION {SlotsIn(j, pl[j].arenas) : j \in Classes}
    BY <1>6 DEF S
  <2>2. DOMAIN w = UNION {SlotsIn(j, pl[j].arenas) : j \in Classes}
    BY <1>1 DEF PoolsType
  <2> QED
    BY <1>5, <1>7, <2>1, <2>2 DEF PoolsType
<1>10. PoolsApart(A, pl2)
  BY <1>1, <1>6 DEF PoolsApart
<1>11. ASSUME NEW j \in Classes
       PROVE  Chained(w2, S(j) \ (O \ {s}), pl2[j].free_head)
  <2>1. \A t \in S(j) \ O : w2[t] = w[t]
    BY <1>7, <1>8
  <2>2. CASE j = i
    <3> DEFINE F == S(i) \ O
    <3>1. Chained(w, F, pl[i].free_head) /\ s \notin F /\ S(i) \ (O \ {s}) = F \cup {s}
      BY <1>1, <1>2
    <3>2. \A t \in F : w2[t] = w[t]
      BY <2>1, <2>2
    <3> HIDE DEF F
    <3>3. Chained(w2, F \cup {s}, s)
      BY <1>3, <1>7, <3>1, <3>2 DEF Chained
    <3> QED
      BY <1>5, <2>2, <3>1, <3>3
  <2>3. CASE j # i
    <3>1. s \notin S(j) /\ S(j) \ (O \ {s}) = S(j) \ O
      BY <1>3, <2>3
    <3>2. pl2[j].free_head = pl[j].free_head
      BY <1>5, <2>3
    <3> QED
      BY <1>1, <2>1, <3>1, <3>2 DEF Chained
  <2> QED
    BY <2>2, <2>3
<1>12. \A j \in Classes, h \in O \ {s} : InSlot(pl, w, j, h) => InSlot(pl2, w2, j, h)
  <2>1. ASSUME NEW j \in Classes, NEW h \in O \ {s}, InSlot(pl, w, j, h)
        PROVE  InSlot(pl2, w2, j, h)
    <3>1. h # s /\ h \in S(j) /\ h \in DOMAIN w /\ w[h] = PoolObject[j]
      BY <2>1 DEF InSlot, S
    <3> QED
      BY <1>6, <1>7, <3>1 DEF InSlot
  <2> QED
    BY <2>1
<1>13. \A h \in O \ {s} : (\E j \in Classes : InSlot(pl2, w2, j, h)) \/ h \in Allocated(hp)
  BY <1>1, <1>12
<1> QED
  BY <1>1, <1>6, <1>9, <1>10, <1>11, <1>12, <1>13 DEF Memory

\* The links that the slots of a fresh region get: each leads to the one
\* before it, from the last to the first.
Links(i, a) ==
  [s \in SlotsIn(i, {a}) |-> IF s = a.base THEN Null ELSE s - slot_total_size(i)]

LEMMA CarvedChain ==
  ASSUME NEW i \in Classes, NEW a \in RegionsAt(i)
  PROVE  LET S == SlotsIn(i, {a})
             v == Links(i, a)
             last == Slot(i, a, slot_count(i, a.size)) IN
         /\ DOMAIN v = S /\ v \in [S -> Nat]
         /\ S \subseteq Nat /\ Null \notin S /\ last \in S
         /\ Chained(v, S, last)
<1> DEFINE n == slot_count(i, a.size)
           S == {Slot(i, a, k) : k \in 1..n}
           d == slot_total_size(i)
           v == Links(i, a)
           last == Slot(i, a, n)
<1>1. SlotsIn(i, {a}) = S
  BY DEF SlotsIn
<1>2. n \in Nat \ {0} /\ n \in 1..n
  BY RegionSizes DEF RegionsAt
<1>3. v = [s \in S |-> IF s = a.base THEN Null ELSE s - d]
  BY <1>1 DEF Links
<1> HIDE DEF v, n
<1>4. ASSUME NEW k \in 1..n
      PROVE  /\ Slot(i, a, k) \in Nat /\ Slot(i, a, k) # Null
             /\ k = 1 => v[Slot(i, a, k)] = Null
             /\ k # 1 => k - 1 \in 1..n /\ v[Slot(i, a, k)] = Slot(i, a, k - 1)
             /\ \A l \in 1..n : l # k => Slot(i, a, l) # Slot(i, a, k)
  <2>1. Slot(i, a, k) \in S
    OBVIOUS
  <2>2. v[Slot(i, a, k)] = IF Slot(i, a, k) = a.base THEN Null ELSE Slot(i, a, k) - d
    BY <1>3, <2>1
  <2> QED
    BY <1>4, <2>2, SlotPlaces DEF n
<1> HIDE DEF d
<1>5. S \subseteq Nat /\ Null \notin S /\ last \in S
  BY <1>2, <1>4
<1>6. ASSUME NEW s \in S
      PROVE  v[s] \in S \cup {Null} /\ (v[s] # Null => v[s] # last)
  <2>1. PICK k \in 1..n : s = Slot(i, a, k)
    BY <1>6
  <2>2. CASE k = 1
    BY <1>4, <2>1, <2>2
  <2>3. CASE k # 1
    <3>1. k - 1 \in 1..n /\ v[s] = Slot(i, a, k - 1) /\ k - 1 # n
      BY <1>2, <1>4, <2>1, <2>3
    <3>2. Slot(i, a, k - 1) # last
      BY <1>2, <1>4, <3>1
    <3> QED
      BY <3>1, <3>2
  <2> QED
    BY <2>2, <2>3
<1>7. ASSUME NEW s \in S, NEW t \in S, v[s] = v[t], v[s] # Null PROVE s = t
  <2>1. PICK k \in 1..n : s = Slot(i, a, k)
    BY <1>7
  <2>2. PICK l \in 1..n : t = Slot(i, a, l)
    BY <1>7
  <2>3. k # 1 /\ l # 1
    BY <1>4, <1>7, <2>1, <2>2
  <2>4. k - 1 \in 1..n /\ l - 1 \in 1..n /\ Slot(i, a, k - 1) = Slot(i, a, l - 1)
    BY <1>4, <1>7, <2>1, <2>2, <2>3
  <2>5. k - 1 = l - 1
    BY <1>4, <2>4
  <2>6. k \in Int /\ l \in Int
    BY <1>2
  <2> QED
    BY <2>1, <2>2, <2>5, <2>6
<1>8. DOMAIN v = S
  BY <1>3
<1>9. v \in [S -> Nat]
  <2>1. \A s \in S : v[s] \in Nat
    BY <1>5, <1>6 DEF Null
  <2> HIDE DEF S
  <2>2. v = [s \in S |-> v[s]]
    BY <1>3
  <2> QED
    BY <2>1, <2>2
<1>10. Chained(v, S, last)
  BY <1>5, <1>6, <1>7 DEF Chained
<1> HIDE DEF S, last
<1> QED
  BY <1>1, <1>5, <1>8, <1>9, <1>10 DEF v, last, n

\* The words of v, and of w where v has none.
Beside(v, w) ==
  [s \in DOMAIN v \cup DOMAIN w |-> IF s \in DOMAIN v THEN v[s] ELSE w[s]]

\* Pool i may map a; and a is carved into its list, which ends with last.
MayMap(A, pl, i, a) ==
  /\ a \in RegionsAt(i)
  /\ \A j \in Classes : \A r \in pl[j].arenas : Disjoint(a, r)
  /\ \A j \in DOMAIN A : Disjoint(a, A[j])

CarvedIn(pl, w, i, a, last, pl2, w2) ==
  /\ last = Slot(i, a, slot_count(i, a.size))
  /\ pl2 = WithPool(pl, i, pl[i].arenas \cup {a}, last)
  /\ w2 = Beside(Links(i, a), w)

\* A fresh region is carved into the list of a pool that has run out.
LEMMA ExpandMemory ==
  ASSUME NEW A, NEW hp, NEW pl, NEW w, NEW O, Memory(A, hp, pl, w, O),
         NEW i \in Classes, pl[i].free_head = Null, NEW a, MayMap(A, pl, i, a),
         NEW last, NEW pl2, NEW w2, CarvedIn(pl, w, i, a, last, pl2, w2)
  PROVE  /\ last # Null
         /\ Memory(A, hp, pl2, w2, O)
         /\ \A j \in Classes, h \in O : InSlot(pl, w, j, h) => InSlot(pl2, w2, j, h)
<1> DEFINE T(j) == SlotsIn(j, pl[j].arenas)
           S == SlotsIn(i, {a})
           v == Links(i, a)
<1>0. /\ a \in RegionsAt(i)
      /\ \A j \in Classes : \A r \in pl[j].arenas : Disjoint(a, r)
      /\ \A j \in DOMAIN A : Disjoint(a, A[j])
      /\ last = Slot(i, a, slot_count(i, a.size))
      /\ w2 = Beside(Links(i, a), w)
  BY DEF MayMap, CarvedIn
<1>1. /\ PoolsType(pl, w) /\ PoolsApart(A, pl) /\ Good(A, hp) /\ Small(A)
      /\ \A j \in Classes : Chained(w, T(j) \ O, pl[j].free_head)
      /\ \A h \in O : (\E j \in Classes : InSlot(pl, w, j, h)) \/ h \in Allocated(hp)
  BY DEF Memory
<1>2. /\ DOMAIN v = S /\ v \in [S -> Nat]
      /\ S \subseteq Nat /\ Null \notin S /\ last \in S
      /\ Chained(v, S, last)
  BY <1>0, CarvedChain
<1>3. a \in Cells
  BY <1>0, BasesAssumption, RegionSizes DEF RegionsAt, Cells
<1>4. /\ pl2 \in [Classes -> PoolRecords]
      /\ pl2[i].arenas = pl[i].arenas \cup {a} /\ pl2[i].free_head = last
      /\ \A j \in Classes \ {i} : pl2[j] = pl[j]
  <2> DEFINE R == pl[i].arenas \cup {a}
  <2>1. R \in SUBSET Cells
    BY <1>1, <1>3 DEF PoolsType, PoolRecords
  <2>2. pl \in [Classes -> PoolRecords] /\ last \in Nat
    BY <1>1, <1>2 DEF PoolsType
  <2>3. ASSUME NEW Q \in SUBSET Cells, pl2 = WithPool(pl, i, Q, last)
        PROVE  /\ pl2 \in [Classes -> PoolRecords]
               /\ pl2[i].arenas = Q /\ pl2[i].free_head = last
               /\ \A j \in Classes \ {i} : pl2[j] = pl[j]
    BY <2>2, <2>3, PoolFields
  <2>4. pl2 = WithPool(pl, i, R, last)
    BY DEF CarvedIn
  <2> HIDE DEF R
  <2>5. /\ pl2 \in [Classes -> PoolRecords]
        /\ pl2[i].arenas = R /\ pl2[i].free_head = last
        /\ \A j \in Classes \ {i} : pl2[j] = pl[j]
    BY <2>1, <2>3, <2>4
  <2> QED
    BY <2>5 DEF R
<1>5. PoolsApart(A, pl2)
  <2>1. ASSUME NEW j \in Classes, NEW k \in Classes,
               NEW b \in pl2[j].arenas, NEW c \in pl2[k].arenas
        PROVE  (j = k /\ b = c) \/ Disjoint(b, c)
    <3>1. CASE b \in pl[j].arenas /\ c \in pl[k].arenas
      BY <1>1, <3>1 DEF PoolsApart
    <3>2. CASE j = i /\ b = a /\ c \in pl[k].arenas
      BY <1>0, <3>2
    <3>3. CASE k = i /\ c = a /\ b \in pl[j].arenas
      BY <1>0, <3>3 DEF Disjoint
    <3>4. CASE j = i /\ b = a /\ k = i /\ c = a
      BY <3>4
    <3> QED
      BY <1>4, <3>1, <3>2, <3>3, <3>4
  <2>2. \A j \in Classes : pl2[j].arenas \subseteq RegionsAt(j)
    <3>1. pl2[i].arenas \subseteq RegionsAt(i)
      BY <1>0, <1>1, <1>4 DEF PoolsApart
    <3>2. \A j \in Classes \ {i} : pl2[j].arenas \subseteq RegionsAt(j)
      BY <1>0, <1>1, <1>4 DEF PoolsApart
    <3> QED
      BY <3>1, <3>2
  <2>3. \A j \in Classes : \A b \in pl2[j].arenas, k \in DOMAIN A : Disjoint(b, A[k])
    <3>1. \A b \in pl2[i].arenas, k \in DOMAIN A : Disjoint(b, A[k])
      BY <1>0, <1>1, <1>4 DEF PoolsApart
    <3>2. ASSUME NEW j \in Classes \ {i}
          PROVE  \A b \in pl2[j].arenas, k \in DOMAIN A : Disjoint(b, A[k])
      BY <1>0, <1>1, <1>4 DEF PoolsApart
    <3> QED
      BY <3>1, <3>2
  <2> QED
    BY <2>1, <2>2, <2>3 DEF PoolsApart
<1>6. /\ SlotsIn(i, pl2[i].arenas) = T(i) \cup S
      /\ \A j \in Classes \ {i} : SlotsIn(j, pl2[j].arenas) = T(j)
  <2>1. SlotsIn(i, pl[i].arenas \cup {a}) = SlotsIn(i, pl[i].arenas) \cup SlotsIn(i, {a})
    BY DEF SlotsIn
  <2> QED
    BY <1>4, <2>1
<1>7. ASSUME NEW j \in Classes, NEW s \in S, NEW t \in T(j) PROVE s # t
  <2>1. PICK b \in {a} : /\ b.base \in Nat /\ b.size \in Nat /\ s \in Nat
                         /\ b.base <= s /\ s + 32 <= b.base + b.size
    BY <1>0, InRegion
  <2>2. PICK c \in pl[j].arenas : /\ c.base \in Nat /\ c.size \in Nat /\ t \in Nat
                                  /\ c.base <= t /\ t + 32 <= c.base + c.size
    BY <1>1, InRegion DEF PoolsApart
  <2>3. Disjoint(b, c)
    BY <1>0
  <2> QED
    BY <2>1, <2>2, <2>3, NotBoth
<1>8. \A j \in Classes : T(j) \subseteq DOMAIN w
  BY <1>1 DEF PoolsType
<1>9. \A s \in S : s \notin DOMAIN w /\ s \notin Block(hp)
  <2>1. \A s \in S : s \in SlotsIn(i, pl2[i].arenas)
    BY <1>6
  <2>2. ASSUME NEW s \in S PROVE s \notin Block(hp)
    <3>1. s \in SlotsIn(i, pl2[i].arenas)
      BY <2>1
    <3>2. Good(A, hp)
      BY <1>1
    <3>3. ASSUME NEW pq, PoolsApart(A, pq), s \in SlotsIn(i, pq[i].arenas)
          PROVE  s \notin Block(hp)
      BY <3>2, <3>3, OnePool
    <3> QED
      BY <1>5, <3>1, <3>3
  <2>3. DOMAIN w = UNION {T(j) : j \in Classes}
    BY <1>1 DEF PoolsType
  <2> QED
    BY <1>7, <2>2, <2>3
<1> HIDE DEF S, T, v
<1>10. /\ DOMAIN w2 = S \cup DOMAIN w
       /\ \A s \in S : w2[s] = v[s]
       /\ \A s \in DOMAIN w : w2[s] = w[s]
       /\ w2 \in [DOMAIN w2 -> Nat]
  <2>1. w2 = [x \in DOMAIN v \cup DOMAIN w |-> IF x \in DOMAIN v THEN v[x] ELSE w[x]]
    BY <1>0 DEF Beside, v
  <2>2. w \in [DOMAIN w -> Nat]
    BY <1>1 DEF PoolsType
  <2> QED
    BY <1>2, <1>9, <2>1, <2>2
<1>11. PoolsType(pl2, w2)
  <2>1. DOMAIN w = UNION {T(j) : j \in Classes}
    BY <1>1 DEF PoolsType, T
  <2>2. DOMAIN w2 = UNION {SlotsIn(j, pl2[j].arenas) : j \in Classes}
    <3> DEFINE U(j) == SlotsIn(j, pl2[j].arenas)
    <3>1. U(i) = T(i) \cup S /\ \A j \in Classes \ {i} : U(j) = T(j)
      BY <1>6
    <3> HIDE DEF U
    <3>2. UNION {U(j) : j \in Classes} = S \cup UNION {T(j) : j \in Classes}
      BY <3>1
    <3> QED
      BY <1>10, <2>1, <3>2 DEF U
  <2> QED
    BY <1>4, <1>10, <2>2 DEF PoolsType
<1>12. S \cap O = {}
  <2>1. ASSUME NEW h \in O, h \in S PROVE FALSE
    <3>1. CASE \E j \in Classes : InSlot(pl, w, j, h)
      BY <1>9, <2>1, <3>1 DEF InSlot
    <3>2. CASE h \in Allocated(hp)
      BY <1>9, <2>1, <3>2 DEF Allocated
    <3> QED
      BY <1>1, <3>1, <3>2
  <2> QED
    BY <2>1
<1>13. ASSUME NEW j \in Classes
       PROVE  Chained(w2, SlotsIn(j, pl2[j].arenas) \ O, pl2[j].free_head)
  <2>1. Chained(w, T(j) \ O, pl[j].free_head) /\ \A s \in T(j) : w2[s] = w[s]
    BY <1>1, <1>8, <1>10
  <2>2. CASE j = i
    <3> DEFINE F == T(i) \ O
    <3>1. Chained(w, F, Null) /\ \A s \in F : w2[s] = w[s]
      BY <2>1, <2>2
    <3>2. SlotsIn(i, pl2[i].arenas) \ O = F \cup S
      BY <1>6, <1>12
    <3>3. F \cap S = {}
      BY <1>7
    <3> HIDE DEF F
    <3>4. Chained(w2, F \cup S, last)
      BY <1>2, <1>10, <3>1, <3>3 DEF Chained
    <3> QED
      BY <1>4, <2>2, <3>2, <3>4
  <2>3. CASE j # i
    <3>1. SlotsIn(j, pl2[j].arenas) = T(j) /\ pl2[j].free_head = pl[j].free_head
      BY <1>4, <1>6, <2>3
    <3> QED
      BY <2>1, <3>1 DEF Chained
  <2> QED
    BY <2>2, <2>3
<1>14. \A j \in Classes, h \in O : InSlot(pl, w, j, h) => InSlot(pl2, w2, j, h)
  <2>1. ASSUME NEW j \in Classes, NEW h \in O, InSlot(pl, w, j, h)
        PROVE  InSlot(pl2, w2, j, h)
    <3>1. h \in T(j) /\ h \in DOMAIN w /\ w[h] = PoolObject[j]
      BY <2>1 DEF InSlot, T
    <3> QED
      BY <1>6, <1>10, <3>1 DEF InSlot
  <2> QED
    BY <2>1
<1>15. \A h \in O : (\E j \in Classes : InSlot(pl2, w2, j, h)) \/ h \in Allocated(hp)
  BY <1>1, <1>14
<1> QED
  BY <1>1, <1>2, <1>5, <1>11, <1>13, <1>14, <1>15 DEF Memory

\* Pool::allocate() hands out a slot that nobody had, or changes nothing.
LEMMA PoolAllocate ==
  ASSUME NEW O, Memory(arenas, heap, pools, word, O), NEW i \in Classes, NEW q, allocate(i, q)
  PROVE  \/ q = Null /\ pools' = pools /\ word' = word
         \/ /\ q \in Nat /\ q # Null /\ header_of(q) \notin O
            /\ Memory(arenas, heap, pools', word', O \cup {header_of(q)})
            /\ InSlot(pools', word', i, header_of(q))
            /\ \A j \in Classes, h \in O : InSlot(pools, word, j, h) => InSlot(pools', word', j, h)
<1>1. /\ PoolsType(pools, word) /\ PoolsApart(arenas, pools)
      /\ arenas \in Seq([base : Nat, size : Nat, used : Nat])
  BY DEF Memory, Good, Sound, Shape, ArenasType
<1>2. \A s \in Nat : /\ payload(s) \in Nat /\ payload(s) # Null /\ header_of(payload(s)) = s
  BY DEF payload, header_of, HeaderSize, Null
<1>3. CASE pools[i].free_head # Null /\ q = payload(pools[i].free_head)
           /\ Pop(i, pools[i].free_head, word, {})
  <2> DEFINE s == pools[i].free_head
  <2>1. /\ pools' = WithPool(pools, i, pools[i].arenas, word[s])
        /\ word' = Put(word, s, PoolObject[i])
    <3>1. pools[i].arenas \cup {} = pools[i].arenas
      OBVIOUS
    <3> QED
      BY <1>3, <3>1 DEF Pop, Tagged, WithPool
  <2> HIDE DEF s
  <2>2. s = pools[i].free_head /\ s # Null /\ q = payload(s)
    BY <1>3 DEF s
  <2>3. /\ s \in Nat /\ s \notin O
        /\ Memory(arenas, heap, pools', word', O \cup {s})
        /\ InSlot(pools', word', i, s)
        /\ \A j \in Classes, h \in O : InSlot(pools, word, j, h) => InSlot(pools', word', j, h)
    BY <2>1, <2>2, PopMemory
  <2> QED
    BY <1>2, <2>2, <2>3
<1>4. CASE /\ pools[i].free_head = Null
           /\ \E a \in Regions(i) :
                LET last == Slot(i, a, slot_count(i, a.size)) IN
                q = payload(last) /\ Pop(i, last, CarvedWords(i, a), {a})
  <2>1. PICK a \in Regions(i) :
          LET last == Slot(i, a, slot_count(i, a.size)) IN
          q = payload(last) /\ Pop(i, last, CarvedWords(i, a), {a})
    BY <1>4
  <2> DEFINE last == Slot(i, a, slot_count(i, a.size))
             w1 == CarvedWords(i, a)
             R == pools[i].arenas \cup {a}
             pl1 == WithPool(pools, i, R, last)
  <2>2. /\ a \in RegionsAt(i)
        /\ \A r \in PoolArenas : Disjoint(a, r)
        /\ \A r \in ToSet(arenas) : Disjoint(a, r)
    BY <2>1 DEF Regions, RegionsAt, RegionSize
  <2>3. /\ \A j \in Classes : \A r \in pools[j].arenas : Disjoint(a, r)
        /\ \A j \in DOMAIN arenas : Disjoint(a, arenas[j])
    BY <2>2 DEF PoolArenas, ToSet
  <2>4. q = payload(last) /\ Pop(i, last, w1, {a})
    BY <2>1
  <2>5. w1 = Beside(Links(i, a), word)
    <3> DEFINE S == {Slot(i, a, k) : k \in 1..slot_count(i, a.size)}
               d == slot_total_size(i)
    <3>1. SlotsIn(i, {a}) = S
      BY DEF SlotsIn
    <3> HIDE DEF S, d
    <3>2. Links(i, a) = [s \in S |-> IF s = a.base THEN Null ELSE s - d]
      BY <3>1 DEF Links, d
    <3>3. w1 = [s \in DOMAIN word \cup S |->
                  IF s \notin S THEN word[s] ELSE IF s = a.base THEN Null ELSE s - d]
      BY DEF CarvedWords, S, d
    <3> HIDE DEF w1
    <3> QED
      BY <3>2, <3>3 DEF Beside
  <2> HIDE DEF last, w1, R, pl1
  <2>6. /\ last # Null
        /\ Memory(arenas, heap, pl1, w1, O)
        /\ \A j \in Classes, h \in O : InSlot(pools, word, j, h) => InSlot(pl1, w1, j, h)
    <3>1. pools[i].free_head = Null /\ MayMap(arenas, pools, i, a)
      BY <1>4, <2>2, <2>3 DEF MayMap
    <3>2. CarvedIn(pools, word, i, a, last, pl1, w1)
      BY <2>5 DEF CarvedIn, last, R, pl1
    <3> QED
      BY <3>1, <3>2, ExpandMemory
  <2>7. /\ pl1[i].arenas = pools[i].arenas \cup {a} /\ pl1[i].free_head = last
        /\ pools' = WithPool(pl1, i, pl1[i].arenas, w1[last])
        /\ word' = Put(w1, last, PoolObject[i])
    <3>1. /\ DOMAIN pools = Classes
          /\ pools' = [pools EXCEPT ![i] = [arenas |-> pools[i].arenas \cup {a},
                                            free_head |-> w1[last]]]
          /\ word' = Put(w1, last, PoolObject[i])
      BY <1>1, <2>4 DEF Pop, Tagged, PoolsType
    <3> DEFINE p1 == [arenas |-> pools[i].arenas \cup {a}, free_head |-> last]
               p2 == [arenas |-> pools[i].arenas \cup {a}, free_head |-> w1[last]]
    <3>2. p1.arenas = pools[i].arenas \cup {a} /\ p1.free_head = last
      OBVIOUS
    <3>3. pl1 = [pools EXCEPT ![i] = p1] /\ pools' = [pools EXCEPT ![i] = p2]
      BY <3>1 DEF pl1, R, WithPool
    <3>4. p2 = [arenas |-> p1.arenas, free_head |-> w1[last]]
      BY <3>2
    <3> HIDE DEF p1, p2
    <3>5. pl1[i] = p1 /\ pools' = [pl1 EXCEPT ![i] = p2]
      BY <3>1, <3>3
    <3> QED
      BY <3>1, <3>2, <3>4, <3>5 DEF WithPool
  <2>8. /\ last \in Nat /\ last \notin O
        /\ Memory(arenas, heap, pools', word', O \cup {last})
        /\ InSlot(pools', word', i, last)
        /\ \A j \in Classes, h \in O : InSlot(pl1, w1, j, h) => InSlot(pools', word', j, h)
    <3>1. last = pl1[i].free_head /\ last # Null
      BY <2>6, <2>7
    <3>2. /\ pools' = WithPool(pl1, i, pl1[i].arenas, w1[last])
          /\ word' = Put(w1, last, PoolObject[i])
      BY <2>7
    <3>3. Memory(arenas, heap, pl1, w1, O)
      BY <2>6
    <3>4. ASSUME NEW s, s = pl1[i].free_head, s # Null,
                 NEW pl2, pl2 = WithPool(pl1, i, pl1[i].arenas, w1[s]),
                 NEW w2, w2 = Put(w1, s, PoolObject[i])
          PROVE  /\ s \in Nat /\ s \notin O
                 /\ Memory(arenas, heap, pl2, w2, O \cup {s})
                 /\ InSlot(pl2, w2, i, s)
                 /\ \A j \in Classes, h \in O : InSlot(pl1, w1, j, h) => InSlot(pl2, w2, j, h)
      BY <3>3, <3>4, PopMemory
    <3> QED
      BY <3>1, <3>2, <3>4
  <2> QED
    BY <1>2, <2>4, <2>6, <2>8
<1> QED
  BY <1>3, <1>4 DEF allocate, poolVars

-----------------------------------------------------------------------------
(* The critical sections of both paths together.                           *)

\* h is in front of a payload that has room for n bytes.
Serves(hp, pl, w, h, n) ==
  \/ \E i \in Classes : InSlot(pl, w, i, h) /\ n <= kSizeClasses[i]
  \/ h \in Allocated(hp) /\ n <= hp.size[h]

\* No payload behind the headers S gets smaller.
Spared(S) ==
  \A h \in S, n \in Nat :
    Serves(heap, pools, word, h, n) => Serves(heap', pools', word', h, n)

\* The payload behind h has n bytes, no less and no more.
Measures(hp, pl, w, h, n) ==
  \/ \E i \in Classes : InSlot(pl, w, i, h) /\ n = kSizeClasses[i]
  \/ h \in Allocated(hp) /\ n = hp.size[h]

\* The payloads behind the headers S are as large as they were.
LeftAlone(S) ==
  \A h \in S : \A n :
    Measures(heap, pools, word, h, n) => Measures(heap', pools', word', h, n)

\* The word in front of a payload tells where it came from.
LEMMA Recognised ==
  ASSUME NEW O, Memory(arenas, heap, pools, word, O), NEW p, header_of(p) \in O
  PROVE  /\ \A i \in Classes : InSlot(pools, word, i, header_of(p)) =>
              /\ ptr_is_pooled(p) /\ PoolOf(p) = i
              /\ header_of(p) \in SlotsOf(i) /\ header_of(p) \notin Block(heap)
         /\ header_of(p) \in Allocated(heap) =>
              ~ptr_is_pooled(p) /\ header_of(p) \notin DOMAIN word
<1> DEFINE h == header_of(p)
<1>1. /\ PoolsType(pools, word) /\ PoolsApart(arenas, pools) /\ Good(arenas, heap) /\ Small(arenas)
  BY DEF Memory
<1> HIDE DEF h
<1>2. ASSUME NEW i \in Classes, InSlot(pools, word, i, h)
      PROVE  /\ ptr_is_pooled(p) /\ PoolOf(p) = i
             /\ h \in SlotsOf(i) /\ h \notin Block(heap)
  <2>1. h \in SlotsIn(i, pools[i].arenas) /\ h \in DOMAIN word /\ word[h] = PoolObject[i]
    BY <1>2 DEF InSlot
  <2>2. WordBefore(p) = PoolObject[i]
    BY <2>1 DEF WordBefore, h
  <2>3. \A j \in Classes : PoolObject[j] = PoolObject[i] => j = i
    BY PoolObjectAssumption DEF IsInjective
  <2>4. ptr_is_pooled(p) /\ PoolOf(p) = i
    BY <2>2, <2>3 DEF ptr_is_pooled, is_known_pool, PoolOf, pool_index_of
  <2>5. h \notin Block(heap)
    BY <1>1, <2>1, OnePool
  <2> QED
    BY <2>1, <2>4, <2>5 DEF SlotsOf, SlotsIn
<1>3. ASSUME h \in Allocated(heap) PROVE ~ptr_is_pooled(p) /\ h \notin DOMAIN word
  <2>1. h \in Block(heap) /\ h \notin heap.free
    BY <1>3 DEF Allocated
  <2>2. h \notin DOMAIN word
    <3>1. \A i \in Classes : h \notin SlotsIn(i, pools[i].arenas)
      BY <1>1, <2>1, OnePool
    <3> QED
      BY <1>1, <3>1 DEF PoolsType
  <2>3. \A i \in Classes : heap.size[h] \in Nat /\ heap.size[h] < PoolObject[i]
    BY <1>1, <2>1, BlockIsSmall
  <2>4. \A i \in Classes : heap.size[h] + 0 # PoolObject[i]
    BY <2>3, PoolObjectAssumption
  <2>5. WordBefore(p) = heap.size[h] + 0
    BY <2>1, <2>2 DEF WordBefore, HeaderWord, h
  <2> QED
    BY <2>2, <2>4, <2>5 DEF ptr_is_pooled, is_known_pool
<1> QED
  BY <1>2, <1>3 DEF h

\* What Memory says of regions and slots is untouched by what the general path
\* does to its arenas and blocks.
LEMMA GeneralMemory ==
  ASSUME NEW O, Memory(arenas, heap, pools, word, O), NEW N,
         Good(arenas', heap'), Small(arenas'), PoolsApart(arenas', pools'),
         pools' = pools, word' = word,
         \A h \in N \ O : h \in Block(heap) \/ h \in Block(heap'),
         \A h \in O \ N : h \in Block(heap) \/ h \in Block(heap'),
         \A h \in N : (\E i \in Classes : InSlot(pools, word, i, h)) \/ h \in Allocated(heap')
  PROVE  Memory(arenas', heap', pools', word', N)
<1>1. /\ PoolsType(pools, word) /\ PoolsApart(arenas, pools) /\ Good(arenas, heap)
      /\ \A i \in Classes : Chained(word, SlotsIn(i, pools[i].arenas) \ O, pools[i].free_head)
  BY DEF Memory
<1>2. ASSUME NEW i \in Classes, NEW h \in SlotsIn(i, pools[i].arenas)
      PROVE  h \notin Block(heap) /\ h \notin Block(heap')
  <2>1. h \notin Block(heap)
    BY <1>1, OnePool
  <2>2. ASSUME NEW A, NEW hp, Good(A, hp), PoolsApart(A, pools) PROVE h \notin Block(hp)
    BY <2>2, OnePool
  <2>3. PoolsApart(arenas', pools)
    OBVIOUS
  <2> QED
    BY <2>1, <2>2, <2>3
<1>3. \A i \in Classes : SlotsIn(i, pools[i].arenas) \ N = SlotsIn(i, pools[i].arenas) \ O
  BY <1>2
<1>4. \A i \in Classes : Chained(word, SlotsIn(i, pools[i].arenas) \ N, pools[i].free_head)
  BY <1>1, <1>3
<1> QED
  BY <1>1, <1>4 DEF Memory

\* my_malloc hands out a payload nobody had and that has room for what was
\* asked for, or changes nothing.
LEMMA MallocMemory ==
  ASSUME NEW O, Memory(arenas, heap, pools, word, O), NEW n \in Requests, NEW q, my_malloc(n, q)
  PROVE  \/ q = Null /\ UNCHANGED <<arenas, heap, pools, word>>
         \/ /\ q \in Nat /\ q # Null /\ header_of(q) \notin O
            /\ Memory(arenas', heap', pools', word', O \cup {header_of(q)})
            /\ Serves(heap', pools', word', header_of(q), n)
            /\ Spared(O) /\ LeftAlone(O)
<1> DEFINE h == header_of(q)
<1>1. /\ PoolsType(pools, word) /\ PoolsApart(arenas, pools) /\ Good(arenas, heap) /\ Small(arenas)
      /\ \A x \in O : (\E i \in Classes : InSlot(pools, word, i, x)) \/ x \in Allocated(heap)
  BY DEF Memory
<1>2. n \in Nat
  BY CallsAssumption
<1>3. CASE class_for(n) = NoClass
  <2>1. /\ General!my_malloc(n, q)
        /\ \A a \in ToSet(arenas'), r \in PoolArenas : Disjoint(a, r)
        /\ pools' = pools /\ word' = word
    BY <1>3 DEF my_malloc, poolVars
  <2>2. CASE q = Null /\ arenas' = arenas /\ heap' = heap
    BY <2>1, <2>2
  <2>3. CASE /\ q \in Nat /\ q # Null /\ Good(arenas', heap')
             /\ h \in Nat /\ h \notin Allocated(heap)
             /\ Allocated(heap') = Allocated(heap) \cup {h}
             /\ heap'.size[h] >= n
             /\ Spares(Allocated(heap))
    <3>1. Small(arenas')
      BY <1>1, <2>1, SmallKept
    <3>2. PoolsApart(arenas', pools')
      <4>1. \A i \in Classes : \A a \in pools[i].arenas, j \in DOMAIN arenas' : Disjoint(a, arenas'[j])
        <5>1. ASSUME NEW i \in Classes, NEW a \in pools[i].arenas, NEW j \in DOMAIN arenas'
              PROVE  Disjoint(a, arenas'[j])
          <6>1. arenas'[j] \in ToSet(arenas') /\ a \in PoolArenas
            BY DEF ToSet, PoolArenas
          <6>2. Disjoint(arenas'[j], a)
            BY <2>1, <6>1
          <6> QED
            BY <6>2 DEF Disjoint
        <5> QED
          BY <5>1
      <4> QED
        BY <1>1, <2>1, <4>1 DEF PoolsApart
    <3> HIDE DEF h
    <3>3. h \in Block(heap')
      BY <2>3 DEF Allocated
    <3>4. h \notin O
      <4>1. ASSUME NEW i \in Classes, InSlot(pools, word, i, h) PROVE FALSE
        <5>1. h \in SlotsIn(i, pools[i].arenas) /\ PoolsApart(arenas', pools) /\ Good(arenas', heap')
          BY <2>1, <2>3, <3>2, <4>1 DEF InSlot
        <5>2. ASSUME NEW A, NEW hp, Good(A, hp), PoolsApart(A, pools) PROVE h \notin Block(hp)
          BY <5>1, <5>2, OnePool
        <5> QED
          BY <3>3, <5>1, <5>2
      <4> QED
        BY <1>1, <2>3, <4>1
    <3>5. Memory(arenas', heap', pools', word', O \cup {h})
      <4> DEFINE N == O \cup {h}
      <4>1. \A x \in N : (\E i \in Classes : InSlot(pools, word, i, x)) \/ x \in Allocated(heap')
        BY <1>1, <2>3
      <4>2. /\ \A x \in N \ O : x \in Block(heap) \/ x \in Block(heap')
            /\ \A x \in O \ N : x \in Block(heap) \/ x \in Block(heap')
        BY <3>3
      <4> HIDE DEF N
      <4>3. Memory(arenas', heap', pools', word', N)
        BY <2>1, <2>3, <3>1, <3>2, <4>1, <4>2, GeneralMemory
      <4> QED
        BY <4>3 DEF N
    <3>6. Serves(heap', pools', word', h, n)
      BY <1>2, <2>3 DEF Serves
    <3>7. Spared(O)
      BY <2>1, <2>3 DEF Spared, Spares, Serves
    <3>8. LeftAlone(O)
      BY <2>1, <2>3 DEF LeftAlone, Spares, Measures
    <3> QED
      BY <2>3, <3>4, <3>5, <3>6, <3>7, <3>8 DEF h
  <2> QED
    BY <1>1, <1>3, <2>1, <2>2, <2>3, GeneralMalloc
<1>4. CASE class_for(n) # NoClass
  <2> DEFINE i == class_for(n)
  <2>1. i \in Classes /\ n <= kSizeClasses[i]
    <3>1. SmallestClass(n, i)
      BY <1>2, <1>4, ClassForIsTightest
    <3>2. i \in Classes /\ kSizeClasses[i] >= n /\ kSizeClasses[i] \in Nat
      BY <3>1, TheClasses DEF SmallestClass
    <3> QED
      BY <1>2, <3>2
  <2>2. allocate(i, q) /\ arenas' = arenas /\ heap' = heap
    BY <1>4 DEF my_malloc, generalVars
  <2> HIDE DEF i
  <2>3. CASE q = Null /\ pools' = pools /\ word' = word
    BY <2>2, <2>3
  <2>4. CASE /\ q \in Nat /\ q # Null /\ h \notin O
             /\ Memory(arenas, heap, pools', word', O \cup {h})
             /\ InSlot(pools', word', i, h)
             /\ \A j \in Classes, x \in O : InSlot(pools, word, j, x) => InSlot(pools', word', j, x)
    <3> HIDE DEF h
    <3>1. Serves(heap', pools', word', h, n)
      BY <2>1, <2>4 DEF Serves
    <3>2. Spared(O)
      BY <2>2, <2>4 DEF Spared, Serves
    <3>3. LeftAlone(O)
      BY <2>2, <2>4 DEF LeftAlone, Measures
    <3>4. Memory(arenas', heap', pools', word', O \cup {h})
      BY <2>2, <2>4
    <3> QED
      BY <2>4, <3>1, <3>2, <3>3, <3>4 DEF h
  <2> QED
    BY <2>1, <2>2, <2>3, <2>4, PoolAllocate
<1> QED
  BY <1>3, <1>4

\* my_free gives a payload back to where it came from, and nobody else's.
LEMMA FreeMemory ==
  ASSUME NEW O, Memory(arenas, heap, pools, word, O), NEW p, header_of(p) \in O, my_free(p)
  PROVE  /\ Memory(arenas', heap', pools', word', O \ {header_of(p)})
         /\ Spared(O \ {header_of(p)}) /\ LeftAlone(O \ {header_of(p)})
<1> DEFINE h == header_of(p)
           N == O \ {h}
<1>1. /\ PoolsType(pools, word) /\ PoolsApart(arenas, pools) /\ Good(arenas, heap) /\ Small(arenas)
      /\ \A x \in O : (\E i \in Classes : InSlot(pools, word, i, x)) \/ x \in Allocated(heap)
  BY DEF Memory
<1>2. ASSUME NEW i \in Classes, InSlot(pools, word, i, h)
      PROVE  Memory(arenas', heap', pools', word', N) /\ Spared(N) /\ LeftAlone(N)
  <2>1. ptr_is_pooled(p) /\ PoolOf(p) = i
    BY <1>2, Recognised
  <2>2. deallocate(i, p) /\ arenas' = arenas /\ heap' = heap
    BY <2>1 DEF my_free, generalVars
  <2>3. /\ word' = Put(word, h, pools[i].free_head)
        /\ pools' = [pools EXCEPT ![i].free_head = h]
    BY <2>2 DEF deallocate
  <2>4. pools' = WithPool(pools, i, pools[i].arenas, h)
    <3>1. pools \in [Classes -> PoolRecords]
      BY <1>1 DEF PoolsType
    <3>2. pools[i] \in PoolRecords
      BY <3>1
    <3>3. [pools[i] EXCEPT !.free_head = h] = [arenas |-> pools[i].arenas, free_head |-> h]
      BY <3>2 DEF PoolRecords
    <3>4. pools' = [pools EXCEPT ![i] = [pools[i] EXCEPT !.free_head = h]]
      BY <2>3
    <3> QED
      BY <3>3, <3>4 DEF WithPool
  <2> HIDE DEF h, N
  <2>5. h \in O /\ InSlot(pools, word, i, h)
    BY <1>2 DEF h
  <2>6. /\ Memory(arenas, heap, pools', word', O \ {h})
        /\ \A j \in Classes, x \in O \ {h} : InSlot(pools, word, j, x) => InSlot(pools', word', j, x)
    <3>1. ASSUME NEW s \in O, InSlot(pools, word, i, s),
                 NEW pl2, pl2 = WithPool(pools, i, pools[i].arenas, s),
                 NEW w2, w2 = Put(word, s, pools[i].free_head)
          PROVE  /\ Memory(arenas, heap, pl2, w2, O \ {s})
                 /\ \A j \in Classes, x \in O \ {s} :
                      InSlot(pools, word, j, x) => InSlot(pl2, w2, j, x)
      BY <3>1, PushMemory
    <3> QED
      BY <2>3, <2>4, <2>5, <3>1
  <2>7. Spared(O \ {h}) /\ LeftAlone(O \ {h})
    BY <2>2, <2>6 DEF Spared, Serves, LeftAlone, Measures
  <2> QED
    BY <2>2, <2>6, <2>7 DEF N
<1>3. ASSUME h \in Allocated(heap)
      PROVE  Memory(arenas', heap', pools', word', N) /\ Spared(N) /\ LeftAlone(N)
  <2>1. ~ptr_is_pooled(p)
    BY <1>3, Recognised
  <2>2. General!my_free(p) /\ pools' = pools /\ word' = word
    BY <2>1 DEF my_free, poolVars
  <2>3. /\ Good(arenas', heap') /\ arenas' = arenas
        /\ Allocated(heap') = Allocated(heap) \ {h}
        /\ Spares(Allocated(heap) \ {h})
    BY <1>1, <1>3, <2>2, GeneralFree
  <2> HIDE DEF h
  <2>4. Small(arenas') /\ PoolsApart(arenas', pools')
    BY <1>1, <2>2, <2>3
  <2>5. \A x \in N : (\E i \in Classes : InSlot(pools, word, i, x)) \/ x \in Allocated(heap')
    BY <1>1, <2>3
  <2>6. /\ \A x \in N \ O : x \in Block(heap) \/ x \in Block(heap')
        /\ \A x \in O \ N : x \in Block(heap) \/ x \in Block(heap')
    BY <1>3 DEF Allocated
  <2>7. Spared(N) /\ LeftAlone(N)
    BY <2>2, <2>3 DEF Spared, Spares, Serves, LeftAlone, Measures
  <2> HIDE DEF N
  <2>8. Memory(arenas', heap', pools', word', N)
    BY <2>2, <2>3, <2>4, <2>5, <2>6, GeneralMemory
  <2> QED
    BY <2>7, <2>8
<1> QED
  BY <1>1, <1>2, <1>3

\* Growth in place takes nothing from anyone.
LEMMA GrowMemory ==
  ASSUME NEW O, Memory(arenas, heap, pools, word, O), NEW c \in Clients, NEW n \in Requests,
         header_of(ptr[c]) \in O, ~ptr_is_pooled(ptr[c]),
         General!ReallocInPlace(c, n), pools' = pools, word' = word
  PROVE  /\ Memory(arenas', heap', pools', word', O)
         /\ Serves(heap', pools', word', header_of(ptr[c]), n)
         /\ Spared(O) /\ LeftAlone(O \ {header_of(ptr[c])})
<1> DEFINE h == header_of(ptr[c])
<1>1. /\ PoolsType(pools, word) /\ PoolsApart(arenas, pools) /\ Good(arenas, heap) /\ Small(arenas)
      /\ \A x \in O : (\E i \in Classes : InSlot(pools, word, i, x)) \/ x \in Allocated(heap)
  BY DEF Memory
<1>2. h \in Allocated(heap)
  BY <1>1, Recognised
<1>3. /\ Good(arenas', heap') /\ arenas' = arenas
      /\ Allocated(heap') = Allocated(heap)
      /\ heap'.size[h] >= n /\ n > heap.size[h]
      /\ Spares(Allocated(heap) \ {h})
  BY <1>1, <1>2, GeneralGrow
<1> HIDE DEF h
<1>4. n \in Nat /\ heap.size[h] \in Nat /\ heap'.size[h] \in Nat
  <2>1. n \in Nat
    BY CallsAssumption
  <2>2. HeapType(heap) /\ h \in Block(heap) /\ HeapType(heap') /\ h \in Block(heap')
    BY <1>1, <1>2, <1>3 DEF Good, Sound, Shape, Allocated
  <2>3. heap.size[h] \in Nat
    BY <2>2, BlockEnds
  <2>4. \A hp : HeapType(hp) /\ h \in Block(hp) => hp.size[h] \in Nat
    BY BlockEnds
  <2> QED
    BY <2>1, <2>2, <2>3, <2>4
<1>5. Memory(arenas', heap', pools', word', O)
  <2>1. Small(arenas') /\ PoolsApart(arenas', pools')
    BY <1>1, <1>3
  <2>2. \A x \in O : (\E i \in Classes : InSlot(pools, word, i, x)) \/ x \in Allocated(heap')
    BY <1>1, <1>3
  <2> QED
    BY <1>3, <2>1, <2>2, GeneralMemory
<1>6. Serves(heap', pools', word', h, n)
  BY <1>2, <1>3, <1>4 DEF Serves
<1>7. Spared(O)
  <2>1. ASSUME NEW x \in O, NEW m \in Nat, x \in Allocated(heap), m <= heap.size[x]
        PROVE  x \in Allocated(heap') /\ m <= heap'.size[x]
    <3>1. CASE x = h
      BY <1>2, <1>3, <1>4, <2>1, <3>1
    <3>2. CASE x # h
      BY <1>3, <2>1, <3>2 DEF Spares
    <3> QED
      BY <3>1, <3>2
  <2> QED
    BY <2>1 DEF Spared, Serves
<1>8. LeftAlone(O \ {h})
  BY <1>3 DEF LeftAlone, Spares, Measures
<1> QED
  BY <1>5, <1>6, <1>7, <1>8 DEF h

-----------------------------------------------------------------------------
(* The sizes my_realloc() reads.                                           *)

\* payload_size is the room a payload has, and rounding up what is asked for
\* changes nothing about whether it fits.
LEMMA PayloadSizes ==
  ASSUME NEW O, Memory(arenas, heap, pools, word, O), NEW c \in Clients, header_of(ptr[c]) \in O
  PROVE  /\ payload_size(ptr[c]) \in Nat
         /\ \A n \in Nat : Serves(heap, pools, word, header_of(ptr[c]), n)
                             <=> n <= payload_size(ptr[c])
         /\ \A n \in Requests : Rounded(c, n) <= payload_size(ptr[c])
                                  <=> n <= payload_size(ptr[c])
<1> DEFINE h == header_of(ptr[c])
<1>1. /\ PoolsType(pools, word) /\ PoolsApart(arenas, pools) /\ Good(arenas, heap) /\ Small(arenas)
      /\ (\E i \in Classes : InSlot(pools, word, i, h)) \/ h \in Allocated(heap)
  BY DEF Memory
<1>2. CASE \E i \in Classes : InSlot(pools, word, i, h)
  <2>1. PICK i \in Classes : InSlot(pools, word, i, h)
    BY <1>2
  <2>2. \A j \in Classes : InSlot(pools, word, j, h) => /\ ptr_is_pooled(ptr[c]) /\ PoolOf(ptr[c]) = j
                                                       /\ h \notin Block(heap)
    BY Recognised
  <2>3. ptr_is_pooled(ptr[c]) /\ PoolOf(ptr[c]) = i /\ h \notin Allocated(heap)
    BY <2>1, <2>2 DEF Allocated
  <2>4. payload_size(ptr[c]) = kSizeClasses[i] /\ kSizeClasses[i] \in Nat
    BY <2>3, TheClasses DEF payload_size
  <2>5. \A n \in Requests : Rounded(c, n) = n
    BY <2>3 DEF Rounded
  <2> HIDE DEF h
  <2>6. \A n \in Nat : Serves(heap, pools, word, h, n) <=> n <= kSizeClasses[i]
    <3>1. \A j \in Classes : InSlot(pools, word, j, h) => j = i
      BY <2>2, <2>3
    <3> QED
      BY <2>1, <2>3, <3>1 DEF Serves
  <2> QED
    BY <2>4, <2>5, <2>6 DEF h
<1>3. CASE h \in Allocated(heap)
  <2>1. ~ptr_is_pooled(ptr[c])
    BY <1>3, Recognised
  <2>2. h \in Block(heap) /\ HeapType(heap) /\ h \in Nat
    BY <1>1, <1>3, BlockEnds DEF Good, Sound, Shape, Allocated
  <2>3. heap.size[h] \in Nat /\ IsAligned(heap.size[h])
    BY <1>1, <2>2, BlockEnds DEF Good, Sound, AllAligned
  <2>4. payload_size(ptr[c]) = heap.size[h]
    BY <2>1 DEF payload_size
  <2>5. ASSUME NEW n \in Requests
        PROVE  Rounded(c, n) <= heap.size[h] <=> n <= heap.size[h]
    <3>1. n \in Nat /\ n + 15 <= SizeMax
      <4>1. n \in Nat /\ n + Slack <= SizeMax
        BY CallsAssumption
      <4> QED
        BY <4>1, PageSizeAssumption, SizeMaxAssumption DEF Slack, Alignment, HeaderSize, FooterSize
    <3>2. Rounded(c, n) = align_up(n)
      BY <2>1 DEF Rounded
    <3>3. align_up(n) \in Nat /\ align_up(n) >= n
      BY <3>1, AlignUp
    <3>4. n <= heap.size[h] => align_up(n) <= heap.size[h]
      BY <2>3, <3>1, AlignUpLeast
    <3> HIDE DEF h
    <3> QED
      BY <2>3, <3>1, <3>2, <3>3, <3>4
  <2>6. \A i \in Classes : ~InSlot(pools, word, i, h)
    BY <1>1, <2>2, OnePool DEF InSlot
  <2> HIDE DEF h
  <2>7. \A n \in Nat : Serves(heap, pools, word, h, n) <=> n <= heap.size[h]
    BY <1>3, <2>6 DEF Serves
  <2> QED
    BY <2>3, <2>4, <2>5, <2>7 DEF h
<1> QED
  BY <1>1, <1>2, <1>3

-----------------------------------------------------------------------------
(* The clients, and the inductive invariant.                               *)

\* The headers in front of what c has, of what all have, and of what all
\* but c have.
Headers(c) == {header_of(p) : p \in Payloads(c)}
Owned == UNION {Headers(c) : c \in Clients}
Others(c) == UNION {Headers(d) : d \in Clients \ {c}}

\* In the memory d, p holds what a client expects there.
Survives(d, p, s) ==
  s.upto > 0 => p \in DOMAIN d /\ d[p].who = s.who /\ d[p].upto >= s.upto

\* Where a call of c is, and what it has in its hands there.  A resize that
\* moves is one that grows: all of the old payload is copied.
Call(c) ==
  /\ pc[c] \in {"idle", "move"} => new[c] = Null
  /\ pc[c] = "zero" => ptr[c] = Null /\ new[c] # Null
  /\ pc[c] \in {"move", "copy", "free"} => ptr[c] # Null /\ req[c] <= old[c] /\ old[c] < want[c]
  /\ pc[c] \in {"copy", "free"} => new[c] # Null /\ new[c] # ptr[c]
  /\ pc[c] # "idle" => want[c] \in Requests

\* What c has is as large as it asked for.
Room(c) ==
  /\ ptr[c] # Null => Serves(heap, pools, word, header_of(ptr[c]), req[c])
  /\ new[c] # Null => Serves(heap, pools, word, header_of(new[c]), want[c])

\* What c expects lies within what it asked for, and is there; once copied,
\* in the new payload too.
Text(c) ==
  /\ saved[c].upto <= req[c]
  /\ ptr[c] # Null => Survives(data, ptr[c], saved[c])
  /\ pc[c] = "free" => Survives(data, new[c], saved[c])

Client(c) == Call(c) /\ Room(c) /\ Text(c)

Types ==
  /\ pc \in [Clients -> {"idle", "zero", "move", "copy", "free"}]
  /\ ptr \in [Clients -> Nat] /\ req \in [Clients -> Nat] /\ new \in [Clients -> Nat]
  /\ want \in [Clients -> Nat] /\ old \in [Clients -> Nat]
  /\ data \in [DOMAIN data -> Contents]
  /\ saved \in [Clients -> Contents]

Inv ==
  /\ Types
  /\ Memory(arenas, heap, pools, word, Owned)
  /\ \A c, d \in Clients : c # d => Headers(c) \cap Headers(d) = {}
  /\ \A c \in Clients : Client(c)

\* d is no part of a step.
Rests(d) ==
  /\ pc'[d] = pc[d] /\ ptr'[d] = ptr[d] /\ req'[d] = req[d] /\ new'[d] = new[d]
  /\ want'[d] = want[d] /\ old'[d] = old[d] /\ saved'[d] = saved[d]

\* Nor is what it has written.
Unwritten(d) ==
  \A p \in Payloads(d) : p \in DOMAIN data => p \in DOMAIN data' /\ data'[p] = data[p]

\* Different payloads are behind different headers.
LEMMA HeadersDiffer ==
  ASSUME Types, NEW c \in Clients
  PROVE  /\ Headers(c) = {header_of(p) : p \in {ptr[c], new[c]} \ {Null}}
         /\ Owned = Others(c) \cup Headers(c)
         /\ \A p, q \in Nat : header_of(p) = header_of(q) => p = q
<1>1. \A p, q \in Nat : header_of(p) = header_of(q) => p = q
  BY DEF header_of, HeaderSize
<1>2. Owned = Others(c) \cup Headers(c)
  BY DEF Owned, Others
<1> QED
  BY <1>1, <1>2 DEF Headers, Payloads

\* A client that does not take part in a step keeps what it has.
LEMMA RestingClient ==
  ASSUME NEW d \in Clients, Client(d), Rests(d), Unwritten(d), Spared(Headers(d)), Types
  PROVE  Client(d)' /\ Headers(d)' = Headers(d)
<1>1. /\ ptr[d] # Null => header_of(ptr[d]) \in Headers(d) /\ ptr[d] \in Payloads(d)
      /\ new[d] # Null => header_of(new[d]) \in Headers(d) /\ new[d] \in Payloads(d)
  BY DEF Headers, Payloads
<1>2. req[d] \in Nat /\ want[d] \in Nat
  BY DEF Types
<1>3. Call(d)'
  BY DEF Client, Call, Rests
<1>4. Room(d)'
  BY <1>1, <1>2 DEF Client, Room, Rests, Spared
<1>5. Text(d)'
  <2>1. ptr[d] # Null => Survives(data', ptr[d], saved[d])
    BY <1>1 DEF Client, Text, Unwritten, Survives
  <2>2. pc[d] = "free" => Survives(data', new[d], saved[d])
    BY <1>1 DEF Client, Call, Text, Unwritten, Survives
  <2> QED
    BY <2>1, <2>2 DEF Client, Text, Rests
<1>6. Headers(d)' = Headers(d)
  BY DEF Headers, Payloads, Rests
<1> QED
  BY <1>3, <1>4, <1>5, <1>6 DEF Client

\* A step of one client that leaves the others and what they have alone.
LEMMA OneClient ==
  ASSUME Inv, NEW c \in Clients, Types', Client(c)',
         \A d \in Clients \ {c} : Rests(d) /\ Unwritten(d),
         Spared(Others(c)),
         NEW H, Headers(c)' = H, H \cap Others(c) = {},
         NEW N, N = Others(c) \cup H, Memory(arenas', heap', pools', word', N)
  PROVE  Inv'
<1>1. ASSUME NEW d \in Clients \ {c} PROVE Client(d)' /\ Headers(d)' = Headers(d)
  <2>1. Client(d) /\ Types /\ Rests(d) /\ Unwritten(d)
    BY DEF Inv
  <2>2. Headers(d) \subseteq Others(c)
    BY DEF Others
  <2>3. Spared(Headers(d))
    BY <2>2 DEF Spared
  <2> QED
    BY <2>1, <2>3, RestingClient
<1>2. Owned' = N
  BY <1>1 DEF Owned, Others
<1>3. ASSUME NEW d \in Clients, NEW e \in Clients, d # e
      PROVE  Headers(d)' \cap Headers(e)' = {}
  <2>1. CASE d # c /\ e # c
    BY <1>1, <1>3, <2>1 DEF Inv
  <2>2. CASE d = c
    BY <1>1, <1>3, <2>2 DEF Others
  <2>3. CASE e = c
    BY <1>1, <1>3, <2>3 DEF Others
  <2> QED
    BY <2>1, <2>2, <2>3
<1>4. \A d \in Clients : Client(d)'
  BY <1>1
<1>5. Memory(arenas', heap', pools', word', Owned')
  BY <1>2
<1> QED
  BY <1>3, <1>4, <1>5 DEF Inv

\* What one client writes or frees is not in the payload of another.
LEMMA WrittenElsewhere ==
  ASSUME Inv, NEW c \in Clients, NEW p \in Payloads(c), NEW d \in Clients \ {c},
         \/ \E v : data' = Put(data, p, v)
         \/ data' = Restrict(data, DOMAIN data \ {p})
  PROVE  Unwritten(d)
<1>1. ASSUME NEW q \in Payloads(d) PROVE q # p
  <2>1. header_of(p) \in Headers(c) /\ header_of(q) \in Headers(d)
    BY DEF Headers
  <2> QED
    BY <2>1 DEF Inv
<1>2. CASE \E v : data' = Put(data, p, v)
  BY <1>1, <1>2 DEF Unwritten, Put
<1>3. CASE data' = Restrict(data, DOMAIN data \ {p})
  BY <1>1, <1>3 DEF Unwritten, Restrict
<1> QED
  BY <1>2, <1>3

\* What a client has is owned.
LEMMA Having ==
  ASSUME Inv, NEW c \in Clients
  PROVE  /\ Types /\ Client(c) /\ Memory(arenas, heap, pools, word, Owned)
         /\ ptr[c] \in Nat /\ new[c] \in Nat
         /\ ptr[c] # Null => ptr[c] \in Payloads(c) /\ header_of(ptr[c]) \in Owned
         /\ new[c] # Null => new[c] \in Payloads(c) /\ header_of(new[c]) \in Owned
         /\ Others(c) \subseteq Owned /\ Headers(c) \cap Others(c) = {}
<1>1. Types /\ Client(c) /\ Memory(arenas, heap, pools, word, Owned)
  BY DEF Inv
<1>2. /\ ptr[c] # Null => ptr[c] \in Payloads(c) /\ header_of(ptr[c]) \in Owned
      /\ new[c] # Null => new[c] \in Payloads(c) /\ header_of(new[c]) \in Owned
  BY DEF Payloads, Headers, Owned
<1>3. Others(c) \subseteq Owned
  BY DEF Others, Owned
<1>4. Headers(c) \cap Others(c) = {}
  <2>1. \A d \in Clients \ {c} : Headers(c) \cap Headers(d) = {}
    BY DEF Inv
  <2> QED
    BY <2>1 DEF Others
<1>5. ptr[c] \in Nat /\ new[c] \in Nat
  BY <1>1 DEF Types
<1> QED
  BY <1>1, <1>2, <1>3, <1>4, <1>5

\* my_malloc, as one step of c that ends with q in its hands and O in the
\* hands of all.
LEMMA Obtained ==
  ASSUME Inv, NEW c \in Clients, NEW n \in Requests, NEW q, q # Null, my_malloc(n, q)
  PROVE  /\ q \in Nat /\ header_of(q) \notin Owned
         /\ Memory(arenas', heap', pools', word', Owned \cup {header_of(q)})
         /\ Serves(heap', pools', word', header_of(q), n)
         /\ Spared(Owned) /\ LeftAlone(Owned)
<1>1. Memory(arenas, heap, pools, word, Owned)
  BY DEF Inv
<1>2. ASSUME NEW O, Memory(arenas, heap, pools, word, O)
      PROVE  /\ q \in Nat /\ header_of(q) \notin O
             /\ Memory(arenas', heap', pools', word', O \cup {header_of(q)})
             /\ Serves(heap', pools', word', header_of(q), n)
             /\ Spared(O) /\ LeftAlone(O)
  BY <1>2, MallocMemory
<1> QED
  BY <1>1, <1>2

LEMMA MallocKeeps ==
  ASSUME Inv, NEW c \in Clients, NEW n \in Requests, Malloc(c, n)
  PROVE  Inv'
<1>1. PICK q : q # Null /\ my_malloc(n, q) /\ ptr' = [ptr EXCEPT ![c] = q]
  BY DEF Malloc
<1> DEFINE h == header_of(q)
<1>2. /\ pc[c] = "idle" /\ ptr[c] = Null
      /\ req' = [req EXCEPT ![c] = n] /\ saved' = [saved EXCEPT ![c] = Unknown]
      /\ pc' = pc /\ new' = new /\ want' = want /\ old' = old /\ data' = data
  BY DEF Malloc, Idle, callVars
<1>3. /\ Types /\ Call(c) /\ new[c] = Null
      /\ Others(c) \subseteq Owned
  BY <1>2, Having DEF Client, Call
<1>4. /\ q \in Nat /\ h \notin Owned
      /\ Memory(arenas', heap', pools', word', Owned \cup {h})
      /\ Serves(heap', pools', word', h, n)
      /\ Spared(Owned)
  BY <1>1, Obtained
<1>5. n \in Nat /\ Unknown \in Contents /\ Unknown.upto = 0
  BY CallsAssumption DEF Unknown, Filled, Contents
<1>6. /\ ptr'[c] = q /\ req'[c] = n /\ saved'[c] = Unknown
      /\ \A d \in Clients \ {c} : Rests(d) /\ Unwritten(d)
  BY <1>1, <1>2, <1>3 DEF Types, Rests, Unwritten
<1>7. Types'
  BY <1>1, <1>2, <1>3, <1>4, <1>5 DEF Types
<1> HIDE DEF h
<1>8. Client(c)'
  <2>1. Call(c)'
    BY <1>2, <1>3 DEF Call
  <2>2. Room(c)'
    BY <1>2, <1>3, <1>4, <1>6 DEF Room, h
  <2>3. Text(c)'
    BY <1>2, <1>5, <1>6 DEF Text, Survives
  <2> QED
    BY <2>1, <2>2, <2>3 DEF Client
<1>9. Headers(c)' = {h} /\ Headers(c) = {}
  BY <1>1, <1>2, <1>3, <1>6 DEF Headers, Payloads, h
<1>10. {h} \cap Others(c) = {} /\ Owned \cup {h} = Others(c) \cup {h} /\ Spared(Others(c))
  BY <1>3, <1>4, <1>9, HeadersDiffer DEF Spared
<1>11. ASSUME NEW H, Headers(c)' = H, H \cap Others(c) = {},
              NEW N, N = Others(c) \cup H, Memory(arenas', heap', pools', word', N)
       PROVE  Inv'
  BY <1>6, <1>7, <1>8, <1>10, <1>11, OneClient
<1> QED
  BY <1>4, <1>9, <1>10, <1>11

LEMMA CallocMallocKeeps ==
  ASSUME Inv, NEW c \in Clients, NEW n \in Requests, CallocMalloc(c, n)
  PROVE  Inv'
<1>1. PICK q : q # Null /\ my_malloc(n, q) /\ new' = [new EXCEPT ![c] = q]
  BY DEF CallocMalloc
<1> DEFINE h == header_of(q)
<1>2. /\ pc[c] = "idle" /\ ptr[c] = Null
      /\ pc' = [pc EXCEPT ![c] = "zero"] /\ want' = [want EXCEPT ![c] = n]
      /\ old' = old /\ ptr' = ptr /\ req' = req /\ data' = data /\ saved' = saved
  BY DEF CallocMalloc, Idle
<1>3. /\ Types /\ Call(c) /\ Text(c) /\ new[c] = Null
      /\ Others(c) \subseteq Owned
  BY <1>2, Having DEF Client, Call
<1>4. /\ q \in Nat /\ h \notin Owned
      /\ Memory(arenas', heap', pools', word', Owned \cup {h})
      /\ Serves(heap', pools', word', h, n)
      /\ Spared(Owned)
  BY <1>1, Obtained
<1>5. n \in Nat
  BY CallsAssumption
<1>6. /\ pc'[c] = "zero" /\ new'[c] = q /\ want'[c] = n
      /\ \A d \in Clients \ {c} : Rests(d) /\ Unwritten(d)
  BY <1>1, <1>2, <1>3 DEF Types, Rests, Unwritten
<1>7. Types'
  BY <1>1, <1>2, <1>3, <1>4, <1>5 DEF Types
<1> HIDE DEF h
<1>8. Client(c)'
  <2>1. Call(c)'
    BY <1>1, <1>2, <1>6 DEF Call
  <2>2. Room(c)'
    BY <1>2, <1>4, <1>6 DEF Room, h
  <2>3. Text(c)'
    BY <1>2, <1>3, <1>6 DEF Text
  <2> QED
    BY <2>1, <2>2, <2>3 DEF Client
<1>9. Headers(c)' = {h} /\ Headers(c) = {}
  BY <1>1, <1>2, <1>3, <1>6 DEF Headers, Payloads, h
<1>10. {h} \cap Others(c) = {} /\ Owned \cup {h} = Others(c) \cup {h} /\ Spared(Others(c))
  BY <1>3, <1>4, <1>9, HeadersDiffer DEF Spared
<1>11. ASSUME NEW H, Headers(c)' = H, H \cap Others(c) = {},
              NEW N, N = Others(c) \cup H, Memory(arenas', heap', pools', word', N)
       PROVE  Inv'
  BY <1>6, <1>7, <1>8, <1>10, <1>11, OneClient
<1> QED
  BY <1>4, <1>9, <1>10, <1>11

\* A step that leaves the memory of both paths as it is, and every pointer in
\* the hands of the same client.
LEMMA LocalStep ==
  ASSUME Inv, NEW c \in Clients, Types', Client(c)', Headers(c)' = Headers(c),
         \A d \in Clients \ {c} : Rests(d) /\ Unwritten(d),
         arenas' = arenas, heap' = heap, pools' = pools, word' = word
  PROVE  Inv'
<1>1. /\ Memory(arenas', heap', pools', word', Owned)
      /\ Owned = Others(c) \cup Headers(c) /\ Headers(c) \cap Others(c) = {}
  BY Having, HeadersDiffer
<1>2. Spared(Others(c))
  BY DEF Spared
<1>3. ASSUME NEW H, Headers(c)' = H, H \cap Others(c) = {},
             NEW N, N = Others(c) \cup H, Memory(arenas', heap', pools', word', N)
      PROVE  Inv'
  BY <1>2, <1>3, OneClient
<1> QED
  BY <1>1, <1>3

LEMMA CallocZeroKeeps ==
  ASSUME Inv, NEW c \in Clients, CallocZero(c)
  PROVE  Inv'
<1>1. /\ pc[c] = "zero"
      /\ data' = Put(data, new[c], Filled(Zero, want[c]))
      /\ saved' = [saved EXCEPT ![c] = Filled(Zero, want[c])]
      /\ ptr' = [ptr EXCEPT ![c] = new[c]] /\ req' = [req EXCEPT ![c] = want[c]]
      /\ new' = [new EXCEPT ![c] = Null] /\ want' = [want EXCEPT ![c] = 0]
      /\ pc' = [pc EXCEPT ![c] = "idle"]
      /\ arenas' = arenas /\ heap' = heap /\ pools' = pools /\ word' = word /\ old' = old
  BY DEF CallocZero, Zeroed, generalVars, poolVars
<1>2. /\ Types /\ Room(c) /\ ptr[c] = Null /\ new[c] # Null /\ new[c] \in Nat
      /\ new[c] \in Payloads(c) /\ want[c] \in Nat
  BY <1>1, Having DEF Client, Call, Types
<1>3. /\ Filled(Zero, want[c]) \in Contents /\ Filled(Zero, want[c]).upto = want[c]
  BY <1>2 DEF Filled, Contents
<1>4. /\ pc'[c] = "idle" /\ ptr'[c] = new[c] /\ req'[c] = want[c] /\ new'[c] = Null
      /\ want'[c] = 0 /\ saved'[c] = Filled(Zero, want[c])
      /\ \A d \in Clients \ {c} : Rests(d)
  BY <1>1, <1>2 DEF Types, Rests
<1>5. \A d \in Clients \ {c} : Unwritten(d)
  BY <1>1, <1>2, WrittenElsewhere
<1>6. new[c] \in DOMAIN data' /\ data'[new[c]] = Filled(Zero, want[c])
      /\ data' \in [DOMAIN data' -> Contents]
  BY <1>1, <1>2, <1>3 DEF Put, Types
<1>7. Types'
  BY <1>1, <1>2, <1>3, <1>6 DEF Types, Null
<1>8. Client(c)'
  <2>1. Call(c)'
    BY <1>4 DEF Call
  <2>2. Room(c)'
    BY <1>1, <1>2, <1>4 DEF Room
  <2>3. Text(c)'
    BY <1>2, <1>3, <1>4, <1>6 DEF Text, Survives
  <2> QED
    BY <2>1, <2>2, <2>3 DEF Client
<1>9. Headers(c)' = Headers(c)
  BY <1>2, <1>4 DEF Headers, Payloads
<1> QED
  BY <1>1, <1>4, <1>5, <1>7, <1>8, <1>9, LocalStep

LEMMA ReallocFitsKeeps ==
  ASSUME Inv, NEW c \in Clients, NEW n \in Requests, ReallocFits(c, n)
  PROVE  Inv'
<1>1. /\ pc[c] = "idle" /\ ptr[c] # Null /\ Rounded(c, n) <= payload_size(ptr[c])
      /\ req' = [req EXCEPT ![c] = n]
      /\ saved' = [saved EXCEPT ![c] = Kept(saved[c], n)]
      /\ arenas' = arenas /\ heap' = heap /\ pools' = pools /\ word' = word
      /\ pc' = pc /\ new' = new /\ want' = want /\ old' = old /\ ptr' = ptr /\ data' = data
  BY DEF ReallocFits, Holding, Idle, generalVars, poolVars, callVars
<1>2. /\ Types /\ Call(c) /\ Room(c) /\ Text(c) /\ new[c] = Null /\ n \in Nat
      /\ Memory(arenas, heap, pools, word, Owned) /\ header_of(ptr[c]) \in Owned
  BY <1>1, Having, CallsAssumption DEF Client, Call
<1>3. Serves(heap, pools, word, header_of(ptr[c]), n)
  BY <1>1, <1>2, PayloadSizes
<1>4. /\ saved[c] \in Contents /\ Kept(saved[c], n) \in Contents
      /\ Kept(saved[c], n).who = saved[c].who
      /\ Kept(saved[c], n).upto <= n /\ Kept(saved[c], n).upto <= saved[c].upto
  BY <1>2 DEF Types, Kept, Contents, Least
<1>5. /\ req'[c] = n /\ saved'[c] = Kept(saved[c], n)
      /\ \A d \in Clients \ {c} : Rests(d) /\ Unwritten(d)
  BY <1>1, <1>2 DEF Types, Rests, Unwritten
<1>6. Types'
  BY <1>1, <1>2, <1>4 DEF Types
<1>7. Client(c)'
  <2>1. Call(c)'
    BY <1>1, <1>2 DEF Call
  <2>2. Room(c)'
    BY <1>1, <1>2, <1>3, <1>5 DEF Room
  <2>3. Survives(data, ptr[c], Kept(saved[c], n))
    <3>1. ptr[c] \in DOMAIN data => data[ptr[c]].upto \in Nat
      BY <1>2 DEF Types, Contents
    <3>2. saved[c].upto \in Nat /\ Kept(saved[c], n).upto \in Nat
      BY <1>4 DEF Contents
    <3> QED
      BY <1>1, <1>2, <1>4, <3>1, <3>2 DEF Text, Survives
  <2>4. Text(c)'
    BY <1>1, <1>4, <1>5, <2>3 DEF Text
  <2> QED
    BY <2>1, <2>2, <2>4 DEF Client
<1>8. Headers(c)' = Headers(c)
  BY <1>1 DEF Headers, Payloads
<1> QED
  BY <1>1, <1>5, <1>6, <1>7, <1>8, LocalStep

\* my_free, as one step of c.
LEMMA Released ==
  ASSUME Inv, NEW c \in Clients, ptr[c] # Null, my_free(ptr[c])
  PROVE  /\ header_of(ptr[c]) \in Headers(c)
         /\ Memory(arenas', heap', pools', word', Owned \ {header_of(ptr[c])})
         /\ Spared(Owned \ {header_of(ptr[c])}) /\ Spared(Others(c))
         /\ LeftAlone(Owned \ {header_of(ptr[c])})
         /\ data' = Restrict(data, DOMAIN data \ {ptr[c]})
         /\ data' \in [DOMAIN data' -> Contents]
         /\ \A d \in Clients \ {c} : Unwritten(d)
<1> DEFINE h == header_of(ptr[c])
<1>1. /\ Types /\ Memory(arenas, heap, pools, word, Owned)
      /\ ptr[c] \in Payloads(c) /\ h \in Owned /\ h \in Headers(c)
      /\ Others(c) \subseteq Owned /\ Headers(c) \cap Others(c) = {}
  BY Having DEF Headers
<1>2. data' = Restrict(data, DOMAIN data \ {ptr[c]})
  BY DEF my_free
<1>3. data' \in [DOMAIN data' -> Contents]
  BY <1>1, <1>2 DEF Types, Restrict
<1>4. \A d \in Clients \ {c} : Unwritten(d)
  BY <1>1, <1>2, WrittenElsewhere
<1>5. /\ Memory(arenas', heap', pools', word', Owned \ {h})
      /\ Spared(Owned \ {h}) /\ LeftAlone(Owned \ {h})
  <2>1. ASSUME NEW O, Memory(arenas, heap, pools, word, O), h \in O
        PROVE  /\ Memory(arenas', heap', pools', word', O \ {h})
               /\ Spared(O \ {h}) /\ LeftAlone(O \ {h})
    BY <2>1, FreeMemory
  <2> QED
    BY <1>1, <2>1
<1>6. Spared(Others(c))
  <2>1. Others(c) \subseteq Owned \ {h}
    BY <1>1
  <2> HIDE DEF h
  <2> QED
    BY <1>5, <2>1 DEF Spared
<1> QED
  BY <1>1, <1>2, <1>3, <1>4, <1>5, <1>6

LEMMA FreeKeeps ==
  ASSUME Inv, NEW c \in Clients, Free(c)
  PROVE  Inv'
<1> DEFINE h == header_of(ptr[c])
<1>1. /\ pc[c] = "idle" /\ ptr[c] # Null /\ my_free(ptr[c])
      /\ ptr' = [ptr EXCEPT ![c] = Null] /\ req' = [req EXCEPT ![c] = 0]
      /\ saved' = [saved EXCEPT ![c] = Unknown]
      /\ pc' = pc /\ new' = new /\ want' = want /\ old' = old
  BY DEF Free, Holding, Idle, callVars
<1>2. Types /\ Call(c) /\ new[c] = Null
  BY <1>1, Having DEF Client, Call
<1>3. /\ h \in Headers(c)
      /\ Memory(arenas', heap', pools', word', Owned \ {h})
      /\ Spared(Others(c))
      /\ data' \in [DOMAIN data' -> Contents]
      /\ \A d \in Clients \ {c} : Unwritten(d)
  BY <1>1, Released
<1>4. Unknown \in Contents /\ Unknown.upto = 0
  BY DEF Unknown, Filled, Contents
<1>5. /\ ptr'[c] = Null /\ req'[c] = 0 /\ saved'[c] = Unknown
      /\ \A d \in Clients \ {c} : Rests(d)
  BY <1>1, <1>2 DEF Types, Rests
<1>6. Types'
  BY <1>1, <1>2, <1>3, <1>4 DEF Types, Null
<1>7. Client(c)'
  <2>1. Call(c)'
    BY <1>1, <1>2, <1>5 DEF Call
  <2>2. Room(c)'
    BY <1>1, <1>2, <1>5 DEF Room
  <2>3. Text(c)'
    BY <1>1, <1>4, <1>5 DEF Text, Survives
  <2> QED
    BY <2>1, <2>2, <2>3 DEF Client
<1>8. Headers(c) = {h} /\ Headers(c)' = {}
  BY <1>1, <1>2, <1>5 DEF Headers, Payloads
<1> HIDE DEF h
<1>9. Owned \ {h} = Others(c) \cup {}
  BY <1>2, <1>8, Having, HeadersDiffer
<1>10. ASSUME NEW H, Headers(c)' = H, H \cap Others(c) = {},
              NEW N, N = Others(c) \cup H, Memory(arenas', heap', pools', word', N)
       PROVE  Inv'
  BY <1>3, <1>5, <1>6, <1>7, <1>10, OneClient
<1> QED
  BY <1>3, <1>8, <1>9, <1>10

LEMMA ReallocFreeKeeps ==
  ASSUME Inv, NEW c \in Clients, ReallocFree(c)
  PROVE  Inv'
<1> DEFINE h == header_of(ptr[c])
           g == header_of(new[c])
<1>1. /\ pc[c] = "free" /\ my_free(ptr[c])
      /\ ptr' = [ptr EXCEPT ![c] = new[c]] /\ req' = [req EXCEPT ![c] = want[c]]
      /\ pc' = [pc EXCEPT ![c] = "idle"] /\ new' = [new EXCEPT ![c] = Null]
      /\ want' = [want EXCEPT ![c] = 0] /\ old' = [old EXCEPT ![c] = 0]
      /\ saved' = saved
  BY DEF ReallocFree
<1>2. /\ Types /\ Room(c) /\ Text(c) /\ ptr[c] # Null /\ new[c] # Null /\ new[c] # ptr[c]
      /\ req[c] <= old[c] /\ old[c] < want[c]
      /\ ptr[c] \in Nat /\ new[c] \in Nat /\ new[c] \in Payloads(c)
  BY <1>1, Having DEF Client, Call
<1>3. /\ Memory(arenas', heap', pools', word', Owned \ {h})
      /\ Spared(Owned \ {h}) /\ Spared(Others(c))
      /\ data' = Restrict(data, DOMAIN data \ {ptr[c]})
      /\ data' \in [DOMAIN data' -> Contents]
      /\ \A d \in Clients \ {c} : Unwritten(d)
  BY <1>1, <1>2, Released
<1>4. want[c] \in Nat /\ req[c] \in Nat /\ old[c] \in Nat /\ saved[c].upto \in Nat
  BY <1>2 DEF Types, Contents
<1>5. /\ pc'[c] = "idle" /\ ptr'[c] = new[c] /\ req'[c] = want[c] /\ new'[c] = Null
      /\ want'[c] = 0 /\ old'[c] = 0
      /\ \A d \in Clients \ {c} : Rests(d)
  BY <1>1, <1>2 DEF Types, Rests
<1>6. Types'
  BY <1>1, <1>2, <1>3, <1>4 DEF Types, Null
<1>7. h # g /\ g \in Owned
  BY <1>2, Having, HeadersDiffer
<1>8. Client(c)'
  <2>1. Call(c)'
    BY <1>5 DEF Call
  <2>2. Room(c)'
    <3>1. Serves(heap, pools, word, g, want[c])
      BY <1>2 DEF Room
    <3> HIDE DEF g, h
    <3>2. Serves(heap', pools', word', g, want[c])
      BY <1>3, <1>4, <1>7, <3>1 DEF Spared
    <3> QED
      BY <1>5, <3>2 DEF Room, g
  <2>3. Text(c)'
    <3>1. Survives(data, new[c], saved[c])
      BY <1>1, <1>2 DEF Text
    <3>2. Survives(data', new[c], saved[c])
      BY <1>2, <1>3, <3>1 DEF Survives, Restrict
    <3>3. saved[c].upto <= want[c]
      BY <1>2, <1>4 DEF Text
    <3> QED
      BY <1>1, <1>5, <3>2, <3>3 DEF Text
  <2> QED
    BY <2>1, <2>2, <2>3 DEF Client
<1>9. Headers(c) = {h, g} /\ Headers(c)' = {g}
  BY <1>2, <1>5 DEF Headers, Payloads
<1> HIDE DEF h, g
<1>10. Owned \ {h} = Others(c) \cup {g} /\ {g} \cap Others(c) = {}
  BY <1>2, <1>7, <1>9, Having, HeadersDiffer
<1>11. ASSUME NEW H, Headers(c)' = H, H \cap Others(c) = {},
              NEW N, N = Others(c) \cup H, Memory(arenas', heap', pools', word', N)
       PROVE  Inv'
  BY <1>3, <1>5, <1>6, <1>8, <1>11, OneClient
<1> QED
  BY <1>3, <1>9, <1>10, <1>11

LEMMA ReallocInPlaceKeeps ==
  ASSUME Inv, NEW c \in Clients, NEW n \in Requests, ReallocInPlace(c, n)
  PROVE  Inv'
<1> DEFINE h == header_of(ptr[c])
<1>1. /\ pc[c] = "idle" /\ ptr[c] # Null /\ ~ptr_is_pooled(ptr[c])
      /\ General!ReallocInPlace(c, n)
      /\ pools' = pools /\ word' = word /\ data' = data /\ saved' = saved
  BY DEF ReallocInPlace, Holding, Idle, poolVars
<1>2. /\ align_up(n) > heap.size[h]
      /\ req' = [req EXCEPT ![c] = n]
      /\ pc' = pc /\ ptr' = ptr /\ new' = new /\ want' = want /\ old' = old
  BY <1>1, SameAddresses DEF General!ReallocInPlace
<1>3. /\ Types /\ Call(c) /\ Room(c) /\ Text(c) /\ new[c] = Null /\ n \in Nat
      /\ Memory(arenas, heap, pools, word, Owned) /\ h \in Owned
      /\ Others(c) \subseteq Owned /\ Headers(c) \cap Others(c) = {}
  BY <1>1, Having, CallsAssumption DEF Client, Call
<1>4. /\ Memory(arenas', heap', pools', word', Owned)
      /\ Serves(heap', pools', word', h, n)
      /\ Spared(Owned)
  BY <1>1, <1>3, GrowMemory
<1>5. req[c] <= n
  <2>1. /\ payload_size(ptr[c]) \in Nat
        /\ Serves(heap, pools, word, h, req[c]) => req[c] <= payload_size(ptr[c])
        /\ n <= payload_size(ptr[c]) => Rounded(c, n) <= payload_size(ptr[c])
    BY <1>3, PayloadSizes DEF Types
  <2>2. payload_size(ptr[c]) = heap.size[h] /\ Rounded(c, n) = align_up(n)
    BY <1>1 DEF payload_size, Rounded
  <2>3. n \in Nat /\ n + 15 <= SizeMax
    <3>1. n \in Nat /\ n + Slack <= SizeMax
      BY CallsAssumption
    <3> QED
      BY <3>1, PageSizeAssumption, SizeMaxAssumption DEF Slack, Alignment, HeaderSize, FooterSize
  <2>4. align_up(n) \in Nat
    BY <2>3, AlignUp
  <2>5. req[c] \in Nat /\ Serves(heap, pools, word, h, req[c])
    BY <1>1, <1>3 DEF Room, Types
  <2> HIDE DEF h
  <2> QED
    BY <1>2, <1>3, <2>1, <2>2, <2>4, <2>5
<1>6. /\ req'[c] = n
      /\ \A d \in Clients \ {c} : Rests(d) /\ Unwritten(d)
  BY <1>1, <1>2, <1>3 DEF Types, Rests, Unwritten
<1>7. Types'
  BY <1>1, <1>2, <1>3 DEF Types
<1>8. Client(c)'
  <2>1. Call(c)'
    BY <1>1, <1>2, <1>3 DEF Call
  <2>2. Room(c)'
    BY <1>2, <1>3, <1>4, <1>6 DEF Room
  <2>3. saved[c].upto <= n
    BY <1>3, <1>5 DEF Text, Types, Contents
  <2>4. Text(c)'
    BY <1>1, <1>2, <1>3, <1>6, <2>3 DEF Text
  <2> QED
    BY <2>1, <2>2, <2>4 DEF Client
<1>9. Headers(c)' = Headers(c)
  BY <1>2 DEF Headers, Payloads
<1>10. Owned = Others(c) \cup Headers(c) /\ Spared(Others(c))
  BY <1>3, <1>4, HeadersDiffer DEF Spared
<1>11. ASSUME NEW H, Headers(c)' = H, H \cap Others(c) = {},
              NEW N, N = Others(c) \cup H, Memory(arenas', heap', pools', word', N)
       PROVE  Inv'
  BY <1>6, <1>7, <1>8, <1>10, <1>11, OneClient
<1> QED
  BY <1>3, <1>4, <1>9, <1>10, <1>11

LEMMA ReallocMissKeeps ==
  ASSUME Inv, NEW c \in Clients, NEW n \in Requests, ReallocMiss(c, n)
  PROVE  Inv'
<1> DEFINE m == payload_size(ptr[c])
<1>1. /\ pc[c] = "idle" /\ ptr[c] # Null /\ Rounded(c, n) > m
      /\ pc' = [pc EXCEPT ![c] = "move"] /\ want' = [want EXCEPT ![c] = n]
      /\ old' = [old EXCEPT ![c] = m]
      /\ arenas' = arenas /\ heap' = heap /\ pools' = pools /\ word' = word
      /\ new' = new /\ ptr' = ptr /\ req' = req /\ data' = data /\ saved' = saved
  BY DEF ReallocMiss, Holding, Idle, generalVars, poolVars
<1>2. /\ Types /\ Call(c) /\ Room(c) /\ Text(c) /\ new[c] = Null /\ n \in Nat
      /\ Memory(arenas, heap, pools, word, Owned) /\ header_of(ptr[c]) \in Owned
  BY <1>1, Having, CallsAssumption DEF Client, Call
<1>3. /\ m \in Nat
      /\ n <= m => Rounded(c, n) <= m
      /\ Serves(heap, pools, word, header_of(ptr[c]), req[c]) => req[c] <= m
  BY <1>2, PayloadSizes DEF Types
<1>4. Rounded(c, n) \in Nat
  <2>1. n \in Nat /\ n + 15 <= SizeMax
    <3>1. n \in Nat /\ n + Slack <= SizeMax
      BY CallsAssumption
    <3> QED
      BY <3>1, PageSizeAssumption, SizeMaxAssumption DEF Slack, Alignment, HeaderSize, FooterSize
  <2>2. align_up(n) \in Nat
    BY <2>1, AlignUp
  <2> QED
    BY <2>1, <2>2 DEF Rounded
<1> HIDE DEF m
<1>5. m < n /\ req[c] <= m
  BY <1>1, <1>2, <1>3, <1>4 DEF Room
<1>6. /\ pc'[c] = "move" /\ want'[c] = n /\ old'[c] = m
      /\ \A d \in Clients \ {c} : Rests(d) /\ Unwritten(d)
  BY <1>1, <1>2 DEF Types, Rests, Unwritten
<1>7. Types'
  BY <1>1, <1>2, <1>3 DEF Types
<1>8. Client(c)'
  <2>1. Call(c)'
    BY <1>1, <1>2, <1>5, <1>6 DEF Call
  <2>2. Room(c)'
    BY <1>1, <1>2 DEF Room
  <2>3. Text(c)'
    BY <1>1, <1>2, <1>6 DEF Text
  <2> QED
    BY <2>1, <2>2, <2>3 DEF Client
<1>9. Headers(c)' = Headers(c)
  BY <1>1 DEF Headers, Payloads
<1> QED
  BY <1>1, <1>6, <1>7, <1>8, <1>9, LocalStep

LEMMA ReallocCopyKeeps ==
  ASSUME Inv, NEW c \in Clients, ReallocCopy(c)
  PROVE  Inv'
<1> DEFINE v == Kept(DataAt(ptr[c]), copy_size(c))
<1>1. /\ pc[c] = "copy" /\ data' = Put(data, new[c], v)
      /\ pc' = [pc EXCEPT ![c] = "free"]
      /\ arenas' = arenas /\ heap' = heap /\ pools' = pools /\ word' = word
      /\ new' = new /\ want' = want /\ old' = old /\ ptr' = ptr /\ req' = req /\ saved' = saved
  BY DEF ReallocCopy, generalVars, poolVars
<1>2. /\ Types /\ Call(c) /\ Room(c) /\ Text(c)
      /\ ptr[c] # Null /\ new[c] # Null /\ new[c] # ptr[c] /\ new[c] \in Payloads(c)
      /\ req[c] <= old[c] /\ old[c] < want[c]
  BY <1>1, Having DEF Client, Call
<1>3. /\ req[c] \in Nat /\ old[c] \in Nat /\ want[c] \in Nat
      /\ saved[c] \in Contents /\ saved[c].upto \in Nat
  BY <1>2 DEF Types, Contents
<1>4. copy_size(c) = old[c]
  BY <1>2, <1>3 DEF copy_size, Least
<1>5. DataAt(ptr[c]) \in Contents
  BY <1>2 DEF DataAt, Types, Unknown, Filled, Contents
<1>6. /\ v \in Contents /\ v.who = DataAt(ptr[c]).who
      /\ v.upto = Least(DataAt(ptr[c]).upto, old[c])
  BY <1>3, <1>4, <1>5 DEF Kept, Contents, Least
<1> HIDE DEF v
<1>7. Survives(data', new[c], saved[c])
  <2>1. new[c] \in DOMAIN data' /\ data'[new[c]] = v
    BY <1>1 DEF Put
  <2>2. saved[c].upto <= old[c]
    BY <1>2, <1>3 DEF Text
  <2>3. saved[c].upto > 0 => v.who = saved[c].who /\ v.upto >= saved[c].upto
    <3>1. saved[c].upto > 0 => DataAt(ptr[c]).who = saved[c].who
                               /\ DataAt(ptr[c]).upto >= saved[c].upto
      BY <1>2 DEF Text, Survives, DataAt
    <3>2. DataAt(ptr[c]).upto \in Nat
      BY <1>5 DEF Contents
    <3> QED
      BY <1>3, <1>6, <2>2, <3>1, <3>2 DEF Least
  <2> QED
    BY <2>1, <2>3 DEF Survives
<1>8. Survives(data', ptr[c], saved[c])
  BY <1>1, <1>2 DEF Text, Survives, Put
<1>9. /\ pc'[c] = "free"
      /\ \A d \in Clients \ {c} : Rests(d)
  BY <1>1, <1>2 DEF Types, Rests
<1>10. \A d \in Clients \ {c} : Unwritten(d)
  BY <1>1, <1>2, WrittenElsewhere
<1>11. Types'
  <2>1. data' \in [DOMAIN data' -> Contents]
    BY <1>1, <1>2, <1>6 DEF Types, Put
  <2> QED
    BY <1>1, <1>2, <2>1 DEF Types
<1>12. Client(c)'
  <2>1. Call(c)'
    BY <1>1, <1>2, <1>9 DEF Call
  <2>2. Room(c)'
    BY <1>1, <1>2 DEF Room
  <2>3. Text(c)'
    BY <1>1, <1>2, <1>7, <1>8 DEF Text
  <2> QED
    BY <2>1, <2>2, <2>3 DEF Client
<1>13. Headers(c)' = Headers(c)
  BY <1>1 DEF Headers, Payloads
<1> QED
  BY <1>1, <1>9, <1>10, <1>11, <1>12, <1>13, LocalStep

LEMMA WriteKeeps ==
  ASSUME Inv, NEW c \in Clients, Write(c)
  PROVE  Inv'
<1> DEFINE v == Filled(c, req[c])
<1>1. /\ pc[c] = "idle" /\ ptr[c] # Null /\ data' = Put(data, ptr[c], v)
      /\ saved' = [saved EXCEPT ![c] = v]
      /\ arenas' = arenas /\ heap' = heap /\ pools' = pools /\ word' = word
      /\ pc' = pc /\ new' = new /\ want' = want /\ old' = old /\ ptr' = ptr /\ req' = req
  BY DEF Write, Holding, Idle, generalVars, poolVars, callVars
<1>2. Types /\ Call(c) /\ Room(c) /\ ptr[c] \in Payloads(c) /\ req[c] \in Nat
  BY <1>1, Having DEF Client, Types
<1>3. v \in Contents /\ v.upto = req[c]
  BY <1>2 DEF Filled, Contents
<1> HIDE DEF v
<1>4. ptr[c] \in DOMAIN data' /\ data'[ptr[c]] = v /\ data' \in [DOMAIN data' -> Contents]
  BY <1>1, <1>2, <1>3 DEF Put, Types
<1>5. /\ saved'[c] = v
      /\ \A d \in Clients \ {c} : Rests(d)
  BY <1>1, <1>2 DEF Types, Rests
<1>6. \A d \in Clients \ {c} : Unwritten(d)
  BY <1>1, <1>2, WrittenElsewhere
<1>7. Types'
  BY <1>1, <1>2, <1>3, <1>4 DEF Types
<1>8. Client(c)'
  <2>1. Call(c)'
    BY <1>1, <1>2 DEF Call
  <2>2. Room(c)'
    BY <1>1, <1>2 DEF Room
  <2>3. Text(c)'
    BY <1>1, <1>2, <1>3, <1>4, <1>5 DEF Text, Survives
  <2> QED
    BY <2>1, <2>2, <2>3 DEF Client
<1>9. Headers(c)' = Headers(c)
  BY <1>1 DEF Headers, Payloads
<1> QED
  BY <1>1, <1>5, <1>6, <1>7, <1>8, <1>9, LocalStep

LEMMA ReallocMallocKeeps ==
  ASSUME Inv, NEW c \in Clients, ReallocMalloc(c)
  PROVE  Inv'
<1>1. PICK q : /\ my_malloc(want[c], q)
               /\ \/ /\ q # Null
                     /\ new' = [new EXCEPT ![c] = q]
                     /\ pc' = [pc EXCEPT ![c] = "copy"]
                     /\ want' = want /\ old' = old
                  \/ /\ q = Null
                     /\ pc' = [pc EXCEPT ![c] = "idle"]
                     /\ want' = [want EXCEPT ![c] = 0]
                     /\ old' = [old EXCEPT ![c] = 0]
                     /\ new' = new
  BY DEF ReallocMalloc
<1>2. /\ pc[c] = "move" /\ ptr' = ptr /\ req' = req /\ data' = data /\ saved' = saved
  BY DEF ReallocMalloc
<1>3. /\ Types /\ Call(c) /\ Room(c) /\ Text(c) /\ new[c] = Null /\ ptr[c] # Null
      /\ want[c] \in Requests /\ req[c] <= old[c] /\ old[c] < want[c]
      /\ ptr[c] \in Payloads(c) /\ header_of(ptr[c]) \in Owned /\ ptr[c] \in Nat
      /\ Others(c) \subseteq Owned /\ Headers(c) \cap Others(c) = {}
      /\ Memory(arenas, heap, pools, word, Owned)
  BY <1>2, Having DEF Client, Call
<1>4. CASE q # Null
  <2> DEFINE g == header_of(q)
             h == header_of(ptr[c])
  <2>1. /\ new' = [new EXCEPT ![c] = q] /\ pc' = [pc EXCEPT ![c] = "copy"]
        /\ want' = want /\ old' = old
    BY <1>1, <1>4
  <2>2. /\ q \in Nat /\ g \notin Owned
        /\ Memory(arenas', heap', pools', word', Owned \cup {g})
        /\ Serves(heap', pools', word', g, want[c])
        /\ Spared(Owned)
    BY <1>1, <1>3, <1>4, Obtained
  <2>3. /\ pc'[c] = "copy" /\ new'[c] = q
        /\ \A d \in Clients \ {c} : Rests(d) /\ Unwritten(d)
    BY <1>2, <1>3, <2>1 DEF Types, Rests, Unwritten
  <2>4. Types'
    BY <1>2, <1>3, <2>1, <2>2 DEF Types
  <2>5. q # ptr[c] /\ req[c] \in Nat
    BY <1>3, <2>2 DEF Types
  <2>6. Client(c)'
    <3>1. Call(c)'
      BY <1>2, <1>3, <1>4, <2>1, <2>3, <2>5 DEF Call
    <3>2. Room(c)'
      <4>1. Serves(heap, pools, word, h, req[c])
        BY <1>3 DEF Room
      <4> HIDE DEF h
      <4>2. h \in Owned
        BY <1>3 DEF h
      <4>3. Serves(heap', pools', word', h, req[c])
        BY <2>2, <2>5, <4>1, <4>2 DEF Spared
      <4> QED
        BY <1>2, <2>1, <2>2, <2>3, <4>3 DEF Room, h
    <3>3. Text(c)'
      BY <1>2, <1>3, <2>3 DEF Text
    <3> QED
      BY <3>1, <3>2, <3>3 DEF Client
  <2>7. Headers(c)' = {h, g} /\ Headers(c) = {h}
    BY <1>2, <1>3, <1>4, <2>3 DEF Headers, Payloads
  <2> HIDE DEF g, h
  <2>8. /\ {h, g} \cap Others(c) = {} /\ Owned \cup {g} = Others(c) \cup {h, g}
        /\ Spared(Others(c))
    BY <1>3, <2>2, <2>7, HeadersDiffer DEF Spared
  <2>9. ASSUME NEW H, Headers(c)' = H, H \cap Others(c) = {},
               NEW N, N = Others(c) \cup H, Memory(arenas', heap', pools', word', N)
        PROVE  Inv'
    BY <2>3, <2>4, <2>6, <2>8, <2>9, OneClient
  <2> QED
    BY <2>2, <2>7, <2>8, <2>9
<1>5. CASE q = Null
  <2>1. /\ new' = new /\ pc' = [pc EXCEPT ![c] = "idle"]
        /\ want' = [want EXCEPT ![c] = 0] /\ old' = [old EXCEPT ![c] = 0]
    BY <1>1, <1>5
  <2>2. arenas' = arenas /\ heap' = heap /\ pools' = pools /\ word' = word
    <3>1. ASSUME NEW n \in Requests, my_malloc(n, q)
          PROVE  arenas' = arenas /\ heap' = heap /\ pools' = pools /\ word' = word
      <4>1. ASSUME NEW O, Memory(arenas, heap, pools, word, O)
            PROVE  arenas' = arenas /\ heap' = heap /\ pools' = pools /\ word' = word
        BY <1>5, <3>1, <4>1, MallocMemory
      <4> QED
        BY <1>3, <4>1
    <3> QED
      BY <1>1, <1>3, <3>1
  <2>3. /\ pc'[c] = "idle"
        /\ \A d \in Clients \ {c} : Rests(d) /\ Unwritten(d)
    BY <1>2, <1>3, <2>1 DEF Types, Rests, Unwritten
  <2>4. Types'
    BY <1>2, <1>3, <2>1 DEF Types
  <2>5. Client(c)'
    <3>1. Call(c)'
      BY <1>3, <2>1, <2>3 DEF Call
    <3>2. Room(c)'
      BY <1>2, <1>3, <2>1, <2>2 DEF Room
    <3>3. Text(c)'
      BY <1>2, <1>3, <2>3 DEF Text
    <3> QED
      BY <3>1, <3>2, <3>3 DEF Client
  <2>6. Headers(c)' = Headers(c)
    BY <1>2, <2>1 DEF Headers, Payloads
  <2> QED
    BY <2>2, <2>3, <2>4, <2>5, <2>6, LocalStep
<1> QED
  BY <1>4, <1>5

\* Nothing mapped, nothing owned.
LEMMA EmptyMemory ==
  Memory(<< >>, EmptyHeap, [i \in Classes |-> NewPool], << >>, {})
<1> DEFINE pl == [i \in Classes |-> NewPool]
<1>1. Good(<< >>, EmptyHeap)
  <2>1. Heap!Good(<< >>, Heap!EmptyHeap)
    BY GeneralAssumptions, SizeMaxAssumption, PageSizeAssumption, ArenaSizeAssumption,
       Heap!EmptyGood
  <2>2. Heap!EmptyHeap = EmptyHeap
    BY DEF Heap!EmptyHeap, EmptyHeap
  <2> QED
    BY <2>1, <2>2, SameGood
<1>2. Small(<< >>)
  BY DEF Small
<1>3. /\ pl \in [Classes -> PoolRecords]
      /\ \A i \in Classes : pl[i].arenas = {} /\ pl[i].free_head = Null
  BY DEF NewPool, PoolRecords, Cells, Null
<1> HIDE DEF pl
<1>4. \A i \in Classes : SlotsIn(i, pl[i].arenas) = {}
  BY <1>3 DEF SlotsIn
<1>5. PoolsType(pl, << >>)
  <2>1. UNION {SlotsIn(i, pl[i].arenas) : i \in Classes} = {}
    BY <1>4
  <2>2. DOMAIN << >> = {} /\ << >> \in [{} -> Nat]
    OBVIOUS
  <2> QED
    BY <1>3, <2>1, <2>2 DEF PoolsType
<1>6. PoolsApart(<< >>, pl)
  BY <1>3 DEF PoolsApart
<1>7. \A i \in Classes : Chained(<< >>, SlotsIn(i, pl[i].arenas) \ {}, pl[i].free_head)
  BY <1>3, <1>4 DEF Chained
<1>8. Memory(<< >>, EmptyHeap, pl, << >>, {})
  BY <1>1, <1>2, <1>5, <1>6, <1>7 DEF Memory
<1> QED
  BY <1>8 DEF pl

LEMMA ShutdownKeeps ==
  ASSUME Inv, Shutdown
  PROVE  Inv'
<1>1. /\ arenas' = << >> /\ heap' = EmptyHeap
      /\ pools' = [i \in Classes |-> NewPool] /\ word' = << >> /\ data' = << >>
      /\ ptr' = [c \in Clients |-> Null] /\ req' = [c \in Clients |-> 0]
      /\ saved' = [c \in Clients |-> Unknown]
      /\ pc' = pc /\ new' = new /\ want' = want /\ old' = old
      /\ \A c \in Clients : pc[c] = "idle"
  BY DEF Shutdown, Idle, callVars
<1>2. Types /\ \A c \in Clients : Call(c)
  BY DEF Inv, Client
<1>3. Unknown \in Contents /\ Unknown.upto = 0
  BY DEF Unknown, Filled, Contents
<1>4. Types'
  <2>1. data' \in [DOMAIN data' -> Contents]
    BY <1>1
  <2> QED
    BY <1>1, <1>2, <1>3, <2>1 DEF Types, Null
<1>5. ASSUME NEW c \in Clients PROVE Client(c)' /\ Headers(c)' = {}
  <2>1. /\ pc'[c] = "idle" /\ ptr'[c] = Null /\ new'[c] = Null /\ req'[c] = 0
        /\ saved'[c] = Unknown
    BY <1>1, <1>2 DEF Call
  <2>2. Call(c)' /\ Room(c)'
    BY <2>1 DEF Call, Room
  <2>3. Text(c)'
    BY <1>3, <2>1 DEF Text
  <2>4. Headers(c)' = {}
    BY <2>1 DEF Headers, Payloads
  <2> QED
    BY <2>2, <2>3, <2>4 DEF Client
<1>6. Memory(arenas', heap', pools', word', Owned')
  <2>1. Owned' = {}
    BY <1>5 DEF Owned
  <2> QED
    BY <1>1, <2>1, EmptyMemory
<1>7. \A c, d \in Clients : c # d => Headers(c)' \cap Headers(d)' = {}
  BY <1>5
<1> QED
  BY <1>4, <1>5, <1>6, <1>7 DEF Inv

LEMMA InitInv == Init => Inv
<1> SUFFICES ASSUME Init PROVE Inv
  OBVIOUS
<1>1. /\ arenas = << >> /\ heap = EmptyHeap
      /\ pools = [i \in Classes |-> NewPool] /\ word = << >> /\ data = << >>
      /\ pc = [c \in Clients |-> "idle"] /\ ptr = [c \in Clients |-> Null]
      /\ req = [c \in Clients |-> 0] /\ new = [c \in Clients |-> Null]
      /\ want = [c \in Clients |-> 0] /\ old = [c \in Clients |-> 0]
      /\ saved = [c \in Clients |-> Unknown]
  <2>1. General!EmptyHeap = EmptyHeap /\ General!Null = Null
    BY SameAddresses DEF General!EmptyHeap, EmptyHeap
  <2> QED
    BY <2>1 DEF Init, General!Init
<1>2. Unknown \in Contents /\ Unknown.upto = 0
  BY DEF Unknown, Filled, Contents
<1>3. Types
  <2>1. data \in [DOMAIN data -> Contents]
    BY <1>1
  <2> QED
    BY <1>1, <1>2, <2>1 DEF Types, Null
<1>4. ASSUME NEW c \in Clients PROVE Client(c) /\ Headers(c) = {}
  <2>1. /\ pc[c] = "idle" /\ ptr[c] = Null /\ new[c] = Null /\ req[c] = 0
        /\ saved[c] = Unknown
    BY <1>1
  <2>2. Call(c) /\ Room(c)
    BY <2>1 DEF Call, Room
  <2>3. Text(c)
    BY <1>2, <2>1 DEF Text
  <2>4. Headers(c) = {}
    BY <2>1 DEF Headers, Payloads
  <2> QED
    BY <2>2, <2>3, <2>4 DEF Client
<1>5. Memory(arenas, heap, pools, word, Owned)
  <2>1. Owned = {}
    BY <1>4 DEF Owned
  <2> QED
    BY <1>1, <2>1, EmptyMemory
<1>6. \A c, d \in Clients : c # d => Headers(c) \cap Headers(d) = {}
  BY <1>4
<1> QED
  BY <1>3, <1>4, <1>5, <1>6 DEF Inv

LEMMA NextInv == Inv /\ [Next]_vars => Inv'
<1> SUFFICES ASSUME Inv, [Next]_vars PROVE Inv'
  OBVIOUS
<1>1. ASSUME NEW c \in Clients, NEW n \in Requests,
             \/ Malloc(c, n) \/ CallocMalloc(c, n) \/ ReallocFits(c, n)
             \/ ReallocInPlace(c, n) \/ ReallocMiss(c, n)
      PROVE  Inv'
  BY <1>1, MallocKeeps, CallocMallocKeeps, ReallocFitsKeeps, ReallocInPlaceKeeps,
     ReallocMissKeeps
<1>2. ASSUME NEW c \in Clients,
             \/ CallocZero(c) \/ Free(c) \/ ReallocMalloc(c) \/ ReallocCopy(c)
             \/ ReallocFree(c) \/ Write(c)
      PROVE  Inv'
  BY <1>2, CallocZeroKeeps, FreeKeeps, ReallocMallocKeeps, ReallocCopyKeeps,
     ReallocFreeKeeps, WriteKeeps
<1>3. CASE Shutdown
  BY <1>3, ShutdownKeeps
<1>4. CASE UNCHANGED vars
  <2>1. /\ arenas' = arenas /\ heap' = heap /\ pools' = pools /\ word' = word
        /\ pc' = pc /\ ptr' = ptr /\ req' = req /\ new' = new /\ want' = want /\ old' = old
        /\ data' = data /\ saved' = saved
    BY <1>4 DEF vars, generalVars, poolVars, callVars
  <2>2. Types'
    BY <2>1 DEF Inv, Types
  <2>3. \A d \in Clients : Rests(d) /\ Unwritten(d)
    BY <2>1 DEF Rests, Unwritten
  <2>4. \A d \in Clients : Client(d)' /\ Headers(d)' = Headers(d)
    <3>1. \A d \in Clients : Spared(Headers(d))
      BY <2>1 DEF Spared
    <3> QED
      BY <2>3, <3>1, RestingClient DEF Inv
  <2>5. Owned' = Owned
    BY <2>4 DEF Owned
  <2> QED
    BY <2>1, <2>2, <2>4, <2>5 DEF Inv
<1> QED
  BY <1>1, <1>2, <1>3, <1>4 DEF Next

LEMMA Invariance == Spec => []Inv
BY InitInv, NextInv, PTL DEF Spec

-----------------------------------------------------------------------------
(* The theorems.                                                           *)

\* Every variable keeps its type: pools start their lists with slots of their
\* own, and every slot has a word (memory_pool.cpp).
THEOREM TypeCorrect == Spec => []TypeOK
<1>1. Inv => TypeOK
  <2> SUFFICES ASSUME Inv PROVE TypeOK
    OBVIOUS
  <2>1. /\ Types /\ Good(arenas, heap) /\ PoolsType(pools, word)
        /\ \A i \in Classes : Chained(word, SlotsIn(i, pools[i].arenas) \ Owned, pools[i].free_head)
    BY DEF Inv, Memory
  <2>2. ArenasType(arenas) /\ HeapType(heap)
    BY <2>1 DEF Good, Sound, Shape
  <2>3. \A i \in Classes : SlotsOf(i) = SlotsIn(i, pools[i].arenas)
    BY DEF SlotsOf, SlotsIn
  <2>4. ASSUME NEW i \in Classes
        PROVE  /\ pools[i] \in [arenas : SUBSET [base : Nat, size : Nat], free_head : Nat]
               /\ pools[i].free_head \in SlotsOf(i) \cup {Null}
    <3>1. pools[i] \in [arenas : SUBSET [base : Nat, size : Nat], free_head : Nat]
      BY <2>1 DEF PoolsType, PoolRecords, Cells
    <3>2. pools[i].free_head \in SlotsOf(i) \cup {Null}
      BY <2>1, <2>3 DEF Chained
    <3> QED
      BY <3>1, <3>2
  <2>5. DOMAIN word = UNION {SlotsOf(i) : i \in Classes} /\ word \in [DOMAIN word -> Nat]
    BY <2>1, <2>3 DEF PoolsType
  <2> QED
    BY <2>1, <2>2, <2>4, <2>5 DEF TypeOK, Types
<1> QED
  BY <1>1, Invariance, PTL

\* The word in front of every payload a client has leads my_free() back to
\* where the payload came from, slot or block (ptr_is_pooled, allocator.cpp).
THEOREM PointersComeHome == Spec => []PointersRouteHome
<1>1. Inv => PointersRouteHome
  <2> SUFFICES ASSUME Inv, NEW c \in Clients, NEW p \in Payloads(c)
               PROVE  LET h == header_of(p) IN
                      \/ ptr_is_pooled(p) /\ h \in SlotsOf(PoolOf(p)) /\ h \notin Block(heap)
                      \/ ~ptr_is_pooled(p) /\ h \in Allocated(heap) /\ h \notin DOMAIN word
    BY DEF PointersRouteHome
  <2> DEFINE h == header_of(p)
  <2>1. h \in Owned /\ Memory(arenas, heap, pools, word, Owned)
    BY DEF Inv, Owned, Headers
  <2>2. (\E i \in Classes : InSlot(pools, word, i, h)) \/ h \in Allocated(heap)
    BY <2>1 DEF Memory
  <2> QED
    BY <2>1, <2>2, Recognised
<1> QED
  BY <1>1, Invariance, PTL

\* my_realloc() keeps what was written, and my_calloc() what it zeroed, while
\* other clients are at work between its steps.
THEOREM ContentsAreKept == Spec => []ContentsSurvive
<1>1. Inv => ContentsSurvive
  BY DEF Inv, Client, Text, Survives, ContentsSurvive, DataAt
<1> QED
  BY <1>1, Invariance, PTL

-----------------------------------------------------------------------------
(* Where payloads lie.                                                     *)

\* The slots of a region are aligned, lie inside it with their payloads, and
\* none overlaps another.
LEMMA SlotBytes ==
  ASSUME NEW i \in Classes, NEW a \in RegionsAt(i), NEW k \in 1..slot_count(i, a.size)
  PROVE  /\ a.base \in Nat /\ a.size \in Nat /\ Slot(i, a, k) \in Nat
         /\ a.base <= Slot(i, a, k)
         /\ Slot(i, a, k) + slot_total_size(i) <= a.base + a.size
         /\ IsAligned(Slot(i, a, k))
         /\ \A l \in 1..slot_count(i, a.size) :
              l > k => Slot(i, a, k) + slot_total_size(i) <= Slot(i, a, l)
<1> DEFINE d == slot_total_size(i)
           n == slot_count(i, a.size)
<1>1. a.base \in Nat /\ IsAligned(a.base) /\ a.size = RegionSize(i)
  BY BasesAssumption DEF RegionsAt
<1>2. d \in Nat /\ d >= 32 /\ a.size \in Nat /\ n \in Nat \ {0} /\ n = a.size \div d
  BY <1>1, RegionSizes DEF slot_count
<1>3. \A l \in 1..n : Slot(i, a, l) = a.base + (l - 1) * d
  BY DEF Slot
<1>4. IsAligned(a.base + (k - 1) * d)
  <2>1. k - 1 \in Nat
    BY <1>2
  <2>2. \E m \in Nat : d = 16 * m
    <3>1. \/ i = 1 \/ i = 2 \/ i = 3 \/ i = 4 \/ i = 5 \/ i = 6 \/ i = 7 \/ i = 8 \/ i = 9
      BY TheClasses
    <3>2. PICK m \in {1, 2, 4, 8, 16, 32, 64, 128, 256} : kSizeClasses[i] = 16 * m
      BY <3>1 DEF kSizeClasses
    <3>3. m \in Nat
      OBVIOUS
    <3>4. d = 16 * (m + 1) /\ m + 1 \in Nat
      BY <3>2, <3>3 DEF slot_total_size, HeaderSize
    <3> QED
      BY <3>4
  <2>3. PICK m \in Nat : d = 16 * m
    BY <2>2
  <2>4. PICK b \in Nat : a.base = 16 * b
    <3>1. a.base = 16 * (a.base \div 16) /\ a.base \div 16 \in Nat
      BY <1>1 DEF IsAligned, Alignment
    <3> QED
      BY <3>1
  <2> DEFINE j == k - 1
  <2>5. j \in Nat
    BY <2>1
  <2> HIDE DEF d, j
  <2>6. j * d = 16 * (j * m) /\ j * m \in Nat
    BY <2>3, <2>5
  <2>7. a.base + j * d = 16 * (b + j * m)
    BY <2>4, <2>6
  <2>8. \A x \in Nat : (16 * x) % 16 = 0
    OBVIOUS
  <2>9. b + j * m \in Nat
    BY <2>6
  <2> QED
    BY <2>7, <2>8, <2>9 DEF IsAligned, Alignment, j
<1> HIDE DEF d
<1>5. k \in Nat /\ k >= 1 /\ k * d <= a.size
  <2>1. k \in Nat /\ k >= 1 /\ k <= a.size \div d
    BY <1>2
  <2> QED
    BY <1>2, <2>1, Multiples
<1>6. (k - 1) * d = k * d - d /\ (k - 1) * d \in Nat /\ k * d \in Nat
  BY <1>2, <1>5
<1>7. ASSUME NEW l \in 1..n, l > k PROVE k * d <= (l - 1) * d
  <2>1. l - 1 \in Nat /\ k <= l - 1
    BY <1>2, <1>5, <1>7
  <2>2. \A x, y \in Nat : x <= y => x * d <= y * d
    BY <1>2
  <2> QED
    BY <1>5, <2>1, <2>2
<1>8. k \in 1..n /\ Slot(i, a, k) = a.base + (k - 1) * d
  BY <1>3
<1>9. /\ Slot(i, a, k) \in Nat /\ a.base <= Slot(i, a, k)
      /\ Slot(i, a, k) + d <= a.base + a.size
  BY <1>1, <1>2, <1>5, <1>6, <1>8
<1>10. ASSUME NEW l \in 1..n, l > k PROVE Slot(i, a, k) + d <= Slot(i, a, l)
  <2>1. Slot(i, a, l) = a.base + (l - 1) * d /\ k * d <= (l - 1) * d /\ (l - 1) * d \in Nat
    BY <1>2, <1>3, <1>5, <1>7, <1>10
  <2> QED
    BY <1>1, <1>2, <1>6, <1>8, <2>1
<1> QED
  BY <1>1, <1>2, <1>4, <1>8, <1>9, <1>10 DEF d

\* The bytes of a payload of i are in a region of pool i.
LEMMA InSlotBytes ==
  ASSUME NEW pl, NEW w, NEW i \in Classes, pl[i].arenas \subseteq RegionsAt(i),
         NEW h, InSlot(pl, w, i, h)
  PROVE  /\ h \in Nat /\ kSizeClasses[i] \in Nat /\ IsAligned(h)
         /\ \E a \in pl[i].arenas : /\ a.base \in Nat /\ a.size \in Nat
                                    /\ a.base <= h
                                    /\ h + 16 + kSizeClasses[i] <= a.base + a.size
                                    /\ \E k \in 1..slot_count(i, a.size) : h = Slot(i, a, k)
<1>1. PICK a \in pl[i].arenas : \E k \in 1..slot_count(i, a.size) : h = Slot(i, a, k)
  BY DEF InSlot, SlotsIn
<1>2. PICK k \in 1..slot_count(i, a.size) : h = Slot(i, a, k)
  BY <1>1
<1>3. a \in RegionsAt(i)
  OBVIOUS
<1>4. kSizeClasses[i] \in Nat /\ slot_total_size(i) = 16 + kSizeClasses[i]
  BY TheClasses DEF slot_total_size, HeaderSize
<1>5. /\ a.base \in Nat /\ a.size \in Nat /\ h \in Nat /\ a.base <= h
      /\ h + slot_total_size(i) <= a.base + a.size /\ IsAligned(h)
  BY <1>2, <1>3, SlotBytes
<1> QED
  BY <1>2, <1>4, <1>5

\* The bytes of a block are in an arena.
LEMMA BlockBytes ==
  ASSUME NEW A, NEW hp, Good(A, hp), NEW b \in Block(hp)
  PROVE  /\ b \in Nat /\ hp.size[b] \in Nat /\ IsAligned(b)
         /\ \E j \in DOMAIN A : /\ A[j].base \in Nat /\ A[j].size \in Nat
                                /\ A[j].base <= b
                                /\ b + 32 + hp.size[b] <= A[j].base + A[j].size
<1>1. ArenasType(A) /\ ArenasApart(A) /\ HeapType(hp) /\ Tiled(A, hp) /\ AllAligned(A, hp)
  BY DEF Good, Sound, Shape
<1>2. PICK j \in DOMAIN A : Within(A, hp, j, b)
  BY <1>1 DEF Tiled
<1>3. /\ A[j].base \in Nat /\ A[j].size \in Nat /\ A[j].used \in Nat
      /\ CarvedEnd(A[j]) = A[j].base + A[j].used
  BY <1>1, ArenaEnds
<1>4. A[j].used <= A[j].size
  BY <1>1 DEF ArenasApart
<1>5. b \in Nat /\ hp.size[b] \in Nat /\ next_physical_header(hp, b) = b + 32 + hp.size[b]
  BY <1>1, BlockEnds
<1>6. A[j].base <= b /\ b + 32 + hp.size[b] <= A[j].base + A[j].size
  BY <1>2, <1>3, <1>4, <1>5 DEF Within
<1>7. IsAligned(b)
  BY <1>1 DEF AllAligned
<1> QED
  BY <1>3, <1>5, <1>6, <1>7

\* A payload has one measure, and starts at an aligned address.
LEMMA OneMeasure ==
  ASSUME NEW A, NEW hp, NEW pl, NEW w, NEW O, Memory(A, hp, pl, w, O), NEW h \in O
  PROVE  /\ h \in Nat /\ IsAligned(h)
         /\ \E n \in Nat : Measures(hp, pl, w, h, n)
         /\ \A m, n : Measures(hp, pl, w, h, m) /\ Measures(hp, pl, w, h, n) => m = n
         /\ \A m : Measures(hp, pl, w, h, m) => m \in Nat
         /\ \A m, n : Measures(hp, pl, w, h, m) /\ Serves(hp, pl, w, h, n) => n <= m
<1>1. /\ Good(A, hp) /\ PoolsApart(A, pl)
      /\ \A i \in Classes : pl[i].arenas \subseteq RegionsAt(i)
      /\ (\E i \in Classes : InSlot(pl, w, i, h)) \/ h \in Allocated(hp)
  BY DEF Memory, PoolsApart
<1>2. CASE \E i \in Classes : InSlot(pl, w, i, h)
  <2>1. PICK i \in Classes : InSlot(pl, w, i, h)
    BY <1>2
  <2>2. h \in SlotsIn(i, pl[i].arenas)
    BY <2>1 DEF InSlot
  <2>3. h \notin Allocated(hp) /\ \A j \in Classes : InSlot(pl, w, j, h) => j = i
    BY <1>1, <2>2, OnePool DEF InSlot, Allocated
  <2>4. h \in Nat /\ IsAligned(h) /\ kSizeClasses[i] \in Nat
    BY <1>1, <2>1, InSlotBytes
  <2>5. \A n : /\ Measures(hp, pl, w, h, n) <=> n = kSizeClasses[i]
               /\ Serves(hp, pl, w, h, n) <=> n <= kSizeClasses[i]
    BY <2>1, <2>3 DEF Measures, Serves
  <2> QED
    BY <2>4, <2>5
<1>3. CASE h \in Allocated(hp)
  <2>1. h \in Block(hp)
    BY <1>3 DEF Allocated
  <2>2. h \in Nat /\ IsAligned(h) /\ hp.size[h] \in Nat
    BY <1>1, <2>1, BlockBytes
  <2>3. \A j \in Classes : ~InSlot(pl, w, j, h)
    BY <1>1, <2>1, OnePool DEF InSlot
  <2>4. \A n : /\ Measures(hp, pl, w, h, n) <=> n = hp.size[h]
               /\ Serves(hp, pl, w, h, n) <=> n <= hp.size[h]
    BY <1>3, <2>3 DEF Measures, Serves
  <2> QED
    BY <2>2, <2>4
<1> QED
  BY <1>1, <1>2, <1>3

\* Two payloads share no byte, whichever path they are from.
LEMMA PayloadsApart ==
  ASSUME NEW A, NEW hp, NEW pl, NEW w, NEW O, Memory(A, hp, pl, w, O),
         NEW h \in O, NEW g \in O, h # g,
         NEW m, Measures(hp, pl, w, h, m), NEW n, Measures(hp, pl, w, g, n)
  PROVE  h + 16 + m <= g \/ g + 16 + n <= h
<1>1. /\ Good(A, hp)
      /\ \A i \in Classes : pl[i].arenas \subseteq RegionsAt(i)
      /\ \A i, j \in Classes : \A a \in pl[i].arenas, b \in pl[j].arenas :
           (i = j /\ a = b) \/ Disjoint(a, b)
      /\ \A i \in Classes : \A a \in pl[i].arenas, j \in DOMAIN A : Disjoint(a, A[j])
  BY DEF Memory, PoolsApart
<1>2. ASSUME NEW i \in Classes, NEW x, NEW y, InSlot(pl, w, i, x), y \in Allocated(hp)
      PROVE  x + 16 + kSizeClasses[i] <= y \/ y + 16 + hp.size[y] <= x
  <2>1. /\ x \in Nat /\ kSizeClasses[i] \in Nat
        /\ \E a \in pl[i].arenas : /\ a.base \in Nat /\ a.size \in Nat /\ a.base <= x
                                   /\ x + 16 + kSizeClasses[i] <= a.base + a.size
    BY <1>1, <1>2, InSlotBytes
  <2>2. PICK a \in pl[i].arenas : /\ a.base \in Nat /\ a.size \in Nat /\ a.base <= x
                                  /\ x + 16 + kSizeClasses[i] <= a.base + a.size
    BY <2>1
  <2>3. /\ y \in Nat /\ hp.size[y] \in Nat
        /\ \E j \in DOMAIN A : /\ A[j].base \in Nat /\ A[j].size \in Nat /\ A[j].base <= y
                               /\ y + 32 + hp.size[y] <= A[j].base + A[j].size
    BY <1>1, <1>2, BlockBytes DEF Allocated
  <2>4. PICK j \in DOMAIN A : /\ A[j].base \in Nat /\ A[j].size \in Nat /\ A[j].base <= y
                              /\ y + 32 + hp.size[y] <= A[j].base + A[j].size
    BY <2>3
  <2>5. a.base + a.size <= A[j].base \/ A[j].base + A[j].size <= a.base
    BY <1>1 DEF Disjoint
  <2> QED
    BY <2>1, <2>2, <2>3, <2>4, <2>5
<1>3. ASSUME NEW i \in Classes, NEW k \in Classes, NEW x, NEW y, x # y,
             InSlot(pl, w, i, x), InSlot(pl, w, k, y)
      PROVE  x + 16 + kSizeClasses[i] <= y \/ y + 16 + kSizeClasses[k] <= x
  <2>1. /\ x \in Nat /\ kSizeClasses[i] \in Nat
        /\ \E a \in pl[i].arenas : /\ a.base \in Nat /\ a.size \in Nat /\ a.base <= x
                                   /\ x + 16 + kSizeClasses[i] <= a.base + a.size
                                   /\ \E s \in 1..slot_count(i, a.size) : x = Slot(i, a, s)
    BY <1>1, <1>3, InSlotBytes
  <2>2. /\ y \in Nat /\ kSizeClasses[k] \in Nat
        /\ \E b \in pl[k].arenas : /\ b.base \in Nat /\ b.size \in Nat /\ b.base <= y
                                   /\ y + 16 + kSizeClasses[k] <= b.base + b.size
                                   /\ \E s \in 1..slot_count(k, b.size) : y = Slot(k, b, s)
    BY <1>1, <1>3, InSlotBytes
  <2>3. PICK a \in pl[i].arenas : /\ a.base \in Nat /\ a.size \in Nat /\ a.base <= x
                                  /\ x + 16 + kSizeClasses[i] <= a.base + a.size
                                  /\ \E s \in 1..slot_count(i, a.size) : x = Slot(i, a, s)
    BY <2>1
  <2>4. PICK b \in pl[k].arenas : /\ b.base \in Nat /\ b.size \in Nat /\ b.base <= y
                                  /\ y + 16 + kSizeClasses[k] <= b.base + b.size
                                  /\ \E s \in 1..slot_count(k, b.size) : y = Slot(k, b, s)
    BY <2>2
  <2>5. CASE Disjoint(a, b)
    <3>1. a.base + a.size <= b.base \/ b.base + b.size <= a.base
      BY <2>5 DEF Disjoint
    <3> QED
      BY <2>1, <2>2, <2>3, <2>4, <3>1
  <2>6. CASE i = k /\ a = b
    <3>1. PICK s \in 1..slot_count(i, a.size) : x = Slot(i, a, s)
      BY <2>3
    <3>2. PICK t \in 1..slot_count(i, a.size) : y = Slot(i, a, t)
      BY <2>4, <2>6
    <3>3. s < t \/ t < s
      <4>1. s # t
        BY <1>3, <3>1, <3>2
      <4>2. s \in Int /\ t \in Int
        OBVIOUS
      <4> QED
        BY <4>1, <4>2
    <3>4. a \in RegionsAt(i) /\ slot_total_size(i) = 16 + kSizeClasses[i]
      BY <1>1 DEF slot_total_size, HeaderSize
    <3>5. x + slot_total_size(i) <= y \/ y + slot_total_size(i) <= x
      BY <3>1, <3>2, <3>3, <3>4, SlotBytes
    <3> QED
      BY <2>1, <2>2, <2>6, <3>4, <3>5
  <2> QED
    BY <1>1, <2>5, <2>6
<1>4. ASSUME h \in Allocated(hp), g \in Allocated(hp)
      PROVE  h + 16 + hp.size[h] <= g \/ g + 16 + hp.size[g] <= h
  <2>1. h \in Block(hp) /\ g \in Block(hp) /\ HeapType(hp) /\ Tiled(A, hp)
    BY <1>1, <1>4 DEF Allocated, Good, Sound, Shape
  <2>2. /\ h \in Nat /\ hp.size[h] \in Nat /\ next_physical_header(hp, h) = h + 32 + hp.size[h]
        /\ g \in Nat /\ hp.size[g] \in Nat /\ next_physical_header(hp, g) = g + 32 + hp.size[g]
    BY <2>1, BlockEnds
  <2>3. next_physical_header(hp, h) <= g \/ next_physical_header(hp, g) <= h
    BY <2>1 DEF Tiled
  <2> QED
    BY <2>2, <2>3
<1>5. CASE h \in Allocated(hp) /\ m = hp.size[h]
  <2>1. CASE g \in Allocated(hp) /\ n = hp.size[g]
    BY <1>4, <1>5, <2>1
  <2>2. CASE \E i \in Classes : InSlot(pl, w, i, g) /\ n = kSizeClasses[i]
    BY <1>2, <1>5, <2>2
  <2> QED
    BY <2>1, <2>2 DEF Measures
<1>6. CASE \E i \in Classes : InSlot(pl, w, i, h) /\ m = kSizeClasses[i]
  <2>1. CASE g \in Allocated(hp) /\ n = hp.size[g]
    BY <1>2, <1>6, <2>1
  <2>2. CASE \E i \in Classes : InSlot(pl, w, i, g) /\ n = kSizeClasses[i]
    BY <1>3, <1>6, <2>2
  <2> QED
    BY <2>1, <2>2 DEF Measures
<1> QED
  BY <1>5, <1>6 DEF Measures

-----------------------------------------------------------------------------
(* Both paths implement HeapContract: the initial states map to the        *)
(* initial states of the contract, and every step to a step of it or to a  *)
(* step that changes nothing a client can see.                             *)

\* What the contract calls region.
Region == [c \in Clients |-> ClientRegion(c)]

\* What c holds: r bytes at ptr[c], of which it asked for req[c].
Held(c, r) ==
  /\ ClientRegion(c) = [addr |-> ptr[c], room |-> r, asked |-> req[c]]
  /\ ptr[c] = Null => r = 0
  /\ ptr[c] # Null => Measures(heap, pools, word, header_of(ptr[c]), r) /\ req[c] <= r

\* payload_size is the measure of a payload.
LEMMA HeldRegions == Inv => \A c \in Clients : \E r \in Nat : Held(c, r)
<1> SUFFICES ASSUME Inv, NEW c \in Clients PROVE \E r \in Nat : Held(c, r)
  OBVIOUS
<1>1. CASE ptr[c] = Null
  BY <1>1 DEF Held, ClientRegion
<1>2. CASE ptr[c] # Null
  <2> DEFINE h == header_of(ptr[c])
             r == payload_size(ptr[c])
  <2>1. h \in Owned /\ Memory(arenas, heap, pools, word, Owned) /\ Room(c) /\ req[c] \in Nat
    BY <1>2, Having DEF Client, Types
  <2>2. r \in Nat /\ \A n \in Nat : Serves(heap, pools, word, h, n) <=> n <= r
    BY <2>1, PayloadSizes
  <2>3. req[c] <= r
    BY <1>2, <2>1, <2>2 DEF Room
  <2>4. Measures(heap, pools, word, h, r)
    <3>1. PICK m \in Nat : Measures(heap, pools, word, h, m)
      <4>1. ASSUME NEW O, Memory(arenas, heap, pools, word, O), NEW x \in O
            PROVE  \E n \in Nat : Measures(heap, pools, word, x, n)
        BY <4>1, OneMeasure
      <4> QED
        BY <2>1, <4>1
    <3>2. \A n \in Nat : Serves(heap, pools, word, h, n) => n <= m
      <4>1. ASSUME NEW O, Memory(arenas, heap, pools, word, O), NEW x \in O,
                   Measures(heap, pools, word, x, m), NEW n, Serves(heap, pools, word, x, n)
            PROVE  n <= m
        BY <4>1, OneMeasure
      <4> QED
        BY <2>1, <3>1, <4>1
    <3> HIDE DEF h, r
    <3>3. Serves(heap, pools, word, h, m)
      BY <3>1 DEF Serves, Measures
    <3>4. r <= r /\ m <= r /\ r <= m
      BY <2>2, <3>2, <3>3
    <3> QED
      BY <2>2, <3>1, <3>4
  <2>5. ClientRegion(c) = [addr |-> ptr[c], room |-> r, asked |-> req[c]]
    BY <1>2 DEF ClientRegion
  <2> QED
    BY <1>2, <2>2, <2>3, <2>4, <2>5 DEF Held
<1> QED
  BY <1>1, <1>2

\* After a step, too.
LEMMA HeldRegionsNext == Inv' => \A c \in Clients : \E r \in Nat : Held(c, r)'
<1>1. (Inv => \A c \in Clients : \E r \in Nat : Held(c, r))'
  BY HeldRegions, PTL
<1> QED
  BY <1>1

\* The inner my_malloc of a resize leaves every payload alone, the old one too.
LEMMA MoveLeaves ==
  ASSUME Inv, NEW c \in Clients, ReallocMalloc(c)
  PROVE  LeftAlone(Owned)
<1>1. PICK q : my_malloc(want[c], q)
  BY DEF ReallocMalloc
<1>2. Memory(arenas, heap, pools, word, Owned) /\ want[c] \in Requests
  BY Having DEF Client, Call, ReallocMalloc
<1>3. ASSUME NEW O, Memory(arenas, heap, pools, word, O), NEW n \in Requests, my_malloc(n, q)
      PROVE  LeftAlone(O)
  <2>1. CASE arenas' = arenas /\ heap' = heap /\ pools' = pools /\ word' = word
    BY <2>1 DEF LeftAlone
  <2> QED
    BY <1>3, <2>1, MallocMemory
<1> QED
  BY <1>1, <1>2, <1>3

\* What a step of one client leaves alone.
LEMMA StepLeaves ==
  ASSUME Inv, NEW c \in Clients,
         \/ \E n \in Requests : \/ Malloc(c, n) \/ CallocMalloc(c, n) \/ ReallocFits(c, n)
                                \/ ReallocInPlace(c, n) \/ ReallocMiss(c, n)
         \/ CallocZero(c) \/ Free(c) \/ ReallocMalloc(c) \/ ReallocCopy(c)
         \/ ReallocFree(c) \/ Write(c)
  PROVE  /\ LeftAlone(Others(c))
         /\ \A d \in Clients \ {c} :
              pc'[d] = pc[d] /\ ptr'[d] = ptr[d] /\ req'[d] = req[d] /\ old'[d] = old[d]
<1>1. /\ Types /\ Call(c) /\ Others(c) \subseteq Owned /\ Headers(c) \cap Others(c) = {}
      /\ Memory(arenas, heap, pools, word, Owned)
      /\ ptr[c] # Null => header_of(ptr[c]) \in Owned
      /\ ptr[c] # Null => header_of(ptr[c]) \in Headers(c)
  BY Having DEF Client, Headers
<1> DEFINE Same == arenas' = arenas /\ heap' = heap /\ pools' = pools /\ word' = word
           Stay == \A d \in Clients \ {c} :
                     pc'[d] = pc[d] /\ ptr'[d] = ptr[d] /\ req'[d] = req[d] /\ old'[d] = old[d]
<1>2. Same => LeftAlone(Others(c))
  BY DEF LeftAlone
<1>3. LeftAlone(Owned) => LeftAlone(Others(c))
  BY <1>1 DEF LeftAlone
<1>4. ASSUME NEW S, LeftAlone(S), Others(c) \subseteq S PROVE LeftAlone(Others(c))
  BY <1>4 DEF LeftAlone
<1>5. ASSUME NEW n \in Requests, Malloc(c, n) PROVE LeftAlone(Others(c)) /\ Stay
  <2>1. PICK q : q # Null /\ my_malloc(n, q) /\ ptr' = [ptr EXCEPT ![c] = q]
    BY <1>5 DEF Malloc
  <2>2. LeftAlone(Owned)
    BY <2>1, Obtained
  <2> QED
    BY <1>1, <1>3, <1>5, <2>1, <2>2 DEF Malloc, callVars, Types
<1>6. ASSUME NEW n \in Requests, CallocMalloc(c, n) PROVE LeftAlone(Others(c)) /\ Stay
  <2>1. PICK q : q # Null /\ my_malloc(n, q)
    BY <1>6 DEF CallocMalloc
  <2>2. LeftAlone(Owned)
    BY <2>1, Obtained
  <2> QED
    BY <1>1, <1>3, <1>6, <2>2 DEF CallocMalloc, Types
<1>7. ASSUME NEW n \in Requests, ReallocFits(c, n) PROVE LeftAlone(Others(c)) /\ Stay
  BY <1>1, <1>2, <1>7 DEF ReallocFits, generalVars, poolVars, callVars, Types
<1>8. ASSUME NEW n \in Requests, ReallocInPlace(c, n) PROVE LeftAlone(Others(c)) /\ Stay
  <2>1. /\ ptr[c] # Null /\ ~ptr_is_pooled(ptr[c])
        /\ General!ReallocInPlace(c, n) /\ pools' = pools /\ word' = word
    BY <1>8 DEF ReallocInPlace, Holding, poolVars
  <2>2. LeftAlone(Owned \ {header_of(ptr[c])})
    <3>1. ASSUME NEW O, Memory(arenas, heap, pools, word, O), header_of(ptr[c]) \in O
          PROVE  LeftAlone(O \ {header_of(ptr[c])})
      BY <2>1, <3>1, GrowMemory
    <3> QED
      BY <1>1, <2>1, <3>1
  <2>3. Others(c) \subseteq Owned \ {header_of(ptr[c])}
    BY <1>1, <2>1
  <2>4. Stay
    BY <1>1, <2>1 DEF General!ReallocInPlace, Types
  <2> QED
    BY <1>4, <2>2, <2>3, <2>4
<1>9. ASSUME NEW n \in Requests, ReallocMiss(c, n) PROVE LeftAlone(Others(c)) /\ Stay
  BY <1>1, <1>2, <1>9 DEF ReallocMiss, generalVars, poolVars, Types
<1>10. ASSUME CallocZero(c) PROVE LeftAlone(Others(c)) /\ Stay
  BY <1>1, <1>2, <1>10 DEF CallocZero, generalVars, poolVars, Types
<1>11. ASSUME ptr[c] # Null, my_free(ptr[c]) PROVE LeftAlone(Others(c))
  <2>1. LeftAlone(Owned \ {header_of(ptr[c])})
    BY <1>11, Released
  <2>2. Others(c) \subseteq Owned \ {header_of(ptr[c])}
    BY <1>1, <1>11
  <2> QED
    BY <1>4, <2>1, <2>2
<1>12. ASSUME Free(c) PROVE LeftAlone(Others(c)) /\ Stay
  BY <1>1, <1>11, <1>12 DEF Free, Holding, callVars, Types
<1>13. ASSUME ReallocMalloc(c) PROVE LeftAlone(Others(c)) /\ Stay
  <2>1. LeftAlone(Owned)
    BY <1>13, MoveLeaves
  <2> QED
    BY <1>1, <1>3, <1>13, <2>1 DEF ReallocMalloc, Types
<1>14. ASSUME ReallocCopy(c) PROVE LeftAlone(Others(c)) /\ Stay
  BY <1>1, <1>2, <1>14 DEF ReallocCopy, generalVars, poolVars, Types
<1>15. ASSUME ReallocFree(c) PROVE LeftAlone(Others(c)) /\ Stay
  <2>1. ptr[c] # Null /\ my_free(ptr[c])
    BY <1>1, <1>15 DEF ReallocFree, Call
  <2> QED
    BY <1>1, <1>11, <1>15, <2>1 DEF ReallocFree, Types
<1>16. ASSUME Write(c) PROVE LeftAlone(Others(c)) /\ Stay
  BY <1>1, <1>2, <1>16 DEF Write, generalVars, poolVars, callVars, Types
<1> QED
  BY <1>5, <1>6, <1>7, <1>8, <1>9, <1>10, <1>12, <1>13, <1>14, <1>15, <1>16

\* A client that has nothing has asked for nothing, and a resize that moves
\* remembers how large the old payload is.
Recorded ==
  \A c \in Clients :
    /\ ptr[c] = Null => req[c] = 0
    /\ pc[c] \in {"move", "copy", "free"} =>
         Measures(heap, pools, word, header_of(ptr[c]), old[c])

\* Every step keeps that.
LEMMA RecordedKept == Inv /\ Recorded /\ [Next]_vars => Recorded'
<1> DEFINE Record(c) == /\ ptr[c] = Null => req[c] = 0
                        /\ pc[c] \in {"move", "copy", "free"} =>
                             Measures(heap, pools, word, header_of(ptr[c]), old[c])
<1> SUFFICES ASSUME Inv, Recorded, [Next]_vars PROVE \A c \in Clients : Record(c)'
  BY DEF Recorded
<1>1. /\ Types /\ \A c \in Clients : Call(c) /\ Record(c)
      /\ \A c \in Clients : ptr[c] # Null => header_of(ptr[c]) \in Headers(c)
  BY DEF Inv, Client, Recorded, Headers, Payloads
<1>2. ASSUME NEW c \in Clients, LeftAlone(Others(c)),
             \A d \in Clients \ {c} :
               pc'[d] = pc[d] /\ ptr'[d] = ptr[d] /\ req'[d] = req[d] /\ old'[d] = old[d],
             Record(c)'
      PROVE  \A d \in Clients : Record(d)'
  <2>1. ASSUME NEW d \in Clients \ {c} PROVE Record(d)'
    <3>1. ASSUME pc[d] \in {"move", "copy", "free"}
          PROVE  Measures(heap', pools', word', header_of(ptr[d]), old[d])
      <4>1. ptr[d] # Null /\ Measures(heap, pools, word, header_of(ptr[d]), old[d])
        BY <1>1, <3>1 DEF Call
      <4>2. header_of(ptr[d]) \in Others(c)
        BY <1>1, <4>1 DEF Others
      <4> QED
        BY <1>2, <4>1, <4>2 DEF LeftAlone
    <3> QED
      BY <1>1, <1>2, <3>1
  <2> QED
    BY <1>2, <2>1
<1>3. ASSUME NEW c \in Clients, pc'[c] \notin {"move", "copy", "free"},
             ptr'[c] = Null => req'[c] = 0
      PROVE  Record(c)'
  BY <1>3
<1>4. ASSUME NEW c \in Clients, NEW n \in Requests, Malloc(c, n) PROVE Record(c)'
  <2>1. PICK q : q # Null /\ ptr' = [ptr EXCEPT ![c] = q]
    BY <1>4 DEF Malloc
  <2> QED
    BY <1>1, <1>3, <1>4, <2>1 DEF Malloc, Idle, callVars, Types
<1>5. ASSUME NEW c \in Clients, NEW n \in Requests, CallocMalloc(c, n) PROVE Record(c)'
  BY <1>1, <1>3, <1>5 DEF CallocMalloc, Types
<1>6. ASSUME NEW c \in Clients, NEW n \in Requests, ReallocFits(c, n) PROVE Record(c)'
  BY <1>1, <1>3, <1>6 DEF ReallocFits, Holding, Idle, callVars, Types
<1>7. ASSUME NEW c \in Clients, NEW n \in Requests, ReallocInPlace(c, n) PROVE Record(c)'
  BY <1>1, <1>3, <1>7 DEF ReallocInPlace, Holding, Idle, General!ReallocInPlace, Types
<1>8. ASSUME NEW c \in Clients, NEW n \in Requests, ReallocMiss(c, n) PROVE Record(c)'
  <2>1. /\ ptr[c] # Null /\ ptr' = ptr /\ req' = req
        /\ old' = [old EXCEPT ![c] = payload_size(ptr[c])]
        /\ heap' = heap /\ pools' = pools /\ word' = word
    BY <1>8 DEF ReallocMiss, Holding, generalVars, poolVars
  <2>2. PICK r \in Nat : Held(c, r)
    BY HeldRegions
  <2>3. r = payload_size(ptr[c]) /\ Measures(heap, pools, word, header_of(ptr[c]), r)
    BY <2>1, <2>2 DEF Held, ClientRegion
  <2>4. old'[c] = r
    BY <1>1, <2>1, <2>3 DEF Types
  <2> QED
    BY <2>1, <2>3, <2>4
<1>9. ASSUME NEW c \in Clients, CallocZero(c) PROVE Record(c)'
  BY <1>1, <1>3, <1>9 DEF CallocZero, Call, Types
<1>10. ASSUME NEW c \in Clients, Free(c) PROVE Record(c)'
  BY <1>1, <1>3, <1>10 DEF Free, Holding, Idle, callVars, Types
<1>11. ASSUME NEW c \in Clients, ReallocMalloc(c) PROVE Record(c)'
  <2>1. pc[c] = "move" /\ ptr' = ptr /\ req' = req
    BY <1>11 DEF ReallocMalloc
  <2>2. \/ pc'[c] = "idle"
        \/ old' = old
    BY <1>1, <1>11 DEF ReallocMalloc, Types
  <2>3. /\ ptr[c] # Null /\ Measures(heap, pools, word, header_of(ptr[c]), old[c])
        /\ header_of(ptr[c]) \in Owned
    BY <1>1, <2>1 DEF Call, Owned
  <2>4. LeftAlone(Owned)
    BY <1>11, MoveLeaves
  <2>5. Measures(heap', pools', word', header_of(ptr[c]), old[c])
    BY <2>3, <2>4 DEF LeftAlone
  <2> QED
    BY <2>1, <2>2, <2>3, <2>5
<1>12. ASSUME NEW c \in Clients, ReallocCopy(c) PROVE Record(c)'
  BY <1>1, <1>12 DEF ReallocCopy, generalVars, poolVars, Types
<1>13. ASSUME NEW c \in Clients, ReallocFree(c) PROVE Record(c)'
  BY <1>1, <1>3, <1>13 DEF ReallocFree, Call, Types
<1>14. ASSUME NEW c \in Clients, Write(c) PROVE Record(c)'
  BY <1>1, <1>3, <1>14 DEF Write, Holding, Idle, callVars, Types
<1>15. ASSUME NEW c \in Clients, NEW n \in Requests,
              \/ Malloc(c, n) \/ CallocMalloc(c, n) \/ ReallocFits(c, n)
              \/ ReallocInPlace(c, n) \/ ReallocMiss(c, n)
       PROVE  \A d \in Clients : Record(d)'
  <2>1. Record(c)'
    BY <1>4, <1>5, <1>6, <1>7, <1>8, <1>15
  <2>2. /\ LeftAlone(Others(c))
        /\ \A d \in Clients \ {c} :
             pc'[d] = pc[d] /\ ptr'[d] = ptr[d] /\ req'[d] = req[d] /\ old'[d] = old[d]
    BY <1>15, StepLeaves
  <2> QED
    BY <1>2, <2>1, <2>2
<1>16. ASSUME NEW c \in Clients,
              \/ CallocZero(c) \/ Free(c) \/ ReallocMalloc(c) \/ ReallocCopy(c)
              \/ ReallocFree(c) \/ Write(c)
       PROVE  \A d \in Clients : Record(d)'
  <2>1. Record(c)'
    BY <1>9, <1>10, <1>11, <1>12, <1>13, <1>14, <1>16
  <2>2. /\ LeftAlone(Others(c))
        /\ \A d \in Clients \ {c} :
             pc'[d] = pc[d] /\ ptr'[d] = ptr[d] /\ req'[d] = req[d] /\ old'[d] = old[d]
    BY <1>16, StepLeaves
  <2> QED
    BY <1>2, <2>1, <2>2
<1>17. CASE Shutdown
  BY <1>17 DEF Shutdown, Idle, callVars
<1>18. CASE UNCHANGED vars
  BY <1>1, <1>18 DEF vars, generalVars, poolVars, callVars
<1> QED
  BY <1>15, <1>16, <1>17, <1>18 DEF Next

\* What a client without a part in a step has is to the contract what it was.
LEMMA SameRegion ==
  ASSUME Inv, Inv', NEW d \in Clients, ptr'[d] = ptr[d], LeftAlone(Headers(d))
  PROVE  /\ ClientRegion(d)'.room = ClientRegion(d).room
         /\ req'[d] = req[d] => ClientRegion(d)' = ClientRegion(d)
<1>1. PICK r \in Nat : Held(d, r)
  BY HeldRegions
<1>2. PICK s \in Nat : Held(d, s)'
  BY HeldRegionsNext
<1>3. r = s
  <2>1. CASE ptr[d] = Null
    BY <1>1, <1>2, <2>1 DEF Held
  <2>2. CASE ptr[d] # Null
    <3> DEFINE h == header_of(ptr[d])
    <3>1. h \in Headers(d) /\ h \in Owned'
      <4>1. h \in Headers(d)
        BY <2>2 DEF Headers, Payloads
      <4>2. ptr'[d] \in Payloads(d)'
        BY <2>2 DEF Payloads
      <4>3. h \in Headers(d)'
        BY <4>2 DEF Headers
      <4> QED
        BY <4>1, <4>3 DEF Owned
    <3>2. Measures(heap, pools, word, h, r)
      BY <1>1, <2>2 DEF Held
    <3>3. Measures(heap', pools', word', h, s)
      BY <1>2, <2>2 DEF Held
    <3> HIDE DEF h
    <3>4. Measures(heap', pools', word', h, r)
      BY <3>1, <3>2 DEF LeftAlone
    <3>5. Memory(arenas', heap', pools', word', Owned')
      BY DEF Inv
    <3> QED
      BY <3>1, <3>3, <3>4, <3>5, OneMeasure
  <2> QED
    BY <2>1, <2>2
<1>4. /\ ClientRegion(d) = [addr |-> ptr[d], room |-> r, asked |-> req[d]]
      /\ ClientRegion(d)' = [addr |-> ptr'[d], room |-> s, asked |-> req'[d]]
  BY <1>1, <1>2 DEF Held
<1> QED
  BY <1>3, <1>4

\* A client holds a region exactly when it has a pointer.
LEMMA HoldsPointer ==
  ASSUME Inv, Recorded, NEW c \in Clients
  PROVE  /\ Contract!Holds(c) <=> ptr[c] # Null
         /\ Contract!Holds(c) <=> Region[c] # Contract!NoRegion
         /\ ptr[c] = Null => Region[c] = Contract!NoRegion
<1>1. PICK r \in Nat : Held(c, r)
  BY HeldRegions
<1>2. ClientRegion(c) = [addr |-> ptr[c], room |-> r, asked |-> req[c]]
  BY <1>1 DEF Held
<1>3. ptr[c] = Null => ClientRegion(c) = Contract!NoRegion
  BY <1>1, <1>2 DEF Held, Recorded, Contract!NoRegion, Null
<1>4. ptr[c] # Null => ClientRegion(c) # Contract!NoRegion
  <2>1. ClientRegion(c).addr = ptr[c] /\ Contract!NoRegion.addr = 0
    BY <1>2 DEF Contract!NoRegion
  <2> QED
    BY <2>1 DEF Null
<1>5. Contract!Holds(c) <=> Region[c] # Contract!NoRegion
  BY DEF Contract!Holds, Region
<1> QED
  BY <1>3, <1>4, <1>5 DEF Region

\* The payload c has after a step is aligned, as large as c asked for, and
\* apart from what the others have.
LEMMA UsableNext ==
  ASSUME Inv, Recorded, Inv', NEW c \in Clients, ptr'[c] # Null,
         \A d \in Clients \ {c} : ptr'[d] = ptr[d] /\ ClientRegion(d)' = ClientRegion(d)
  PROVE  Contract!Usable(Region'[c], c)
<1>1. PICK r \in Nat : Held(c, r)'
  BY HeldRegionsNext
<1>2. /\ Region'[c] = [addr |-> ptr'[c], room |-> r, asked |-> req'[c]]
      /\ Measures(heap', pools', word', header_of(ptr'[c]), r) /\ req'[c] <= r
  BY <1>1 DEF Held, Region
<1>3. /\ Memory(arenas', heap', pools', word', Owned') /\ ptr'[c] \in Nat
      /\ \A d, e \in Clients : d # e => Headers(d)' \cap Headers(e)' = {}
  BY DEF Inv, Types
<1>4. \A d \in Clients : ptr'[d] # Null =>
        header_of(ptr'[d]) \in Headers(d)' /\ header_of(ptr'[d]) \in Owned'
  <2>1. ASSUME NEW d \in Clients, ptr'[d] # Null PROVE header_of(ptr'[d]) \in Headers(d)'
    <3>1. ptr'[d] \in Payloads(d)'
      BY <2>1 DEF Payloads
    <3> QED
      BY <3>1 DEF Headers
  <2> QED
    BY <2>1 DEF Owned
<1> DEFINE h == header_of(ptr'[c])
<1>5. h \in Owned' /\ h = ptr'[c] - 16
  BY <1>4 DEF header_of, HeaderSize
<1>6. h \in Nat /\ IsAligned(h)
  <2> HIDE DEF h
  <2> QED
    BY <1>3, <1>5, OneMeasure
<1>7. ptr'[c] > 0 /\ ptr'[c] % Alignment = 0
  BY <1>3, <1>5, <1>6 DEF IsAligned, Alignment, Null
<1>8. ASSUME NEW d \in Clients \ {c}, Contract!Holds(d)
      PROVE  Contract!Apart(Region'[c], Region[d])
  <2>1. ptr[d] # Null /\ ptr'[d] = ptr[d]
    BY <1>8, HoldsPointer
  <2>2. PICK s \in Nat : Held(d, s)'
    BY HeldRegionsNext
  <2>3. /\ Region[d] = [addr |-> ptr'[d], room |-> s, asked |-> req'[d]]
        /\ Measures(heap', pools', word', header_of(ptr'[d]), s)
    BY <2>1, <2>2 DEF Held, Region
  <2> DEFINE g == header_of(ptr'[d])
  <2>4. g \in Owned' /\ g # h /\ g = ptr'[d] - 16 /\ ptr'[d] \in Nat
    <3>1. g \in Headers(d)' /\ h \in Headers(c)' /\ g \in Owned'
      BY <1>4, <2>1
    <3>2. g # h
      BY <1>3, <3>1
    <3>3. ptr'[d] \in Nat
      BY DEF Inv, Types
    <3> QED
      BY <3>1, <3>2, <3>3 DEF header_of, HeaderSize
  <2>5. Measures(heap', pools', word', h, r) /\ Measures(heap', pools', word', g, s)
    BY <1>2, <2>3
  <2>6. h + 16 + r <= g \/ g + 16 + s <= h
    <3> HIDE DEF g, h
    <3> QED
      BY <1>3, <1>5, <2>4, <2>5, PayloadsApart
  <2> HIDE DEF g, h
  <2>7. ptr'[c] + r <= ptr'[d] \/ ptr'[d] + s <= ptr'[c]
    BY <1>3, <1>5, <1>6, <2>4, <2>6
  <2> QED
    BY <1>2, <2>3, <2>7 DEF Contract!Apart
<1>9. \A d \in Clients \ {c} :
        Contract!Holds(d) => Contract!Apart(Region'[c], [e \in Clients |-> ClientRegion(e)][d])
  BY <1>8 DEF Region
<1> QED
  BY <1>2, <1>7, <1>9 DEF Contract!Usable

\* The others, in a step of c.
LEMMA OthersSame ==
  ASSUME Inv, Inv', NEW c \in Clients, LeftAlone(Others(c)),
         \A d \in Clients \ {c} : ptr'[d] = ptr[d] /\ req'[d] = req[d]
  PROVE  /\ \A d \in Clients \ {c} : ptr'[d] = ptr[d] /\ ClientRegion(d)' = ClientRegion(d)
         /\ Region' = [Region EXCEPT ![c] = Region'[c]]
         /\ ClientRegion(c)' = ClientRegion(c) => Region' = Region
<1>1. ASSUME NEW d \in Clients \ {c} PROVE ClientRegion(d)' = ClientRegion(d)
  <2>1. Headers(d) \subseteq Others(c)
    BY DEF Others
  <2>2. LeftAlone(Headers(d))
    BY <2>1 DEF LeftAlone
  <2> QED
    BY <2>2, SameRegion
<1>2. Region' = [d \in Clients |-> ClientRegion(d)']
  BY DEF Region
<1> QED
  BY <1>1, <1>2 DEF Region

\* A payload that was handed to a client that had none.
LEMMA AcquireMaps ==
  ASSUME Inv, Recorded, Inv', NEW c \in Clients, ptr[c] = Null, ptr'[c] # Null,
         LeftAlone(Others(c)),
         \A d \in Clients \ {c} : ptr'[d] = ptr[d] /\ req'[d] = req[d]
  PROVE  Contract!Acquire(c)
<1>1. Region' = [Region EXCEPT ![c] = Region'[c]]
  BY OthersSame
<1>2. Contract!Usable(Region'[c], c)
  <2>1. \A d \in Clients \ {c} : ptr'[d] = ptr[d] /\ ClientRegion(d)' = ClientRegion(d)
    BY OthersSame
  <2> QED
    BY <2>1, UsableNext
<1>3. ~Contract!Holds(c)
  BY HoldsPointer
<1> QED
  BY <1>1, <1>2, <1>3 DEF Contract!Acquire, Region

\* A resize that keeps the pointer and takes no room away.
LEMMA InPlaceMaps ==
  ASSUME Inv, Recorded, Inv', NEW c \in Clients, ptr[c] # Null, ptr'[c] = ptr[c],
         ClientRegion(c)'.room >= ClientRegion(c).room,
         LeftAlone(Others(c)),
         \A d \in Clients \ {c} : ptr'[d] = ptr[d] /\ req'[d] = req[d]
  PROVE  Contract!ResizeInPlace(c)
<1>1. Region' = [Region EXCEPT ![c] = Region'[c]]
  BY OthersSame
<1>2. Contract!Usable(Region'[c], c)
  <2>1. \A d \in Clients \ {c} : ptr'[d] = ptr[d] /\ ClientRegion(d)' = ClientRegion(d)
    BY OthersSame
  <2> QED
    BY <2>1, UsableNext
<1>3. Contract!Holds(c)
  BY HoldsPointer
<1>4. Region'[c].addr = Region[c].addr /\ Region'[c].room >= Region[c].room
  BY DEF Region, ClientRegion
<1> QED
  BY <1>1, <1>2, <1>3, <1>4 DEF Contract!ResizeInPlace, Region

\* my_realloc that grows a block in place.
LEMMA GrowMaps ==
  ASSUME Inv, Recorded, Inv', NEW c \in Clients, NEW n \in Requests, ReallocInPlace(c, n)
  PROVE  Contract!ResizeInPlace(c)
<1>1. /\ ptr[c] # Null /\ ~ptr_is_pooled(ptr[c])
      /\ General!ReallocInPlace(c, n) /\ pools' = pools /\ word' = word /\ ptr' = ptr
  BY DEF ReallocInPlace, Holding, poolVars, General!ReallocInPlace
<1>2. /\ LeftAlone(Others(c))
      /\ \A d \in Clients \ {c} : ptr'[d] = ptr[d] /\ req'[d] = req[d]
  BY StepLeaves
<1> DEFINE h == header_of(ptr[c])
<1>3. /\ h \in Owned /\ Memory(arenas, heap, pools, word, Owned)
  BY <1>1, Having
<1>4. Spared(Owned)
  <2>1. ASSUME NEW O, Memory(arenas, heap, pools, word, O), h \in O PROVE Spared(O)
    BY <1>1, <2>1, GrowMemory
  <2> QED
    BY <1>3, <2>1
<1>5. PICK r \in Nat : Held(c, r)
  BY HeldRegions
<1>6. PICK s \in Nat : Held(c, s)'
  BY HeldRegionsNext
<1>7. /\ Measures(heap, pools, word, h, r) /\ Measures(heap', pools', word', h, s)
      /\ ClientRegion(c).room = r /\ ClientRegion(c)'.room = s
  BY <1>1, <1>5, <1>6 DEF Held
<1>8. h \in Owned' /\ Memory(arenas', heap', pools', word', Owned')
  <2>1. ptr'[c] \in Payloads(c)'
    BY <1>1 DEF Payloads
  <2>2. h \in Headers(c)'
    BY <1>1, <2>1 DEF Headers
  <2> QED
    BY <2>2 DEF Owned, Inv
<1> HIDE DEF h
<1>9. Serves(heap, pools, word, h, r)
  <2>1. \A i \in Classes : kSizeClasses[i] <= kSizeClasses[i]
    BY TheClasses
  <2> QED
    BY <1>5, <1>7, <2>1 DEF Serves, Measures
<1>10. Serves(heap', pools', word', h, r)
  BY <1>3, <1>4, <1>9 DEF Spared
<1>11. r <= s
  BY <1>7, <1>8, <1>10, OneMeasure
<1>12. ClientRegion(c)'.room >= ClientRegion(c).room
  BY <1>5, <1>6, <1>7, <1>11
<1> QED
  BY <1>1, <1>2, <1>12, InPlaceMaps

\* my_realloc that leaves the payload as large as it is.
LEMMA FitsMaps ==
  ASSUME Inv, Recorded, Inv', NEW c \in Clients, NEW n \in Requests, ReallocFits(c, n)
  PROVE  Contract!ResizeInPlace(c)
<1>1. /\ ptr[c] # Null /\ ptr' = ptr
      /\ arenas' = arenas /\ heap' = heap /\ pools' = pools /\ word' = word
  BY DEF ReallocFits, Holding, generalVars, poolVars
<1>2. /\ LeftAlone(Others(c))
      /\ \A d \in Clients \ {c} : ptr'[d] = ptr[d] /\ req'[d] = req[d]
  BY StepLeaves
<1>3. LeftAlone(Headers(c))
  BY <1>1 DEF LeftAlone
<1>4. ClientRegion(c)'.room = ClientRegion(c).room
  BY <1>1, <1>3, SameRegion
<1>5. PICK r \in Nat : Held(c, r)
  BY HeldRegions
<1>6. ClientRegion(c)'.room >= ClientRegion(c).room
  BY <1>4, <1>5 DEF Held
<1> QED
  BY <1>1, <1>2, <1>6, InPlaceMaps

\* The last step of a my_realloc that moves.
LEMMA MoveMaps ==
  ASSUME Inv, Recorded, Inv', NEW c \in Clients, ReallocFree(c)
  PROVE  Contract!Move(c)
<1>1. /\ pc[c] = "free" /\ my_free(ptr[c])
      /\ ptr' = [ptr EXCEPT ![c] = new[c]] /\ req' = [req EXCEPT ![c] = want[c]]
  BY DEF ReallocFree
<1>2. /\ Types /\ ptr[c] # Null /\ new[c] # Null /\ new[c] # ptr[c] /\ old[c] < want[c]
      /\ header_of(ptr[c]) \in Owned /\ header_of(new[c]) \in Owned
      /\ ptr[c] \in Nat /\ new[c] \in Nat
      /\ Memory(arenas, heap, pools, word, Owned)
      /\ Measures(heap, pools, word, header_of(ptr[c]), old[c])
  BY <1>1, Having DEF Client, Call, Recorded
<1>3. ptr'[c] = new[c] /\ req'[c] = want[c]
  BY <1>1, <1>2 DEF Types
<1>4. /\ LeftAlone(Others(c))
      /\ \A d \in Clients \ {c} : ptr'[d] = ptr[d] /\ req'[d] = req[d]
  BY StepLeaves
<1>5. PICK r \in Nat : Held(c, r)
  BY HeldRegions
<1>6. PICK s \in Nat : Held(c, s)'
  BY HeldRegionsNext
<1> DEFINE h == header_of(ptr[c])
           g == header_of(new[c])
<1>7. h \in Owned /\ g \in Owned /\ h # g /\ h = ptr[c] - 16 /\ g = new[c] - 16
  BY <1>2 DEF header_of, HeaderSize
<1>8. /\ Measures(heap, pools, word, h, r) /\ Measures(heap, pools, word, h, old[c])
      /\ Measures(heap', pools', word', g, s)
      /\ Region[c] = [addr |-> ptr[c], room |-> r, asked |-> req[c]]
      /\ Region'[c] = [addr |-> new[c], room |-> s, asked |-> want[c]]
  BY <1>2, <1>3, <1>5, <1>6 DEF Held, Region
<1>9. LeftAlone(Owned \ {h})
  BY <1>1, <1>2, Released
<1>10. g \in Owned' /\ Memory(arenas', heap', pools', word', Owned')
  <2>1. ptr'[c] \in Payloads(c)'
    BY <1>2, <1>3 DEF Payloads
  <2>2. g \in Headers(c)'
    BY <1>3, <2>1 DEF Headers
  <2> QED
    BY <2>2 DEF Owned, Inv
<1> HIDE DEF h, g
<1>11. r = old[c]
  <2>1. ASSUME NEW O, Memory(arenas, heap, pools, word, O), NEW x \in O, NEW m, NEW n,
               Measures(heap, pools, word, x, m), Measures(heap, pools, word, x, n)
        PROVE  m = n
    BY <2>1, OneMeasure
  <2> QED
    BY <1>2, <1>7, <1>8, <2>1
<1>12. Measures(heap, pools, word, g, s)
  <2>1. ASSUME NEW O, Memory(arenas, heap, pools, word, O), NEW x \in O
        PROVE  \E m \in Nat : Measures(heap, pools, word, x, m)
    BY <2>1, OneMeasure
  <2>2. PICK m \in Nat : Measures(heap, pools, word, g, m)
    BY <1>2, <1>7, <2>1
  <2>3. Measures(heap', pools', word', g, m)
    BY <1>7, <1>9, <2>2 DEF LeftAlone
  <2>4. m = s
    BY <1>8, <1>10, <2>3, OneMeasure
  <2> QED
    BY <2>2, <2>4
<1>13. h + 16 + r <= g \/ g + 16 + s <= h
  <2>1. ASSUME NEW O, Memory(arenas, heap, pools, word, O), NEW x \in O, NEW y \in O, x # y,
               Measures(heap, pools, word, x, r), Measures(heap, pools, word, y, s)
        PROVE  x + 16 + r <= y \/ y + 16 + s <= x
    BY <2>1, PayloadsApart
  <2> QED
    BY <1>2, <1>7, <1>8, <1>12, <2>1
<1>14. Contract!Apart(Region'[c], Region[c])
  <2>1. ptr[c] + r <= new[c] \/ new[c] + s <= ptr[c]
    BY <1>2, <1>5, <1>6, <1>7, <1>13
  <2> QED
    BY <1>8, <2>1 DEF Contract!Apart
<1>15. Region'[c].asked > Region[c].room
  BY <1>2, <1>8, <1>11 DEF Types
<1>16. Contract!Usable(Region'[c], c) /\ Region' = [Region EXCEPT ![c] = Region'[c]]
  <2>1. \A d \in Clients \ {c} : ptr'[d] = ptr[d] /\ ClientRegion(d)' = ClientRegion(d)
    BY <1>4, OthersSame
  <2>2. Region' = [Region EXCEPT ![c] = Region'[c]]
    BY <1>4, OthersSame
  <2> QED
    BY <1>2, <1>3, <2>1, <2>2, UsableNext
<1>17. Contract!Holds(c)
  BY <1>2, HoldsPointer
<1> QED
  BY <1>14, <1>15, <1>16, <1>17 DEF Contract!Move, Region

\* my_free.
LEMMA ReleaseMaps ==
  ASSUME Inv, Recorded, Inv', Recorded', NEW c \in Clients, Free(c)
  PROVE  Contract!Release(c)
<1>1. ptr[c] # Null /\ ptr'[c] = Null
  BY DEF Free, Holding, Inv, Types
<1>2. /\ LeftAlone(Others(c))
      /\ \A d \in Clients \ {c} : ptr'[d] = ptr[d] /\ req'[d] = req[d]
  BY StepLeaves
<1>3. Region' = [Region EXCEPT ![c] = Region'[c]]
  BY <1>2, OthersSame
<1>4. Region'[c] = Contract!NoRegion
  <2>1. PICK s \in Nat : Held(c, s)'
    BY HeldRegionsNext
  <2> QED
    BY <1>1, <2>1 DEF Held, Region, Recorded, Contract!NoRegion, Null
<1>5. Contract!Holds(c)
  BY <1>1, HoldsPointer
<1> QED
  BY <1>3, <1>4, <1>5 DEF Contract!Release, Region

\* What a call does before it returns, and what a client does with its own
\* payload.
LEMMA HiddenSteps ==
  ASSUME Inv, Recorded, Inv', NEW c \in Clients,
         \/ \E n \in Requests : CallocMalloc(c, n) \/ ReallocMiss(c, n)
         \/ ReallocMalloc(c) \/ ReallocCopy(c) \/ Write(c)
  PROVE  Region' = Region
<1>1. /\ LeftAlone(Others(c))
      /\ \A d \in Clients \ {c} : ptr'[d] = ptr[d] /\ req'[d] = req[d]
  BY StepLeaves
<1>2. ptr' = ptr /\ req' = req
  BY DEF CallocMalloc, ReallocMiss, ReallocMalloc, ReallocCopy, Write, callVars
<1>3. LeftAlone(Headers(c))
  <2>1. CASE \E n \in Requests : CallocMalloc(c, n)
    <3>1. PICK n \in Requests : CallocMalloc(c, n)
      BY <2>1
    <3>2. PICK q : q # Null /\ my_malloc(n, q)
      BY <3>1 DEF CallocMalloc
    <3>3. LeftAlone(Owned)
      BY <3>2, Obtained
    <3> QED
      BY <3>3 DEF LeftAlone, Owned
  <2>2. CASE ReallocMalloc(c)
    <3>1. LeftAlone(Owned)
      BY <2>2, MoveLeaves
    <3> QED
      BY <3>1 DEF LeftAlone, Owned
  <2>3. CASE (\E n \in Requests : ReallocMiss(c, n)) \/ ReallocCopy(c) \/ Write(c)
    <3>1. heap' = heap /\ pools' = pools /\ word' = word
      BY <2>3 DEF ReallocMiss, ReallocCopy, Write, generalVars, poolVars
    <3> QED
      BY <3>1 DEF LeftAlone
  <2> QED
    BY <2>1, <2>2, <2>3
<1>4. ClientRegion(c)' = ClientRegion(c)
  BY <1>2, <1>3, SameRegion
<1> QED
  BY <1>1, <1>4, OthersSame

\* allocator_shutdown.
LEMMA ShutdownMaps ==
  ASSUME Shutdown
  PROVE  Contract!Shutdown
<1>1. ptr' = [c \in Clients |-> Null] /\ req' = [c \in Clients |-> 0]
  BY DEF Shutdown
<1>2. \A c \in Clients : ClientRegion(c)' = Contract!NoRegion
  BY <1>1 DEF ClientRegion, Contract!NoRegion, Null
<1> QED
  BY <1>2 DEF Contract!Shutdown

\* Every step of the allocator is a step of the contract, or none.
LEMMA StepMaps ==
  ASSUME Inv, Recorded, Inv', Recorded', Next
  PROVE  Contract!Next \/ Region' = Region
<1>1. ASSUME NEW c \in Clients, NEW n \in Requests, Malloc(c, n) PROVE Contract!Next
  <2>1. ptr[c] = Null /\ ptr'[c] # Null
    BY <1>1 DEF Malloc, Inv, Types
  <2>2. /\ LeftAlone(Others(c))
        /\ \A d \in Clients \ {c} : ptr'[d] = ptr[d] /\ req'[d] = req[d]
    BY <1>1, StepLeaves
  <2> QED
    BY <2>1, <2>2, AcquireMaps DEF Contract!Next
<1>2. ASSUME NEW c \in Clients, CallocZero(c) PROVE Contract!Next
  <2>1. ptr[c] = Null /\ new[c] # Null /\ Types
    BY <1>2, Having DEF CallocZero, Client, Call
  <2>2. ptr'[c] # Null
    BY <1>2, <2>1 DEF CallocZero, Types
  <2>3. /\ LeftAlone(Others(c))
        /\ \A d \in Clients \ {c} : ptr'[d] = ptr[d] /\ req'[d] = req[d]
    BY <1>2, StepLeaves
  <2> QED
    BY <2>1, <2>2, <2>3, AcquireMaps DEF Contract!Next
<1>3. ASSUME NEW c \in Clients, NEW n \in Requests, ReallocFits(c, n) \/ ReallocInPlace(c, n)
      PROVE  Contract!Next
  BY <1>3, FitsMaps, GrowMaps DEF Contract!Next
<1>4. ASSUME NEW c \in Clients, ReallocFree(c) PROVE Contract!Next
  BY <1>4, MoveMaps DEF Contract!Next
<1>5. ASSUME NEW c \in Clients, Free(c) PROVE Contract!Next
  BY <1>5, ReleaseMaps DEF Contract!Next
<1>6. ASSUME NEW c \in Clients,
             \/ \E n \in Requests : CallocMalloc(c, n) \/ ReallocMiss(c, n)
             \/ ReallocMalloc(c) \/ ReallocCopy(c) \/ Write(c)
      PROVE  Region' = Region
  BY <1>6, HiddenSteps
<1>7. CASE Shutdown
  BY <1>7, ShutdownMaps DEF Contract!Next
<1> QED
  BY <1>1, <1>2, <1>3, <1>4, <1>5, <1>6, <1>7 DEF Next

\* Both paths together keep the promise of allocator.hpp: regions of slots and
\* of blocks are aligned, as large as asked for and disjoint, and a resize
\* moves only to grow, to a region apart from the old one.
THEOREM ContractIsKept == Spec => ImplementsContract
<1>1. Init => Contract!Init
  <2> SUFFICES ASSUME Init PROVE Contract!Init
    OBVIOUS
  <2>1. \A c \in Clients : ptr[c] = Null /\ req[c] = 0
    BY SameAddresses DEF Init, General!Init
  <2>2. \A c \in Clients : ClientRegion(c) = Contract!NoRegion
    BY <2>1 DEF ClientRegion, Contract!NoRegion, Null
  <2> QED
    BY <2>2 DEF Contract!Init
<1>2. Init => Recorded
  <2> SUFFICES ASSUME Init PROVE Recorded
    OBVIOUS
  <2>1. \A c \in Clients : pc[c] = "idle" /\ req[c] = 0
    BY DEF Init, General!Init
  <2> QED
    BY <2>1 DEF Recorded
<1>3. Spec => []Recorded
  BY <1>2, RecordedKept, Invariance, PTL DEF Spec
<1>4. Inv /\ Recorded /\ Inv' /\ Recorded' /\ [Next]_vars
        => [Contract!Next]_([c \in Clients |-> ClientRegion(c)])
  <2> SUFFICES ASSUME Inv, Recorded, Inv', Recorded', [Next]_vars
               PROVE  Contract!Next \/ Region' = Region
    BY DEF Region
  <2>1. CASE Next
    BY <2>1, StepMaps
  <2>2. CASE UNCHANGED vars
    <3>1. /\ ptr' = ptr /\ req' = req /\ heap' = heap /\ pools' = pools /\ word' = word
      BY <2>2 DEF vars, generalVars, poolVars
    <3>2. \A c \in Clients : LeftAlone(Headers(c))
      BY <3>1 DEF LeftAlone
    <3>3. \A c \in Clients : ClientRegion(c)' = ClientRegion(c)
      BY <3>1, <3>2, SameRegion
    <3> QED
      BY <3>3 DEF Region
  <2> QED
    BY <2>1, <2>2
<1> QED
  BY <1>1, <1>3, <1>4, Invariance, PTL DEF Spec, ImplementsContract, Contract!Spec
=============================================================================
