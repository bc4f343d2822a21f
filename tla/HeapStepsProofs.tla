--------------------------- MODULE HeapStepsProofs ---------------------------
(***************************************************************************)
(* What each critical section does to a heap in good order: carving a new  *)
(* block, reusing a free one, releasing one and growing one in place all   *)
(* leave it in good order, and disturb no other allocated block.           *)
(***************************************************************************)
EXTENDS BlocksProofs

-----------------------------------------------------------------------------
(* Neighbours, without the search for the arena.                           *)

\* b and d are blocks of one arena and d begins where b ends.
Pair(A, hp, b, d) ==
  /\ b \in Block(hp) /\ d \in Block(hp)
  /\ next_physical_header(hp, b) = d
  /\ \E i \in DOMAIN A : Within(A, hp, i, b) /\ Within(A, hp, i, d)

\* Two free blocks that should have been merged.
FreePair(A, hp, b, d) == Pair(A, hp, b, d) /\ b \in hp.free /\ d \in hp.free

\* next_physical_header() only ever goes up.
LEMMA PairsAscend ==
  ASSUME NEW A, NEW hp, HeapType(hp), NEW b, NEW d, Pair(A, hp, b, d)
  PROVE  b \in Nat /\ d \in Nat /\ b < d
<1>1. /\ b \in Nat /\ hp.size[b] \in Nat
      /\ next_physical_header(hp, b) = b + 32 + hp.size[b]
  BY BlockEnds DEF Pair
<1> QED
  BY <1>1 DEF Pair

\* right_neighbor_if_free finds a block exactly when there is a pair with it.
LEMMA RightFree ==
  ASSUME NEW A, NEW hp, Shape(A, hp), NEW b \in Block(hp)
  PROVE  RightIsFree(A, hp, b) <=> /\ Pair(A, hp, b, next_physical_header(hp, b))
                                   /\ next_physical_header(hp, b) \in hp.free
<1> DEFINE r == next_physical_header(hp, b)
<1>1. PICK i \in DOMAIN A : Within(A, hp, i, b)
  BY DEF Shape, Tiled
<1>2. /\ HasRightNeighbor(A, hp, b) <=> r # CarvedEnd(A[i])
      /\ HasRightNeighbor(A, hp, b) => r \in Block(hp) /\ Within(A, hp, i, r)
  BY <1>1, RightNeighbor
<1>3. ASSUME Pair(A, hp, b, r) PROVE HasRightNeighbor(A, hp, b)
  <2>1. PICK j \in DOMAIN A : Within(A, hp, j, b) /\ Within(A, hp, j, r)
    BY <1>3 DEF Pair
  <2>2. HasRightNeighbor(A, hp, b) <=> r # CarvedEnd(A[j])
    BY <2>1, RightNeighbor
  <2>3. r \in Nat /\ next_physical_header(hp, r) \in Nat /\ r < next_physical_header(hp, r)
    <3>1. /\ r \in Nat /\ hp.size[r] \in Nat
          /\ next_physical_header(hp, r) = r + 32 + hp.size[r]
      BY <1>3, BlockEnds DEF Pair, Shape
    <3> QED
      BY <3>1
  <2>4. next_physical_header(hp, r) <= CarvedEnd(A[j]) /\ CarvedEnd(A[j]) \in Nat
    BY <2>1, ArenaEnds DEF Within, Shape
  <2> QED
    BY <2>2, <2>3, <2>4
<1> QED
  BY <1>1, <1>2, <1>3 DEF RightIsFree, Pair

\* No two blocks end at the same place.
LEMMA OneEnd ==
  ASSUME NEW A, NEW hp, Shape(A, hp), NEW b \in Block(hp), NEW d \in Block(hp),
         next_physical_header(hp, b) = next_physical_header(hp, d)
  PROVE  b = d
<1> DEFINE E(x) == next_physical_header(hp, x)
<1>1. b \in Nat /\ hp.size[b] \in Nat /\ E(b) = b + 32 + hp.size[b]
  BY BlockEnds DEF Shape
<1>2. d \in Nat /\ hp.size[d] \in Nat /\ E(d) = d + 32 + hp.size[d]
  BY BlockEnds DEF Shape
<1>3. b # d => E(b) <= d \/ E(d) <= b
  BY DEF Shape, Tiled
<1>4. E(b) = E(d)
  OBVIOUS
<1> HIDE DEF E
<1> QED
  BY <1>1, <1>2, <1>3, <1>4

\* left_neighbor_if_free finds the free block that ends where b begins.
LEMMA LeftFree ==
  ASSUME NEW A, NEW hp, Shape(A, hp), InSync(hp), NEW b \in Block(hp)
  PROVE  /\ LeftIsFree(A, hp, b) => /\ Pair(A, hp, LeftNeighbor(hp, b), b)
                                    /\ LeftNeighbor(hp, b) \in hp.free
         /\ \A x \in hp.free : Pair(A, hp, x, b) => LeftIsFree(A, hp, b)
<1> DEFINE l == LeftNeighbor(hp, b)
<1>1. PICK i \in DOMAIN A : Within(A, hp, i, b)
  BY DEF Shape, Tiled
<1>2. LeftIsFree(A, hp, b) => Pair(A, hp, l, b) /\ l \in hp.free
  BY <1>1, LeftNeighborIs DEF LeftIsFree, Pair
<1>3. ASSUME NEW x \in hp.free, Pair(A, hp, x, b) PROVE LeftIsFree(A, hp, b)
  <2>1. PICK j \in DOMAIN A : Within(A, hp, j, x) /\ Within(A, hp, j, b)
    BY <1>3 DEF Pair
  <2>2. /\ HasLeftNeighbor(A, hp, b) <=> b # A[j].base
        /\ HasLeftNeighbor(A, hp, b) => l \in Block(hp) /\ next_physical_header(hp, l) = b
    BY <2>1, LeftNeighborIs
  <2>3. A[j].base <= x /\ A[j].base \in Nat /\ x \in Nat /\ b \in Nat /\ x < b
    BY <1>3, <2>1, ArenaEnds, PairsAscend DEF Within, Shape
  <2>4. HasLeftNeighbor(A, hp, b)
    BY <2>2, <2>3
  <2>5. x \in Block(hp) /\ next_physical_header(hp, x) = b
    BY <1>3 DEF Pair
  <2>6. x = l
    BY <2>2, <2>4, <2>5, OneEnd
  <2> QED
    BY <1>3, <2>4, <2>6 DEF LeftIsFree
<1> QED
  BY <1>2, <1>3

\* Coalesced, said of pairs.
LEMMA CoalescedPairs ==
  ASSUME NEW A, NEW hp, Shape(A, hp)
  PROVE  Coalesced(A, hp) <=> \A b, d : ~FreePair(A, hp, b, d)
<1>1. hp.free \subseteq Block(hp)
  BY DEF Shape, HeapType
<1>2. ASSUME Coalesced(A, hp), NEW b, NEW d PROVE ~FreePair(A, hp, b, d)
  <2> SUFFICES ASSUME FreePair(A, hp, b, d) PROVE FALSE
    OBVIOUS
  <2>1. /\ b \in Block(hp) /\ b \in hp.free /\ d \in hp.free
        /\ Pair(A, hp, b, d) /\ next_physical_header(hp, b) = d
    BY DEF FreePair, Pair
  <2>2. RightIsFree(A, hp, b)
    BY <2>1, RightFree
  <2> QED
    BY <1>2, <2>1, <2>2 DEF Coalesced
<1>3. ASSUME \A b, d : ~FreePair(A, hp, b, d), NEW b \in hp.free
      PROVE  ~RightIsFree(A, hp, b)
  BY <1>1, <1>3, RightFree DEF FreePair
<1> QED
  BY <1>2, <1>3 DEF Coalesced

\* A heap with the same headers has the same pairs.
LEMMA SamePairs ==
  ASSUME NEW A, NEW hp, NEW hq, hq.size = hp.size, NEW b, NEW d
  PROVE  Pair(A, hq, b, d) <=> Pair(A, hp, b, d)
BY DEF Pair, Block, Within, next_physical_header

\* The pairs after l has swallowed r.
LEMMA MergedPairs ==
  ASSUME NEW A, NEW hp, Shape(A, hp), NEW l, NEW r, Pair(A, hp, l, r),
         NEW hq, Merged(hp, l, r, hq), Shape(A, hq), NEW b, NEW d, Pair(A, hq, b, d)
  PROVE  /\ b # l => Pair(A, hp, b, d)
         /\ b = l => Pair(A, hp, r, d)
         /\ b # r /\ d # r /\ b # d
<1> DEFINE E(x) == next_physical_header(hp, x)
           F(x) == next_physical_header(hq, x)
<1>1. /\ Block(hq) = Block(hp) \ {r} /\ l \in Block(hp) /\ r \in Block(hp) /\ E(l) = r
      /\ F(l) = E(r) /\ \A x \in Block(hq) \ {l} : F(x) = E(x)
  BY DEF Merged, Pair
<1>2. b \in Block(hq) /\ d \in Block(hq) /\ F(b) = d
  BY DEF Pair
<1>3. b \in Nat /\ d \in Nat /\ b < d
  BY PairsAscend DEF Shape
<1>4. PICK i \in DOMAIN A : Within(A, hq, i, b) /\ Within(A, hq, i, d)
  BY DEF Pair
<1>5. l \in Nat /\ r \in Nat /\ l < r /\ E(l) \in Nat /\ E(r) \in Nat /\ r < E(r)
  <2>1. /\ r \in Nat /\ hp.size[r] \in Nat /\ E(r) = r + 32 + hp.size[r]
    BY <1>1, BlockEnds DEF Shape
  <2> QED
    BY <1>1, <2>1, PairsAscend DEF Shape
<1> HIDE DEF E, F
<1>6. ASSUME NEW x \in Block(hq), Within(A, hq, i, x), x # l PROVE Within(A, hp, i, x)
  BY <1>1, <1>6 DEF Within, E, F
<1>7. ASSUME Within(A, hq, i, l) PROVE Within(A, hp, i, l) /\ Within(A, hp, i, r)
  <2>1. A[i].base <= l /\ E(r) <= CarvedEnd(A[i]) /\ A[i].base \in Nat /\ CarvedEnd(A[i]) \in Nat
    BY <1>1, <1>7, ArenaEnds DEF Within, F, Shape
  <2>2. E(l) <= CarvedEnd(A[i]) /\ A[i].base <= r
    BY <1>1, <1>5, <2>1
  <2> QED
    BY <2>1, <2>2 DEF Within, E
<1>8. Within(A, hp, i, d)
  BY <1>2, <1>4, <1>6, <1>7
<1>9. b # l => Pair(A, hp, b, d)
  BY <1>1, <1>2, <1>4, <1>6, <1>8 DEF Pair, E
<1>10. b = l => Pair(A, hp, r, d)
  BY <1>1, <1>2, <1>4, <1>7, <1>8 DEF Pair, E
<1> QED
  BY <1>1, <1>2, <1>3, <1>9, <1>10

\* The pairs after b has been cut down to n bytes.
LEMMA SplitPairs ==
  ASSUME NEW A, NEW hp, Shape(A, hp), NEW b \in Block(hp), NEW n \in Nat,
         hp.size[b] >= n + 48,
         NEW hq, Split(hp, b, n, hq), Shape(A, hq), NEW x, NEW y, Pair(A, hq, x, y)
  PROVE  /\ x = b + 32 + n => Pair(A, hp, b, y)
         /\ x # b /\ x # b + 32 + n => Pair(A, hp, x, y)
         /\ x = b => y = b + 32 + n
         /\ x # b => y # b + 32 + n
<1> DEFINE r == b + 32 + n
           E(d) == next_physical_header(hp, d)
           F(d) == next_physical_header(hq, d)
<1>1. /\ r \in Nat /\ r \notin Block(hp) /\ Block(hq) = Block(hp) \cup {r}
      /\ F(b) = r /\ F(r) = E(b)
      /\ \A d \in Block(hp) \ {b} : F(d) = E(d)
  BY DEF Split
<1>2. x \in Block(hq) /\ y \in Block(hq) /\ F(x) = y /\ x \in Nat /\ y \in Nat /\ x < y
  BY PairsAscend DEF Pair, Shape
<1>3. PICK i \in DOMAIN A : Within(A, hq, i, x) /\ Within(A, hq, i, y)
  BY DEF Pair
<1>4. /\ b \in Nat /\ hp.size[b] \in Nat /\ E(b) = b + 32 + hp.size[b]
      /\ b < r /\ r < E(b)
  <2>1. b \in Nat /\ hp.size[b] \in Nat /\ E(b) = b + 32 + hp.size[b]
    BY BlockEnds DEF Shape
  <2> QED
    BY <2>1
<1> HIDE DEF E, F
<1>5. ASSUME NEW d \in Block(hp), d # b, Within(A, hq, i, d) PROVE Within(A, hp, i, d)
  BY <1>1, <1>5 DEF Within, E, F
<1>6. x # b => y # r
  <2> SUFFICES ASSUME x # b, y = r PROVE FALSE
    OBVIOUS
  <2>1. x = b
    BY <1>1, <1>2, OneEnd DEF F
  <2> QED
    BY <2>1
<1>7. y = b => Within(A, hp, i, b)
  <2> SUFFICES ASSUME y = b PROVE Within(A, hp, i, b)
    OBVIOUS
  <2>1. PICK j \in DOMAIN A : Within(A, hp, j, b)
    BY DEF Shape, Tiled
  <2>2. /\ A[i].base <= b /\ r <= CarvedEnd(A[i]) /\ A[j].base <= b /\ E(b) <= CarvedEnd(A[j])
        /\ CarvedEnd(A[i]) \in Nat /\ CarvedEnd(A[j]) \in Nat
    BY <1>1, <1>3, <2>1, ArenaEnds DEF Within, E, F, Shape
  <2>3. i = j
    BY <1>1, <1>4, <2>2, OneArena DEF Shape
  <2> QED
    BY <2>1, <2>3
<1>8. x # b /\ x # r => Pair(A, hp, x, y)
  <2> SUFFICES ASSUME x # b, x # r PROVE Pair(A, hp, x, y)
    OBVIOUS
  <2>1. x \in Block(hp) /\ y \in Block(hp) /\ E(x) = y
    BY <1>1, <1>2, <1>6
  <2>2. Within(A, hp, i, x) /\ Within(A, hp, i, y)
    BY <1>3, <1>5, <1>7, <2>1
  <2> QED
    BY <2>1, <2>2 DEF Pair, E
<1>9. x = r => Pair(A, hp, b, y)
  <2> SUFFICES ASSUME x = r PROVE Pair(A, hp, b, y)
    OBVIOUS
  <2>1. y # b /\ y # r
    BY <1>2, <1>4
  <2>2. y \in Block(hp) /\ E(b) = y
    BY <1>1, <1>2, <2>1
  <2>3. Within(A, hp, i, y)
    BY <1>3, <1>5, <2>1, <2>2
  <2>4. PICK j \in DOMAIN A : Within(A, hp, j, b)
    BY DEF Shape, Tiled
  <2>5. /\ A[i].base <= r /\ E(b) <= CarvedEnd(A[i]) /\ A[j].base <= b /\ E(b) <= CarvedEnd(A[j])
        /\ A[j].base \in Nat /\ CarvedEnd(A[i]) \in Nat /\ CarvedEnd(A[j]) \in Nat
    BY <1>1, <1>3, <2>4, ArenaEnds DEF Within, E, F, Shape
  <2>6. E(b) \in Nat
    BY <1>4
  <2>7. /\ A[i].base <= r /\ r < CarvedEnd(A[i])
        /\ A[j].base <= r /\ r < CarvedEnd(A[j])
    BY <1>1, <1>4, <2>5, <2>6
  <2>8. i = j
    BY <1>1, <2>7, OneArena DEF Shape
  <2> QED
    BY <2>2, <2>3, <2>4, <2>8 DEF Pair, E
<1>10. x = b => y = r
  BY <1>1, <1>2
<1> QED
  BY <1>6, <1>8, <1>9, <1>10

-----------------------------------------------------------------------------
(* Good order.                                                             *)

\* Every block, allocated or not, has the room of the list's links.
Roomy(hp) == \A b \in Block(hp) : hp.size[b] >= 16

\* What every intermediate heap of a critical section still has.
Sound(A, hp) == Shape(A, hp) /\ InSync(hp) /\ AllAligned(A, hp) /\ Roomy(hp)

\* What a critical section finds and leaves.
Good(A, hp) == Sound(A, hp) /\ Listed(hp) /\ Coalesced(A, hp)

\* The blocks of S are there, with the size they had.
Keeps(hp, hq, S) == \A d \in S : d \in Block(hq) /\ hq.size[d] = hp.size[d]

\* Flags and the free list have no part in where blocks lie.
LEMMA SameSound ==
  ASSUME NEW A, NEW hp, Sound(A, hp), NEW hq, HeapType(hq),
         hq.size = hp.size, hq.ftr = hp.ftr
  PROVE  Sound(A, hq) /\ Block(hq) = Block(hp)
<1>1. Shape(A, hq) /\ InSync(hq) /\ Block(hq) = Block(hp)
  BY SameShape DEF Sound
<1> QED
  BY <1>1 DEF Sound, AllAligned, Roomy

\* Merging two blocks that touch leaves a sound heap.
LEMMA MergeSound ==
  ASSUME NEW A, NEW hp, Sound(A, hp), NEW l, NEW r, Pair(A, hp, l, r)
  PROVE  Sound(A, Merge(hp, l, r)) /\ Merged(hp, l, r, Merge(hp, l, r))
<1> DEFINE hq == Merge(hp, l, r)
<1>1. PICK i \in DOMAIN A : Within(A, hp, i, l) /\ Within(A, hp, i, r)
  BY DEF Pair
<1>2. l \in Block(hp) /\ r \in Block(hp) /\ next_physical_header(hp, l) = r
  BY DEF Pair
<1>3. Shape(A, hq) /\ InSync(hq) /\ Merged(hp, l, r, hq)
  BY <1>1, <1>2, MergeShape DEF Sound
<1> HIDE DEF hq
<1>4. /\ Block(hq) = Block(hp) \ {r}
      /\ hq.size[l] = hp.size[l] + 32 + hp.size[r]
      /\ \A b \in Block(hq) \ {l} : hq.size[b] = hp.size[b]
  BY <1>3 DEF Merged
<1>5. /\ hp.size[l] \in Nat /\ hp.size[r] \in Nat
      /\ IsAligned(hp.size[l]) /\ IsAligned(hp.size[r])
      /\ hp.size[l] >= 16 /\ hp.size[r] >= 16
  BY <1>2, BlockEnds DEF Sound, Shape, AllAligned, Roomy
<1>6. IsAligned(hq.size[l]) /\ hq.size[l] >= 16
  BY <1>4, <1>5 DEF IsAligned, Alignment
<1>7. AllAligned(A, hq) /\ Roomy(hq)
  BY <1>4, <1>6 DEF Sound, AllAligned, Roomy
<1> QED
  BY <1>3, <1>7 DEF Sound, hq

\* maybe_split() with a remainder large enough leaves a sound heap.
LEMMA SplitSound ==
  ASSUME NEW A, NEW hp, Sound(A, hp),
         IsInjective(hp.fl), ToSet(hp.fl) \subseteq Block(hp),
         NEW b \in Block(hp), NEW n \in Nat, n >= 16, IsAligned(n), hp.size[b] >= n + 48
  PROVE  Sound(A, maybe_split(hp, b, n)) /\ Split(hp, b, n, maybe_split(hp, b, n))
<1> DEFINE hq == maybe_split(hp, b, n)
           r == b + 32 + n
<1>1. PICK i \in DOMAIN A : Within(A, hp, i, b)
  BY DEF Sound, Shape, Tiled
<1>2. Shape(A, hq) /\ InSync(hq) /\ Split(hp, b, n, hq)
  BY <1>1, SplitShape DEF Sound
<1> HIDE DEF hq
<1>3. /\ Block(hq) = Block(hp) \cup {r}
      /\ hq.size[b] = n /\ hq.size[r] = hp.size[b] - n - 32
      /\ \A d \in Block(hp) \ {b} : hq.size[d] = hp.size[d]
  BY <1>2 DEF Split
<1>4. b \in Nat /\ hp.size[b] \in Nat /\ IsAligned(b) /\ IsAligned(hp.size[b])
  BY BlockEnds DEF Sound, Shape, AllAligned
<1>5. IsAligned(r) /\ IsAligned(hq.size[r]) /\ hq.size[r] >= 16
  BY <1>3, <1>4 DEF IsAligned, Alignment
<1> HIDE DEF r
<1>6. AllAligned(A, hq) /\ Roomy(hq)
  BY <1>3, <1>5 DEF Sound, AllAligned, Roomy
<1> QED
  BY <1>2, <1>6 DEF Sound, hq

-----------------------------------------------------------------------------
(* my_free.                                                                *)

\* Freeing b, half way: b is free but not listed, and the only free pairs
\* are those the coalescing steps are still to merge.
Freeing(A, hp, b) ==
  /\ Sound(A, hp) /\ b \in hp.free
  /\ IsInjective(hp.fl) /\ ToSet(hp.fl) = hp.free \ {b}

\* After my_free() has looked to the right, only a left neighbour can still be
\* free next to the block.
LEMMA CoalesceRight ==
  ASSUME NEW A, NEW hp, NEW b, Freeing(A, hp, b),
         \A x, y : FreePair(A, hp, x, y) => x = b \/ y = b
  PROVE  /\ Freeing(A, coalesce_right(A, hp, b), b)
         /\ \A x, y : FreePair(A, coalesce_right(A, hp, b), x, y) => y = b
         /\ Allocated(coalesce_right(A, hp, b)) = Allocated(hp)
         /\ Keeps(hp, coalesce_right(A, hp, b), Allocated(hp))
<1> DEFINE r == next_physical_header(hp, b)
           hu == unlink(hp, r)
           hq == coalesce_right(A, hp, b)
<1>1. /\ Shape(A, hp) /\ HeapType(hp) /\ hp.free \subseteq Block(hp)
      /\ b \in Block(hp) /\ b \in hp.free
  BY DEF Freeing, Sound, Shape, HeapType
<1>2. CASE ~RightIsFree(A, hp, b)
  <2>1. hq = hp
    BY <1>2 DEF coalesce_right
  <2>2. ASSUME NEW x, NEW y, FreePair(A, hp, x, y) PROVE y = b
    <3>1. x = b => FALSE
      BY <1>1, <1>2, <2>2, RightFree DEF FreePair, Pair
    <3> QED
      BY <2>2, <3>1
  <2> QED
    BY <2>1, <2>2 DEF Keeps, Allocated
<1>3. CASE RightIsFree(A, hp, b)
  <2>1. Pair(A, hp, b, r) /\ r \in hp.free
    BY <1>1, <1>3, RightFree
  <2>2. b \in Nat /\ r \in Nat /\ b < r
    BY <1>1, <2>1, PairsAscend
  <2>3. hq = Merge(hu, b, r)
    BY <1>3 DEF coalesce_right, absorb_right_neighbor
  <2> HIDE DEF r, hu, hq
  <2>4. r \in ToSet(hp.fl)
    BY <2>1, <2>2 DEF Freeing
  <2>5. /\ HeapType(hu) /\ hu.size = hp.size /\ hu.ftr = hp.ftr /\ hu.free = hp.free
        /\ IsInjective(hu.fl) /\ ToSet(hu.fl) = ToSet(hp.fl) \ {r}
    BY <1>1, <2>4, UnlinkFields DEF hu, Freeing
  <2>6. Sound(A, hu) /\ Block(hu) = Block(hp)
    BY <2>5, SameSound DEF Freeing
  <2>7. \A x, y : Pair(A, hu, x, y) <=> Pair(A, hp, x, y)
    BY <2>5, SamePairs
  <2>8. Sound(A, hq) /\ Merged(hu, b, r, hq)
    BY <2>1, <2>3, <2>6, <2>7, MergeSound
  <2>9. /\ Block(hq) = Block(hp) \ {r}
        /\ \A d \in Block(hq) \ {b} : hq.size[d] = hp.size[d]
        /\ hq.free = hp.free \ {r} /\ hq.fl = hu.fl
    BY <2>5, <2>6, <2>8 DEF Merged
  <2>10. Freeing(A, hq, b)
    BY <1>1, <2>2, <2>5, <2>8, <2>9 DEF Freeing
  <2>11. ASSUME NEW x, NEW y, FreePair(A, hq, x, y) PROVE y = b
    <3>1. /\ x # b => Pair(A, hu, x, y)
          /\ x = b => Pair(A, hu, r, y)
      BY <2>1, <2>6, <2>7, <2>8, <2>11, MergedPairs DEF FreePair, Sound
    <3>2. x \in hp.free /\ y \in hp.free
      BY <2>9, <2>11 DEF FreePair
    <3>3. CASE x = b
      <4>1. FreePair(A, hp, r, y)
        BY <2>1, <2>7, <3>1, <3>2, <3>3 DEF FreePair
      <4> QED
        BY <2>2, <4>1
    <3>4. CASE x # b
      <4>1. FreePair(A, hp, x, y)
        BY <2>7, <3>1, <3>2, <3>4 DEF FreePair
      <4> QED
        BY <3>4, <4>1
    <3> QED
      BY <3>3, <3>4
  <2>12. Allocated(hq) = Allocated(hp)
    BY <2>1, <2>9 DEF Allocated
  <2>13. Keeps(hp, hq, Allocated(hp))
    BY <1>1, <2>1, <2>9 DEF Allocated, Keeps
  <2> QED
    BY <2>10, <2>11, <2>12, <2>13 DEF hq
<1> QED
  BY <1>2, <1>3

\* After my_free() has looked to the left too, the heap is in good order.
LEMMA CoalesceLeft ==
  ASSUME NEW A, NEW hp, NEW b, Freeing(A, hp, b),
         \A x, y : FreePair(A, hp, x, y) => y = b
  PROVE  /\ Good(A, coalesce_left(A, hp, b))
         /\ Allocated(coalesce_left(A, hp, b)) = Allocated(hp)
         /\ Keeps(hp, coalesce_left(A, hp, b), Allocated(hp))
<1> DEFINE l == LeftNeighbor(hp, b)
           hu == unlink(hp, l)
           hm == Merge(hu, l, b)
           hq == coalesce_left(A, hp, b)
<1>1. /\ Sound(A, hp) /\ Shape(A, hp) /\ InSync(hp) /\ HeapType(hp)
      /\ hp.free \subseteq Block(hp) /\ b \in Block(hp) /\ b \in hp.free
      /\ b \in Nat
      /\ IsInjective(hp.fl) /\ ToSet(hp.fl) = hp.free \ {b}
  BY DEF Freeing, Sound, Shape, HeapType
<1>2. CASE ~LeftIsFree(A, hp, b)
  <2>1. hq = insert(hp, b)
    BY <1>2 DEF coalesce_left
  <2> HIDE DEF hq
  <2>2. /\ HeapType(hq) /\ hq.size = hp.size /\ hq.ftr = hp.ftr /\ hq.free = hp.free
        /\ IsInjective(hq.fl) /\ ToSet(hq.fl) = ToSet(hp.fl) \cup {b}
    BY <1>1, <2>1, InsertFields
  <2>3. Sound(A, hq) /\ Block(hq) = Block(hp)
    BY <1>1, <2>2, SameSound
  <2>4. \A x, y : ~FreePair(A, hq, x, y)
    <3> SUFFICES ASSUME NEW x, NEW y, FreePair(A, hq, x, y) PROVE FALSE
      OBVIOUS
    <3>1. FreePair(A, hp, x, y)
      BY <2>2, SamePairs DEF FreePair
    <3>2. y = b
      BY <3>1
    <3> QED
      BY <1>1, <1>2, <3>1, <3>2, LeftFree DEF FreePair
  <2>5. Coalesced(A, hq)
    BY <2>3, <2>4, CoalescedPairs DEF Sound
  <2>6. Listed(hq)
    <3>1. ToSet(hq.fl) = hq.free
      BY <1>1, <2>2
    <3>2. \A d \in hq.free : hq.size[d] >= 16
      BY <1>1, <2>2, <2>3 DEF Sound, Roomy
    <3> QED
      BY <2>2, <3>1, <3>2 DEF Listed, LinksSize
  <2>7. Allocated(hq) = Allocated(hp) /\ Keeps(hp, hq, Allocated(hp))
    BY <2>2, <2>3 DEF Allocated, Keeps
  <2> QED
    BY <2>3, <2>5, <2>6, <2>7 DEF Good, hq
<1>3. CASE LeftIsFree(A, hp, b)
  <2>1. hq = insert(hm, l)
    BY <1>3 DEF coalesce_left
  <2>2. Pair(A, hp, l, b) /\ l \in hp.free
    BY <1>1, <1>3, LeftFree
  <2>3. l \in Nat /\ l < b
    BY <1>1, <2>2, PairsAscend
  <2> HIDE DEF l, hu, hm, hq
  <2>4. l \in ToSet(hp.fl)
    BY <1>1, <2>2, <2>3
  <2>5. /\ HeapType(hu) /\ hu.size = hp.size /\ hu.ftr = hp.ftr /\ hu.free = hp.free
        /\ IsInjective(hu.fl) /\ ToSet(hu.fl) = ToSet(hp.fl) \ {l}
    BY <1>1, <2>4, UnlinkFields DEF hu
  <2>6. Sound(A, hu) /\ Block(hu) = Block(hp)
    BY <1>1, <2>5, SameSound
  <2>7. \A x, y : Pair(A, hu, x, y) <=> Pair(A, hp, x, y)
    BY <2>5, SamePairs
  <2>8. Sound(A, hm) /\ Merged(hu, l, b, hm)
    BY <2>2, <2>6, <2>7, MergeSound DEF hm
  <2>9. /\ Block(hm) = Block(hp) \ {b}
        /\ \A d \in Block(hm) \ {l} : hm.size[d] = hp.size[d]
        /\ hm.free = hp.free \ {b} /\ hm.fl = hu.fl
    BY <2>5, <2>6, <2>8 DEF Merged
  <2>10. HeapType(hm) /\ IsInjective(hm.fl) /\ l \notin ToSet(hm.fl)
    BY <2>5, <2>8, <2>9 DEF Sound, Shape
  <2>11. /\ HeapType(hq) /\ hq.size = hm.size /\ hq.ftr = hm.ftr /\ hq.free = hm.free
         /\ IsInjective(hq.fl) /\ ToSet(hq.fl) = ToSet(hm.fl) \cup {l}
    BY <2>1, <2>3, <2>10, InsertFields
  <2>12. Sound(A, hq) /\ Block(hq) = Block(hm)
    BY <2>8, <2>11, SameSound
  <2>13. \A x, y : ~FreePair(A, hq, x, y)
    <3> SUFFICES ASSUME NEW x, NEW y, FreePair(A, hq, x, y) PROVE FALSE
      OBVIOUS
    <3>1. Pair(A, hm, x, y)
      BY <2>11, SamePairs DEF FreePair
    <3>2. /\ x # l => Pair(A, hu, x, y)
          /\ x = l => Pair(A, hu, b, y)
          /\ y # b
      BY <2>2, <2>6, <2>7, <2>8, <3>1, MergedPairs DEF Sound
    <3>3. x \in hp.free /\ y \in hp.free
      BY <2>9, <2>11 DEF FreePair
    <3>4. FreePair(A, hp, x, y) \/ FreePair(A, hp, b, y)
      BY <1>1, <2>7, <3>2, <3>3 DEF FreePair
    <3> QED
      BY <3>2, <3>4
  <2>14. Coalesced(A, hq)
    BY <2>12, <2>13, CoalescedPairs DEF Sound
  <2>15. Listed(hq)
    <3>1. ToSet(hq.fl) = hq.free
      BY <1>1, <2>2, <2>3, <2>5, <2>9, <2>11
    <3>2. \A d \in hq.free : hq.size[d] >= 16
      BY <2>12 DEF Sound, Roomy, Shape, HeapType
    <3> QED
      BY <2>11, <3>1, <3>2 DEF Listed, LinksSize
  <2>16. Allocated(hq) = Allocated(hp)
    BY <1>1, <2>9, <2>11, <2>12 DEF Allocated
  <2>17. Keeps(hp, hq, Allocated(hp))
    BY <1>1, <2>2, <2>9, <2>11, <2>12 DEF Allocated, Keeps
  <2> QED
    BY <2>12, <2>14, <2>15, <2>16, <2>17 DEF Good, hq
<1> QED
  BY <1>2, <1>3

\* Releasing an allocated block leaves the heap in good order and every other
\* allocated block as it was.
LEMMA ReleaseGood ==
  ASSUME NEW A, NEW hp, Good(A, hp), NEW b \in Allocated(hp)
  PROVE  /\ Good(A, Release(A, hp, b))
         /\ Allocated(Release(A, hp, b)) = Allocated(hp) \ {b}
         /\ Keeps(hp, Release(A, hp, b), Allocated(hp) \ {b})
<1> DEFINE h1 == set_free(hp, b, TRUE)
           h2 == coalesce_right(A, h1, b)
           h3 == coalesce_left(A, h2, b)
<1>1. /\ HeapType(hp) /\ b \in Block(hp) /\ b \notin hp.free /\ Shape(A, hp)
      /\ ToSet(hp.fl) = hp.free /\ IsInjective(hp.fl)
  BY DEF Good, Sound, Shape, Allocated, Listed
<1>2. /\ HeapType(h1) /\ h1.size = hp.size /\ h1.ftr = hp.ftr /\ h1.fl = hp.fl
      /\ h1.free = hp.free \cup {b}
  BY <1>1, SetFreeFields
<1> HIDE DEF h1
<1>3. Sound(A, h1) /\ Block(h1) = Block(hp)
  BY <1>2, SameSound DEF Good
<1>4. Freeing(A, h1, b)
  BY <1>1, <1>2, <1>3 DEF Freeing
<1>5. ASSUME NEW x, NEW y, FreePair(A, h1, x, y) PROVE x = b \/ y = b
  <2>1. Pair(A, hp, x, y)
    BY <1>2, <1>5, SamePairs DEF FreePair
  <2>2. ~FreePair(A, hp, x, y)
    BY <1>1, CoalescedPairs DEF Good
  <2> QED
    BY <1>2, <1>5, <2>1, <2>2 DEF FreePair
<1>6. /\ Freeing(A, h2, b)
      /\ \A x, y : FreePair(A, h2, x, y) => y = b
      /\ Allocated(h2) = Allocated(h1)
      /\ Keeps(h1, h2, Allocated(h1))
  BY <1>4, <1>5, CoalesceRight
<1> HIDE DEF h2
<1>7. /\ Good(A, h3)
      /\ Allocated(h3) = Allocated(h2)
      /\ Keeps(h2, h3, Allocated(h2))
  BY <1>6, CoalesceLeft
<1>8. Release(A, hp, b) = h3
  BY DEF Release, h1, h2
<1> HIDE DEF h3
<1>9. Allocated(h1) = Allocated(hp) \ {b}
  BY <1>2, <1>3 DEF Allocated
<1>10. Keeps(hp, h3, Allocated(hp) \ {b})
  BY <1>2, <1>3, <1>6, <1>7, <1>9 DEF Keeps
<1> QED
  BY <1>6, <1>7, <1>8, <1>9, <1>10

-----------------------------------------------------------------------------
(* The reuse of a free block, and growing in place.                        *)

\* b is being cut to size: it is not listed, every other free block is, and
\* none of them could be merged with another or with what b gives up.
Cutting(A, hp, b) ==
  /\ Sound(A, hp) /\ b \in Block(hp)
  /\ IsInjective(hp.fl) /\ ToSet(hp.fl) = hp.free \ {b}
  /\ \A x, y : FreePair(A, hp, x, y) => x = b \/ y = b

\* maybe_split() takes nothing from the request and disturbs no other block.
LEMMA Shrink ==
  ASSUME NEW A, NEW hp, NEW b, Cutting(A, hp, b),
         \A y \in hp.free : ~Pair(A, hp, b, y),
         NEW n \in Nat, n >= 16, IsAligned(n), hp.size[b] >= n
  PROVE  /\ Cutting(A, maybe_split(hp, b, n), b)
         /\ maybe_split(hp, b, n).size[b] >= n
         /\ Allocated(maybe_split(hp, b, n)) = Allocated(hp)
         /\ b \in maybe_split(hp, b, n).free <=> b \in hp.free
         /\ Keeps(hp, maybe_split(hp, b, n), Block(hp) \ {b})
<1> DEFINE hq == maybe_split(hp, b, n)
           r == b + 32 + n
<1>1. /\ Sound(A, hp) /\ Shape(A, hp) /\ HeapType(hp) /\ hp.free \subseteq Block(hp)
      /\ b \in Block(hp) /\ b \in Nat /\ hp.size[b] \in Nat
      /\ IsInjective(hp.fl) /\ ToSet(hp.fl) = hp.free \ {b}
  BY DEF Cutting, Sound, Shape, HeapType, Block
<1>2. CASE hp.size[b] < n + 48
  <2>1. hq = hp
    BY <1>1, <1>2, NoSplit
  <2> QED
    BY <2>1 DEF Keeps
<1>3. CASE hp.size[b] >= n + 48
  <2>1. Sound(A, hq) /\ Split(hp, b, n, hq)
    BY <1>1, <1>3, SplitSound
  <2> HIDE DEF hq
  <2>2. /\ r \in Nat /\ r \notin Block(hp) /\ Block(hq) = Block(hp) \cup {r}
        /\ hq.size[b] = n
        /\ \A d \in Block(hp) \ {b} : hq.size[d] = hp.size[d]
        /\ hq.free = hp.free \cup {r}
        /\ IsInjective(hq.fl) /\ ToSet(hq.fl) = ToSet(hp.fl) \cup {r}
    BY <2>1 DEF Split
  <2>3. r # b
    BY <1>1
  <2>4. ASSUME NEW x, NEW y, FreePair(A, hq, x, y) PROVE x = b \/ y = b
    <3>1. /\ x = r => Pair(A, hp, b, y)
          /\ x # b /\ x # r => Pair(A, hp, x, y)
          /\ x # b => y # r
      BY <1>1, <1>3, <2>1, <2>4, SplitPairs DEF FreePair, Sound
    <3> HIDE DEF r
    <3> SUFFICES ASSUME x # b PROVE y = b
      OBVIOUS
    <3>2. y \in hp.free
      BY <2>2, <2>4, <3>1 DEF FreePair
    <3>3. CASE x = r
      BY <3>1, <3>2, <3>3
    <3>4. CASE x # r
      <4>1. FreePair(A, hp, x, y)
        BY <2>2, <2>4, <3>1, <3>2, <3>4 DEF FreePair
      <4> QED
        BY <4>1 DEF Cutting
    <3> QED
      BY <3>3, <3>4
  <2> HIDE DEF r
  <2>5. ToSet(hq.fl) = hq.free \ {b}
    BY <1>1, <2>2, <2>3
  <2>6. Cutting(A, hq, b)
    BY <1>1, <2>1, <2>2, <2>4, <2>5 DEF Cutting
  <2>7. Allocated(hq) = Allocated(hp) /\ (b \in hq.free <=> b \in hp.free)
    BY <1>1, <2>2, <2>3 DEF Allocated
  <2>8. Keeps(hp, hq, Block(hp) \ {b})
    BY <2>2 DEF Keeps
  <2>9. hq.size[b] >= n
    BY <2>2
  <2> QED
    BY <2>6, <2>7, <2>8, <2>9 DEF hq
<1>4. hp.size[b] < n + 48 \/ hp.size[b] >= n + 48
  BY <1>1
<1> QED
  BY <1>2, <1>3, <1>4

\* Once b is marked allocated everything is in order again.
LEMMA CutDone ==
  ASSUME NEW A, NEW hp, NEW b, Cutting(A, hp, b), b \notin hp.free
  PROVE  Good(A, hp)
<1>1. ToSet(hp.fl) = hp.free /\ IsInjective(hp.fl) /\ Shape(A, hp) /\ Roomy(hp)
  BY DEF Cutting, Sound
<1>2. Listed(hp)
  BY <1>1 DEF Listed, Roomy, Shape, HeapType, LinksSize
<1>3. \A x, y : ~FreePair(A, hp, x, y)
  BY DEF Cutting, FreePair
<1> QED
  BY <1>1, <1>2, <1>3, CoalescedPairs DEF Good, Cutting

\* A free block that fits, cut to size and handed out.
LEMMA ReuseGood ==
  ASSUME NEW A, NEW hp, Good(A, hp), NEW b \in hp.free,
         NEW n \in Nat, n >= 16, IsAligned(n), hp.size[b] >= n,
         NEW hq, hq = Reused(hp, b, n)
  PROVE  /\ Good(A, hq)
         /\ Allocated(hq) = Allocated(hp) \cup {b}
         /\ hq.size[b] >= n
         /\ Keeps(hp, hq, Allocated(hp))
<1> DEFINE h1 == unlink(hp, b)
           h2 == maybe_split(h1, b, n)
<1>1. /\ Sound(A, hp) /\ Shape(A, hp) /\ HeapType(hp) /\ b \in Block(hp)
      /\ hp.free \subseteq Block(hp)
      /\ IsInjective(hp.fl) /\ ToSet(hp.fl) = hp.free
      /\ \A x, y : ~FreePair(A, hp, x, y)
  BY CoalescedPairs DEF Good, Sound, Shape, HeapType, Listed
<1>2. /\ HeapType(h1) /\ h1.size = hp.size /\ h1.ftr = hp.ftr /\ h1.free = hp.free
      /\ IsInjective(h1.fl) /\ ToSet(h1.fl) = ToSet(hp.fl) \ {b}
  BY <1>1, UnlinkFields
<1> HIDE DEF h1
<1>3. Sound(A, h1) /\ Block(h1) = Block(hp)
  BY <1>1, <1>2, SameSound
<1>4. \A x, y : Pair(A, h1, x, y) <=> Pair(A, hp, x, y)
  BY <1>2, SamePairs
<1>5. /\ \A x, y : ~FreePair(A, h1, x, y)
      /\ \A y \in h1.free : ~Pair(A, h1, b, y)
  BY <1>1, <1>2, <1>4 DEF FreePair
<1>6. Cutting(A, h1, b)
  BY <1>1, <1>2, <1>3, <1>5 DEF Cutting
<1>7. /\ Cutting(A, h2, b) /\ h2.size[b] >= n /\ Allocated(h2) = Allocated(h1)
      /\ Keeps(h1, h2, Block(h1) \ {b}) /\ b \in h2.free
  BY <1>2, <1>5, <1>6, Shrink
<1>8. hq = set_free(h2, b, FALSE)
  BY DEF h1, h2, Reused
<1> HIDE DEF h2
<1>9. Sound(A, h2) /\ HeapType(h2) /\ b \in Block(h2)
  BY <1>7 DEF Cutting, Sound, Shape
<1>10. /\ HeapType(hq) /\ hq.size = h2.size /\ hq.ftr = h2.ftr /\ hq.fl = h2.fl
       /\ hq.free = h2.free \ {b}
  <2> DEFINE h3 == set_free(h2, b, FALSE)
  <2>1. /\ HeapType(h3) /\ h3.size = h2.size /\ h3.ftr = h2.ftr /\ h3.fl = h2.fl
        /\ h3.free = IF FALSE THEN h2.free \cup {b} ELSE h2.free \ {b}
    BY <1>9, SetFreeFields, Zenon
  <2> HIDE DEF h3
  <2>2. hq = h3
    BY <1>8 DEF h3
  <2> QED
    BY <2>1, <2>2
<1>11. Sound(A, hq) /\ Block(hq) = Block(h2)
  BY <1>9, <1>10, SameSound
<1>12. \A x, y : FreePair(A, hq, x, y) => FreePair(A, h2, x, y)
  BY <1>10, SamePairs DEF FreePair
<1>13. Cutting(A, hq, b)
  BY <1>7, <1>9, <1>10, <1>11, <1>12 DEF Cutting
<1>14. Good(A, hq)
  BY <1>10, <1>13, CutDone
<1>15. Allocated(hq) = Allocated(hp) \cup {b}
  BY <1>2, <1>3, <1>7, <1>9, <1>10, <1>11 DEF Allocated
<1>16. Keeps(hp, hq, Allocated(hp))
  BY <1>2, <1>3, <1>7, <1>10, <1>11 DEF Keeps, Allocated
<1> QED
  BY <1>7, <1>10, <1>14, <1>15, <1>16

\* The free right neighbour taken in, and what is too much given back.
LEMMA GrowGood ==
  ASSUME NEW A, NEW hp, Good(A, hp), NEW b \in Allocated(hp), RightIsFree(A, hp, b),
         NEW n \in Nat, n >= 16, IsAligned(n), n >= hp.size[b],
         combined_payload_size(hp, b, next_physical_header(hp, b)) >= n,
         NEW hq, hq = maybe_split(absorb_right_neighbor(hp, b, next_physical_header(hp, b)), b, n)
  PROVE  /\ Good(A, hq)
         /\ Allocated(hq) = Allocated(hp)
         /\ hq.size[b] >= n
         /\ Keeps(hp, hq, Allocated(hp) \ {b})
<1> DEFINE r == next_physical_header(hp, b)
           h1 == unlink(hp, r)
           h2 == Merge(h1, b, r)
<1>1. /\ Sound(A, hp) /\ Shape(A, hp) /\ HeapType(hp) /\ b \in Block(hp) /\ b \notin hp.free
      /\ hp.free \subseteq Block(hp)
      /\ IsInjective(hp.fl) /\ ToSet(hp.fl) = hp.free
      /\ \A x, y : ~FreePair(A, hp, x, y)
  BY CoalescedPairs DEF Good, Sound, Shape, HeapType, Listed, Allocated
<1>2. Pair(A, hp, b, r) /\ r \in hp.free
  BY <1>1, RightFree
<1>3. hq = maybe_split(h2, b, n)
  BY DEF absorb_right_neighbor
<1>4. hp.size[b] + 32 + hp.size[r] >= n
  BY <1>1, <1>2, BlockEnds DEF combined_payload_size, FooterSize, HeaderSize, Pair
<1> HIDE DEF r
<1>5. /\ HeapType(h1) /\ h1.size = hp.size /\ h1.ftr = hp.ftr /\ h1.free = hp.free
      /\ IsInjective(h1.fl) /\ ToSet(h1.fl) = ToSet(hp.fl) \ {r}
  BY <1>1, <1>2, UnlinkFields
<1> HIDE DEF h1
<1>6. Sound(A, h1) /\ Block(h1) = Block(hp)
  BY <1>1, <1>5, SameSound
<1>7. \A x, y : Pair(A, h1, x, y) <=> Pair(A, hp, x, y)
  BY <1>5, SamePairs
<1>8. Sound(A, h2) /\ Merged(h1, b, r, h2)
  BY <1>2, <1>6, <1>7, MergeSound
<1> HIDE DEF h2
<1>9. /\ Block(h2) = Block(hp) \ {r}
      /\ h2.size[b] = hp.size[b] + 32 + hp.size[r]
      /\ \A d \in Block(h2) \ {b} : h2.size[d] = hp.size[d]
      /\ h2.free = hp.free \ {r} /\ h2.fl = h1.fl
  BY <1>5, <1>6, <1>8 DEF Merged
<1>10. ASSUME NEW x, NEW y, Pair(A, h2, x, y)
       PROVE  (x # b => Pair(A, hp, x, y)) /\ (x = b => Pair(A, hp, r, y))
  BY <1>2, <1>6, <1>7, <1>8, <1>10, MergedPairs DEF Sound
<1>11. \A y \in h2.free : ~Pair(A, h2, b, y)
  BY <1>1, <1>2, <1>9, <1>10 DEF FreePair
<1>12. ASSUME NEW x, NEW y, FreePair(A, h2, x, y) PROVE x = b
  BY <1>1, <1>9, <1>10, <1>12 DEF FreePair
<1>13. Cutting(A, h2, b)
  BY <1>1, <1>2, <1>5, <1>8, <1>9, <1>12 DEF Cutting
<1>14. /\ Cutting(A, hq, b) /\ hq.size[b] >= n /\ Allocated(hq) = Allocated(h2)
       /\ b \notin hq.free
       /\ Keeps(h2, hq, Block(h2) \ {b})
  BY <1>1, <1>3, <1>4, <1>9, <1>11, <1>13, Shrink
<1>15. Good(A, hq)
  BY <1>14, CutDone
<1>16. Allocated(hq) = Allocated(hp)
  BY <1>1, <1>2, <1>9, <1>14 DEF Allocated
<1>17. Keeps(hp, hq, Allocated(hp) \ {b})
  BY <1>1, <1>2, <1>9, <1>14 DEF Allocated, Keeps
<1> QED
  BY <1>14, <1>15, <1>16, <1>17

-----------------------------------------------------------------------------
(* Bump allocation.                                                        *)

\* B is A after a block with n bytes of payload has been carved at b, from
\* arena k: the end of it has moved up, or it is new.
Carved(A, B, k, b, n) ==
  /\ ArenasType(A) /\ ArenasType(B) /\ ArenasApart(B)
  /\ k \in DOMAIN B /\ DOMAIN A \subseteq DOMAIN B
  /\ \A j \in DOMAIN B \ {k} : j \in DOMAIN A /\ B[j] = A[j]
  /\ CarvedEnd(B[k]) = b + 32 + n
  /\ \/ k \in DOMAIN A /\ B[k].base = A[k].base /\ CarvedEnd(A[k]) = b
     \/ k \notin DOMAIN A /\ B[k].base = b

\* A block carved at the bump pointer extends the tiling of its arena.
LEMMA CarveShape ==
  ASSUME NEW A, NEW hp, Shape(A, hp), InSync(hp),
         NEW B, NEW k, NEW b \in Nat, NEW n \in Nat, Carved(A, B, k, b, n),
         NEW hq, Placed(hp, b, n, hp.free \ {b}, hq)
  PROVE  /\ b \notin Block(hp)
         /\ PlacedFields(hp, b, n, hp.free, hq)
         /\ Shape(B, hq) /\ InSync(hq)
         /\ \A x, y : Pair(B, hq, x, y) /\ x # b /\ y # b => Pair(A, hp, x, y)
<1> DEFINE E(d) == next_physical_header(hp, d)
           F(d) == next_physical_header(hq, d)
           end == b + 32 + n
<1>1. /\ HeapType(hp) /\ ArenasType(A) /\ ArenasApart(A) /\ Tiled(A, hp)
      /\ hp.free \subseteq Block(hp)
  BY DEF Shape, HeapType
<1>2. \A d \in Block(hp) : d \in Nat /\ hp.size[d] \in Nat /\ E(d) \in Nat
                           /\ E(d) = d + 32 + hp.size[d]
  BY <1>1, BlockEnds
<1>3. /\ ArenasType(B) /\ ArenasApart(B) /\ k \in DOMAIN B /\ DOMAIN A \subseteq DOMAIN B
      /\ \A j \in DOMAIN B \ {k} : j \in DOMAIN A /\ B[j] = A[j]
      /\ CarvedEnd(B[k]) = end
      /\ \/ k \in DOMAIN A /\ B[k].base = A[k].base /\ CarvedEnd(A[k]) = b
         \/ k \notin DOMAIN A /\ B[k].base = b
  BY DEF Carved
<1>4. end \in Nat /\ b < end
  OBVIOUS
<1> HIDE DEF E, F, end
<1>5. B[k].base \in Nat /\ B[k].base <= b
  <2>1. CASE k \in DOMAIN A
    <3>1. A[k].base \in Nat /\ A[k].used \in Nat /\ CarvedEnd(A[k]) = A[k].base + A[k].used
      BY <1>1, <2>1, ArenaEnds
    <3> QED
      BY <1>3, <2>1, <3>1
  <2>2. CASE k \notin DOMAIN A
    BY <1>3, <2>2
  <2> QED
    BY <2>1, <2>2
\* Every block there was lies before the new one or after it.
<1>6. ASSUME NEW d \in Block(hp) PROVE E(d) <= b \/ end <= d
  <2>1. PICK j \in DOMAIN A : Within(A, hp, j, d)
    BY <1>1 DEF Tiled
  <2>2. A[j].base <= d /\ E(d) <= CarvedEnd(A[j])
    BY <2>1 DEF Within, E
  <2>3. CASE j = k
    BY <1>3, <2>2, <2>3
  <2>4. CASE j # k
    <3>1. /\ ArenaEnd(B[k]) <= A[j].base \/ ArenaEnd(A[j]) <= B[k].base
          /\ B[k].used <= B[k].size /\ A[j].used <= A[j].size
      BY <1>3, <2>4 DEF ArenasApart
    <3>2. /\ B[k].base \in Nat /\ B[k].size \in Nat /\ B[k].used \in Nat
          /\ CarvedEnd(B[k]) = B[k].base + B[k].used
          /\ ArenaEnd(B[k]) = B[k].base + B[k].size
      BY <1>3, ArenaEnds
    <3>3. /\ A[j].base \in Nat /\ A[j].size \in Nat /\ A[j].used \in Nat
          /\ CarvedEnd(A[j]) = A[j].base + A[j].used
          /\ ArenaEnd(A[j]) = A[j].base + A[j].size
      BY <1>1, ArenaEnds
    <3> QED
      BY <1>2, <1>3, <1>4, <1>5, <2>2, <3>1, <3>2, <3>3
  <2> QED
    BY <2>3, <2>4
<1>7. b \notin Block(hp)
  <2> SUFFICES ASSUME b \in Block(hp) PROVE FALSE
    OBVIOUS
  <2>1. E(b) <= b \/ end <= b
    BY <1>6
  <2>2. b < E(b) /\ E(b) \in Nat
    BY <1>2
  <2> QED
    BY <1>4, <2>1, <2>2
<1>8. PlacedFields(hp, b, n, hp.free, hq)
  <2>1. hp.free \ {b} = hp.free
    BY <1>1, <1>7
  <2>2. Placed(hp, b, n, hp.free, hq)
    BY <2>1
  <2> QED
    BY <1>1, <2>2, NewBlockFields
<1>9. /\ HeapType(hq) /\ Block(hq) = Block(hp) \cup {b} /\ hq.size[b] = n
      /\ \A d \in Block(hp) : hq.size[d] = hp.size[d]
      /\ DOMAIN hq.ftr = DOMAIN hp.ftr \cup {b + 16 + n}
      /\ hq.ftr[b + 16 + n] = n
      /\ \A a \in DOMAIN hp.ftr \ {b + 16 + n} : hq.ftr[a] = hp.ftr[a]
  BY <1>7, <1>8 DEF PlacedFields
<1>10. F(b) = end /\ \A d \in Block(hp) : F(d) = E(d)
  <2>1. \A d \in Block(hq) : F(d) = d + 32 + hq.size[d]
    BY <1>9, BlockEnds DEF F
  <2> QED
    BY <1>2, <1>9, <2>1 DEF end
<1>11. Within(B, hq, k, b)
  BY <1>3, <1>4, <1>5, <1>10 DEF Within, F
<1>12. ASSUME NEW i \in DOMAIN B, Within(B, hq, i, b) PROVE i = k
  <2>1. B[i].base <= b /\ end <= CarvedEnd(B[i]) /\ CarvedEnd(B[i]) \in Nat
    BY <1>3, <1>10, <1>12, ArenaEnds DEF Within, F
  <2>2. B[k].base <= b /\ b < CarvedEnd(B[k]) /\ b < CarvedEnd(B[i])
    BY <1>3, <1>4, <1>5, <2>1
  <2> QED
    BY <1>3, <2>1, <2>2, OneArena
<1>13. ASSUME NEW i \in DOMAIN A, NEW d \in Block(hp), Within(A, hp, i, d)
       PROVE  i \in DOMAIN B /\ Within(B, hq, i, d)
  <2>1. A[i].base <= d /\ E(d) <= CarvedEnd(A[i])
    BY <1>13 DEF Within, E
  <2>2. CASE i = k
    BY <1>2, <1>3, <1>4, <1>10, <2>1, <2>2 DEF Within, F
  <2>3. CASE i # k
    BY <1>3, <1>10, <2>1, <2>3 DEF Within, F
  <2> QED
    BY <1>3, <2>2, <2>3
<1>14. ASSUME NEW i \in DOMAIN B, NEW d \in Block(hp), Within(B, hq, i, d)
       PROVE  i \in DOMAIN A /\ Within(A, hp, i, d)
  <2>1. B[i].base <= d /\ E(d) <= CarvedEnd(B[i])
    BY <1>10, <1>14 DEF Within, F
  <2>2. CASE i # k
    BY <1>3, <2>1, <2>2 DEF Within, E
  <2>3. CASE i = k
    <3>1. E(d) <= b
      <4>1. d < E(d) /\ d \in Nat /\ E(d) \in Nat
        BY <1>2
      <4> QED
        BY <1>3, <1>4, <1>6, <2>1, <2>3, <4>1
    <3>2. d < b
      BY <1>2, <3>1
    <3>3. k \in DOMAIN A /\ B[k].base = A[k].base /\ CarvedEnd(A[k]) = b
      BY <1>2, <1>3, <2>1, <2>3, <3>2
    <3> QED
      BY <2>1, <2>3, <3>1, <3>3 DEF Within, E
  <2> QED
    BY <2>2, <2>3
<1>15. Tiled(B, hq)
  <2>1. \A d \in Block(hq) : \E i \in DOMAIN B : Within(B, hq, i, d)
    <3> SUFFICES ASSUME NEW d \in Block(hq) PROVE \E i \in DOMAIN B : Within(B, hq, i, d)
      OBVIOUS
    <3>1. CASE d = b
      BY <1>3, <1>11, <3>1
    <3>2. CASE d # b
      <4>1. d \in Block(hp)
        BY <1>9, <3>2
      <4>2. PICK i \in DOMAIN A : Within(A, hp, i, d)
        BY <1>1, <4>1 DEF Tiled
      <4> QED
        BY <1>13, <4>1, <4>2
    <3> QED
      BY <3>1, <3>2
  <2>2. \A d, e \in Block(hq) : d # e => F(d) <= e \/ F(e) <= d
    <3>1. \A d, e \in Block(hp) : d # e => E(d) <= e \/ E(e) <= d
      BY <1>1 DEF Tiled, E
    <3> QED
      BY <1>6, <1>9, <1>10, <3>1
  <2>3. ASSUME NEW i \in DOMAIN B, NEW d \in Block(hq), Within(B, hq, i, d)
        PROVE  d = B[i].base \/ \E e \in Block(hq) : F(e) = d
    <3>1. CASE d = b
      <4>1. i = k
        BY <1>12, <2>3, <3>1
      <4>2. CASE k \notin DOMAIN A
        BY <1>3, <3>1, <4>1, <4>2
      <4>3. CASE k \in DOMAIN A
        <5>1. PICK e \in Block(hp) : E(e) = CarvedEnd(A[k])
          BY <1>1, <4>3 DEF Tiled, E
        <5>2. F(e) = b /\ e \in Block(hq)
          BY <1>3, <1>9, <1>10, <4>3, <5>1
        <5> QED
          BY <3>1, <5>2
      <4> QED
        BY <4>2, <4>3
    <3>2. CASE d # b
      <4>1. d \in Block(hp) /\ i \in DOMAIN A /\ Within(A, hp, i, d)
        BY <1>9, <1>14, <2>3, <3>2
      <4>2. B[i].base = A[i].base
        BY <1>3, <4>1
      <4>3. d = A[i].base \/ \E e \in Block(hp) : E(e) = d
        BY <1>1, <4>1 DEF Tiled, E
      <4> QED
        BY <1>9, <1>10, <4>2, <4>3
    <3> QED
      BY <3>1, <3>2
  <2>4. ASSUME NEW i \in DOMAIN B, NEW d \in Block(hq), Within(B, hq, i, d)
        PROVE  F(d) = CarvedEnd(B[i]) \/ F(d) \in Block(hq)
    <3>1. CASE d = b
      BY <1>3, <1>10, <1>12, <2>4, <3>1
    <3>2. CASE d # b
      <4>1. d \in Block(hp) /\ i \in DOMAIN A /\ Within(A, hp, i, d)
        BY <1>9, <1>14, <2>4, <3>2
      <4>2. E(d) = CarvedEnd(A[i]) \/ E(d) \in Block(hp)
        BY <1>1, <4>1 DEF Tiled, E
      <4>3. CarvedEnd(A[i]) = CarvedEnd(B[i]) \/ CarvedEnd(A[i]) = b
        BY <1>3, <4>1
      <4> QED
        BY <1>9, <1>10, <4>1, <4>2, <4>3
    <3> QED
      BY <3>1, <3>2
  <2>5. ASSUME NEW i \in DOMAIN B
        PROVE  /\ B[i].base \in Block(hq)
               /\ \E d \in Block(hq) : Within(B, hq, i, d) /\ F(d) = CarvedEnd(B[i])
    <3>1. CASE i = k
      <4>1. k \in DOMAIN A => B[k].base \in Block(hp)
        BY <1>1, <1>3 DEF Tiled
      <4> QED
        BY <1>3, <1>9, <1>10, <1>11, <3>1, <4>1
    <3>2. CASE i # k
      <4>1. i \in DOMAIN A /\ B[i] = A[i]
        BY <1>3, <3>2
      <4>2. A[i].base \in Block(hp)
        BY <1>1, <4>1 DEF Tiled
      <4>3. PICK d \in Block(hp) : Within(A, hp, i, d) /\ E(d) = CarvedEnd(A[i])
        BY <1>1, <4>1 DEF Tiled, E
      <4> QED
        BY <1>9, <1>10, <1>13, <4>1, <4>2, <4>3
    <3> QED
      BY <3>1, <3>2
  <2> QED
    BY <2>1, <2>2, <2>3, <2>4, <2>5 DEF Tiled, F
<1>16. InSync(hq)
  <2>1. \A d \in Block(hp) : E(d) - 16 \in DOMAIN hp.ftr /\ hp.ftr[E(d) - 16] = hp.size[d]
    <3>1. \A d \in Block(hp) : FooterAt(d, hp.size[d]) = E(d) - 16
      BY <1>2 DEF FooterAt, HeaderSize
    <3> QED
      BY <3>1 DEF InSync
  <2>2. ASSUME NEW d \in Block(hp)
        PROVE  FooterAt(d, hq.size[d]) \in DOMAIN hq.ftr /\ hq.ftr[FooterAt(d, hq.size[d])] = hq.size[d]
    <3>1. FooterAt(d, hq.size[d]) = E(d) - 16
      BY <1>2, <1>9 DEF FooterAt, HeaderSize
    <3>2. E(d) # end
      BY <1>2, <1>4, <1>6
    <3>3. E(d) - 16 # b + 16 + n
      BY <1>2, <1>4, <3>2 DEF end
    <3> QED
      BY <1>9, <2>1, <3>1, <3>3
  <2>3. FooterAt(b, hq.size[b]) = b + 16 + n
    BY <1>9 DEF FooterAt, HeaderSize
  <2> QED
    BY <1>9, <2>2, <2>3 DEF InSync
<1>17. ASSUME NEW x, NEW y, Pair(B, hq, x, y), x # b, y # b PROVE Pair(A, hp, x, y)
  <2>1. x \in Block(hp) /\ y \in Block(hp) /\ E(x) = y
    BY <1>9, <1>10, <1>17 DEF Pair, F
  <2>2. PICK i \in DOMAIN B : Within(B, hq, i, x) /\ Within(B, hq, i, y)
    BY <1>17 DEF Pair
  <2> QED
    BY <1>14, <2>1, <2>2 DEF Pair, E
<1>18. Shape(B, hq)
  BY <1>3, <1>9, <1>15 DEF Shape
<1> QED
  BY <1>7, <1>8, <1>16, <1>17, <1>18

\* A block carved from an arena, and handed out.
LEMMA CarveGood ==
  ASSUME NEW A, NEW hp, Good(A, hp),
         NEW B, NEW k, NEW b \in Nat, NEW n \in Nat, Carved(A, B, k, b, n),
         n >= 16, IsAligned(n), IsAligned(b),
         \A i \in DOMAIN B : IsAligned(B[i].base) /\ IsAligned(B[i].used),
         NEW hq, Placed(hp, b, n, hp.free \ {b}, hq)
  PROVE  /\ Good(B, hq)
         /\ b \notin Block(hp)
         /\ Allocated(hq) = Allocated(hp) \cup {b}
         /\ hq.size[b] = n
         /\ Keeps(hp, hq, Allocated(hp))
<1>1. /\ Sound(A, hp) /\ Shape(A, hp) /\ InSync(hp) /\ hp.free \subseteq Block(hp)
      /\ \A x, y : ~FreePair(A, hp, x, y)
  BY CoalescedPairs DEF Good, Sound, Shape, HeapType
<1>2. /\ b \notin Block(hp) /\ PlacedFields(hp, b, n, hp.free, hq)
      /\ Shape(B, hq) /\ InSync(hq)
      /\ \A x, y : Pair(B, hq, x, y) /\ x # b /\ y # b => Pair(A, hp, x, y)
  BY <1>1, CarveShape
<1>3. /\ Block(hq) = Block(hp) \cup {b} /\ hq.size[b] = n
      /\ \A d \in Block(hp) : hq.size[d] = hp.size[d]
      /\ hq.fl = hp.fl /\ hq.free = hp.free
  BY <1>2 DEF PlacedFields
<1>4. AllAligned(B, hq) /\ Roomy(hq)
  BY <1>1, <1>3 DEF Sound, AllAligned, Roomy
<1>5. Coalesced(B, hq)
  <2>1. \A x, y : ~FreePair(B, hq, x, y)
    BY <1>1, <1>2, <1>3 DEF FreePair
  <2> QED
    BY <1>2, <2>1, CoalescedPairs
<1>6. Listed(hq)
  <2>1. ToSet(hq.fl) = hq.free /\ IsInjective(hq.fl)
    BY <1>3 DEF Good, Listed
  <2>2. \A d \in hq.free : hq.size[d] >= LinksSize
    BY <1>1, <1>3 DEF Good, Listed
  <2> QED
    BY <2>1, <2>2 DEF Listed
<1>7. Allocated(hq) = Allocated(hp) \cup {b} /\ Keeps(hp, hq, Allocated(hp))
  BY <1>1, <1>2, <1>3 DEF Allocated, Keeps
<1> QED
  BY <1>2, <1>3, <1>4, <1>5, <1>6, <1>7 DEF Good, Sound
=============================================================================
