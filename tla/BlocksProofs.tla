---------------------------- MODULE BlocksProofs ----------------------------
(***************************************************************************)
(* Lemmas about the helpers of Blocks, for every heap and every sequence   *)
(* of arenas: what each leaves in the fields of the heap, and that each    *)
(* keeps the shape the others rely on.                                     *)
(***************************************************************************)
EXTENDS Blocks, SequenceTheorems, TLAPS

-----------------------------------------------------------------------------
(* Sizes.                                                                  *)

\* A sum that a std::size_t can hold does not wrap around.
LEMMA SizeT ==
  ASSUME NEW n \in 0..SizeMax
  PROVE  size_t(n) = n
BY SizeMaxAssumption DEF size_t

\* align_up rounds up, to a multiple of the alignment, when it has room to.
LEMMA AlignUp ==
  ASSUME NEW n \in Nat, n + 15 <= SizeMax
  PROVE  /\ align_up(n) \in Nat /\ align_up(n) >= n /\ align_up(n) <= n + 15
         /\ IsAligned(align_up(n))
<1>1. size_t(n + 15) = n + 15
  BY SizeMaxAssumption, SizeT
<1>2. align_up(n) = (n + 15) - ((n + 15) % 16)
  BY <1>1 DEF align_up, Alignment
<1> QED
  BY <1>2 DEF IsAligned, Alignment

\* A request that fits an aligned size still fits it rounded up.
LEMMA AlignUpLeast ==
  ASSUME NEW n \in Nat, NEW m \in Nat, IsAligned(m), n <= m, n + 15 <= SizeMax
  PROVE  align_up(n) <= m
<1>1. size_t(n + 15) = n + 15
  BY SizeMaxAssumption, SizeT
<1>2. align_up(n) = (n + 15) - ((n + 15) % 16)
  BY <1>1 DEF align_up, Alignment
<1> QED
  BY <1>2 DEF IsAligned, Alignment

\* os_acquire never returns less than it was asked for, if it has room to
\* round up.
LEMMA RoundUpToPage ==
  ASSUME NEW n \in Nat, n + PageSize - 1 <= SizeMax
  PROVE  round_up_to_page(n) \in Nat /\ round_up_to_page(n) >= n
<1>1. size_t(n + PageSize - 1) = n + PageSize - 1
  BY SizeMaxAssumption, PageSizeAssumption, SizeT
<1>2. round_up_to_page(n) = (n + PageSize - 1) - ((n + PageSize - 1) % PageSize)
  BY <1>1 DEF round_up_to_page
<1> QED
  BY <1>2, PageSizeAssumption

\* Sums and differences of aligned numbers are aligned.
LEMMA AlignedSums ==
  ASSUME NEW m \in Nat, NEW n \in Nat, IsAligned(m), IsAligned(n)
  PROVE  /\ IsAligned(m + n) /\ IsAligned(m + n + 32) /\ IsAligned(m + 16)
         /\ IsAligned(m + 32)
         /\ m - n >= 32 => IsAligned(m - n - 32)
BY DEF IsAligned, Alignment

-----------------------------------------------------------------------------
(* The free list.                                                          *)

\* RemoveAt closes the gap at position i.
LEMMA RemoveAtElements ==
  ASSUME NEW S, NEW s \in Seq(S), NEW i \in 1..Len(s)
  PROVE  /\ RemoveAt(s, i) \in Seq(S)
         /\ Len(RemoveAt(s, i)) = Len(s) - 1
         /\ \A k \in 1..(Len(s) - 1) :
              RemoveAt(s, i)[k] = IF k < i THEN s[k] ELSE s[k + 1]
<1> DEFINE u == SubSeq(s, 1, i - 1)
           v == SubSeq(s, i + 1, Len(s))
<1>1. u \in Seq(S) /\ Len(u) = i - 1 /\ \A k \in 1..(i - 1) : u[k] = s[k]
  OBVIOUS
<1>2. v \in Seq(S) /\ Len(v) = Len(s) - i /\ \A k \in 1..(Len(s) - i) : v[k] = s[k + i]
  OBVIOUS
<1>3. RemoveAt(s, i) = u \o v
  BY DEF RemoveAt
<1> HIDE DEF u, v
<1>4. /\ u \o v \in Seq(S) /\ Len(u \o v) = Len(s) - 1
      /\ \A k \in 1..(Len(s) - 1) :
           (u \o v)[k] = IF k <= i - 1 THEN u[k] ELSE v[k - (i - 1)]
  <2>1. /\ u \o v \in Seq(S) /\ Len(u \o v) = Len(u) + Len(v)
        /\ \A k \in 1..(Len(u) + Len(v)) :
             (u \o v)[k] = IF k <= Len(u) THEN u[k] ELSE v[k - Len(u)]
    BY <1>1, <1>2, ConcatProperties
  <2>2. Len(u) + Len(v) = Len(s) - 1
    BY <1>1, <1>2
  <2> QED
    BY <2>1, <2>2, <1>1
<1>5. ASSUME NEW k \in 1..(Len(s) - 1)
      PROVE  (u \o v)[k] = IF k < i THEN s[k] ELSE s[k + 1]
  <2>1. CASE k < i
    <3>1. k \in 1..(i - 1) /\ k <= i - 1
      BY <2>1
    <3>2. (u \o v)[k] = u[k]
      BY <1>4, <3>1
    <3> QED
      BY <1>1, <3>1, <3>2, <2>1
  <2>2. CASE k >= i
    <3>0. ~(k <= i - 1)
      BY <2>2
    <3>1. (u \o v)[k] = v[k - (i - 1)]
      BY <1>4, <3>0
    <3>2. k - (i - 1) \in 1..(Len(s) - i) /\ (k - (i - 1)) + i = k + 1
      BY <2>2
    <3> QED
      BY <1>2, <3>1, <3>2, <2>2
  <2>3. k < i \/ k >= i
    OBVIOUS
  <2> QED
    BY <2>1, <2>2, <2>3
<1> QED
  BY <1>3, <1>4, <1>5

\* Membership in the list, position by position.
LEMMA Members ==
  ASSUME NEW s \in Seq(Nat)
  PROVE  /\ \A k \in 1..Len(s) : s[k] \in ToSet(s)
         /\ \A x \in ToSet(s) : \E k \in 1..Len(s) : s[k] = x
         /\ IsInjective(s) <=> \A k, m \in 1..Len(s) : s[k] = s[m] => k = m
<1>1. DOMAIN s = 1..Len(s)
  OBVIOUS
<1> QED
  BY <1>1 DEF ToSet, IsInjective

\* Unlinking a member removes it and nothing else.
LEMMA UnlinkMember ==
  ASSUME NEW fl \in Seq(Nat), IsInjective(fl), NEW b \in ToSet(fl)
  PROVE  /\ Unlink(fl, b) \in Seq(Nat)
         /\ IsInjective(Unlink(fl, b))
         /\ ToSet(Unlink(fl, b)) = ToSet(fl) \ {b}
<1> DEFINE i == CHOOSE k \in DOMAIN fl : fl[k] = b
           s == Unlink(fl, b)
<1>1. i \in 1..Len(fl) /\ fl[i] = b
  BY Members
<1>2. s = RemoveAt(fl, i)
  BY DEF Unlink
<1> HIDE DEF i, s
<1>3. /\ s \in Seq(Nat) /\ Len(s) = Len(fl) - 1
      /\ \A k \in 1..(Len(fl) - 1) : s[k] = IF k < i THEN fl[k] ELSE fl[k + 1]
  BY <1>1, <1>2, RemoveAtElements
<1>4. \A k, m \in 1..Len(fl) : fl[k] = fl[m] => k = m
  BY Members
<1> DEFINE At(k) == IF k < i THEN k ELSE k + 1
<1>a. \A k \in 1..Len(s) : At(k) \in 1..Len(fl) /\ At(k) # i /\ s[k] = fl[At(k)]
  BY <1>1, <1>3
<1>b. \A k, m \in 1..Len(s) : At(k) = At(m) => k = m
  BY <1>1, <1>3
<1>5. \A k, m \in 1..Len(s) : s[k] = s[m] => k = m
  <2> HIDE DEF At
  <2> QED
    BY <1>a, <1>b, <1>4
<1>6. ASSUME NEW k \in 1..Len(s) PROVE s[k] \in ToSet(fl) \ {b}
  <2> HIDE DEF At
  <2>1. PICK m \in 1..Len(fl) : s[k] = fl[m] /\ m # i
    BY <1>a
  <2> QED
    BY <2>1, <1>1, <1>4, Members
<1>7. ASSUME NEW k \in 1..Len(fl), k # i PROVE fl[k] \in ToSet(s)
  <2>1. \E m \in 1..Len(s) : s[m] = fl[k]
    <3>1. CASE k < i
      <4>1. k \in 1..Len(s) /\ s[k] = fl[k]
        BY <3>1, <1>1, <1>3
      <4> QED
        BY <4>1
    <3>2. CASE k > i
      <4>1. k - 1 \in 1..Len(s) /\ s[k - 1] = fl[k]
        BY <3>2, <1>1, <1>3
      <4> QED
        BY <4>1
    <3> QED
      BY <3>1, <3>2, <1>1, <1>7
  <2> QED
    BY <2>1, <1>3, Members
<1>8. ToSet(s) = ToSet(fl) \ {b}
  <2>1. ASSUME NEW x \in ToSet(s) PROVE x \in ToSet(fl) \ {b}
    <3>1. PICK k \in 1..Len(s) : s[k] = x
      BY <1>3, Members
    <3> QED
      BY <3>1, <1>6
  <2>2. ASSUME NEW x \in ToSet(fl) \ {b} PROVE x \in ToSet(s)
    BY <1>1, <1>7, Members
  <2> QED
    BY <2>1, <2>2
<1> QED
  BY <1>3, <1>5, <1>8, Members DEF s

\* Inserting a block that is not listed adds it and nothing else.
LEMMA InsertFresh ==
  ASSUME NEW fl \in Seq(Nat), IsInjective(fl), NEW b \in Nat, b \notin ToSet(fl)
  PROVE  /\ Insert(fl, b) \in Seq(Nat)
         /\ IsInjective(Insert(fl, b))
         /\ ToSet(Insert(fl, b)) = ToSet(fl) \cup {b}
<1> DEFINE s == Insert(fl, b)
<1>1. /\ s \in Seq(Nat) /\ Len(s) = Len(fl) + 1
      /\ \A k \in 1..Len(s) : s[k] = IF k = 1 THEN b ELSE fl[k - 1]
  BY DEF Insert, Cons
<1> HIDE DEF s
<1>2. \A k \in 1..Len(fl) : fl[k] # b
  BY Members
<1>3. \A k, m \in 1..Len(fl) : fl[k] = fl[m] => k = m
  BY Members
<1>4. \A k \in 2..Len(s) : k - 1 \in 1..Len(fl) /\ s[k] = fl[k - 1]
  BY <1>1
<1>5. s[1] = b /\ 1 \in 1..Len(s)
  BY <1>1
<1>6. \A k, m \in 1..Len(s) : s[k] = s[m] => k = m
  <2>1. ASSUME NEW k \in 2..Len(s), NEW m \in 2..Len(s), s[k] = s[m] PROVE k = m
    <3>1. k - 1 = m - 1
      BY <1>3, <1>4, <2>1
    <3> QED
      BY <3>1
  <2>2. \A k \in 2..Len(s) : s[k] # s[1]
    BY <1>2, <1>4, <1>5
  <2>3. \A k \in 1..Len(s) : k = 1 \/ k \in 2..Len(s)
    BY <1>1
  <2> QED
    BY <2>1, <2>2, <2>3
<1>7. \A k \in 1..Len(s) : s[k] \in ToSet(fl) \cup {b}
  <2>1. \A k \in 1..Len(s) : k = 1 \/ k \in 2..Len(s)
    BY <1>1
  <2> QED
    BY <2>1, <1>4, <1>5, Members
<1>8. \A k \in 1..Len(fl) : fl[k] \in ToSet(s)
  <2> SUFFICES ASSUME NEW k \in 1..Len(fl) PROVE fl[k] \in ToSet(s)
    OBVIOUS
  <2>1. k + 1 \in 1..Len(s) /\ s[k + 1] = fl[k]
    BY <1>1
  <2> QED
    BY <2>1, <1>1, Members
<1>9. ToSet(s) = ToSet(fl) \cup {b}
  <2>1. ASSUME NEW x \in ToSet(s) PROVE x \in ToSet(fl) \cup {b}
    BY <1>1, <1>7, Members
  <2>2. ASSUME NEW x \in ToSet(fl) PROVE x \in ToSet(s)
    BY <1>8, Members
  <2>3. b \in ToSet(s)
    BY <1>1, <1>5, Members
  <2> QED
    BY <2>1, <2>2, <2>3
<1> QED
  BY <1>1, <1>6, <1>9, Members DEF s

-----------------------------------------------------------------------------
(* Blocks and their neighbours.                                            *)

\* What the neighbour helpers need of arenas and blocks.
Shape(A, hp) == ArenasType(A) /\ HeapType(hp) /\ ArenasApart(A) /\ Tiled(A, hp)

\* A block ends past its header, its payload and its footer.
LEMMA BlockEnds ==
  ASSUME NEW hp, HeapType(hp), NEW b \in Block(hp)
  PROVE  /\ b \in Nat /\ hp.size[b] \in Nat
         /\ next_physical_header(hp, b) = b + 32 + hp.size[b]
         /\ next_physical_header(hp, b) \in Nat
BY DEF HeapType, Block, next_physical_header, FooterAt, HeaderSize, FooterSize

\* The fields of an arena, and where its two ends are.
LEMMA ArenaEnds ==
  ASSUME NEW A, ArenasType(A), NEW i \in DOMAIN A
  PROVE  /\ A[i].base \in Nat /\ A[i].size \in Nat /\ A[i].used \in Nat
         /\ CarvedEnd(A[i]) = A[i].base + A[i].used
         /\ ArenaEnd(A[i]) = A[i].base + A[i].size
<1> DEFINE R == [base : Nat, size : Nat, used : Nat]
<1>1. A[i] \in R
  <2>1. A \in Seq(R)
    BY DEF ArenasType
  <2> HIDE DEF R
  <2> QED
    BY <2>1
<1> QED
  BY <1>1 DEF CarvedEnd, ArenaEnd

\* The carved parts of two arenas share no address.
LEMMA OneArena ==
  ASSUME NEW A, ArenasType(A), ArenasApart(A),
         NEW i \in DOMAIN A, NEW j \in DOMAIN A, NEW x \in Nat,
         A[i].base <= x, x < CarvedEnd(A[i]),
         A[j].base <= x, x < CarvedEnd(A[j])
  PROVE  i = j
<1>1. /\ A[i].base \in Nat /\ A[i].size \in Nat /\ A[i].used \in Nat
      /\ CarvedEnd(A[i]) = A[i].base + A[i].used
      /\ ArenaEnd(A[i]) = A[i].base + A[i].size
  BY ArenaEnds
<1>2. /\ A[j].base \in Nat /\ A[j].size \in Nat /\ A[j].used \in Nat
      /\ CarvedEnd(A[j]) = A[j].base + A[j].used
      /\ ArenaEnd(A[j]) = A[j].base + A[j].size
  BY ArenaEnds
<1>3. A[i].used <= A[i].size /\ A[j].used <= A[j].size
  BY DEF ArenasApart
<1>4. i # j => ArenaEnd(A[i]) <= A[j].base \/ ArenaEnd(A[j]) <= A[i].base
  BY DEF ArenasApart
<1> QED
  BY <1>1, <1>2, <1>3, <1>4

\* arena_owning finds the arena a block lies in.
LEMMA Owner ==
  ASSUME NEW A, NEW hp, Shape(A, hp), NEW b \in Block(hp),
         NEW i \in DOMAIN A, Within(A, hp, i, b)
  PROVE  arena_owning(A, b) = A[i]
<1>1. /\ b \in Nat /\ hp.size[b] \in Nat
      /\ next_physical_header(hp, b) = b + 32 + hp.size[b]
  BY BlockEnds DEF Shape
<1>2. A[i].base <= b /\ next_physical_header(hp, b) <= CarvedEnd(A[i])
  BY DEF Within
<1>3. CarvedEnd(A[i]) \in Nat
  BY ArenaEnds DEF Shape
<1>4. b < CarvedEnd(A[i])
  BY <1>1, <1>2, <1>3
<1>5. Owns(A[i], b)
  BY <1>2, <1>4 DEF Owns
<1>6. \A j \in DOMAIN A : Owns(A[j], b) => j = i
  BY <1>1, <1>2, <1>4, OneArena DEF Owns, Shape
<1> QED
  BY <1>5, <1>6 DEF arena_owning

\* right_neighbor_if_free finds a right neighbour exactly when the block is
\* not the last of its arena, and what it finds is a block of that arena.
LEMMA RightNeighbor ==
  ASSUME NEW A, NEW hp, Shape(A, hp), NEW b \in Block(hp),
         NEW i \in DOMAIN A, Within(A, hp, i, b)
  PROVE  /\ HasRightNeighbor(A, hp, b)
              <=> next_physical_header(hp, b) # CarvedEnd(A[i])
         /\ HasRightNeighbor(A, hp, b)
              => /\ next_physical_header(hp, b) \in Block(hp)
                 /\ Within(A, hp, i, next_physical_header(hp, b))
<1> DEFINE r == next_physical_header(hp, b)
<1>1. b \in Nat /\ hp.size[b] \in Nat /\ r = b + 32 + hp.size[b] /\ r \in Nat
  BY BlockEnds DEF Shape
<1>2. A[i].base <= b /\ r <= CarvedEnd(A[i])
  BY DEF Within
<1>3. A[i].base \in Nat /\ CarvedEnd(A[i]) \in Nat
  BY ArenaEnds DEF Shape
<1>4. arena_owning(A, b) = A[i]
  BY Owner
<1>5. HasRightNeighbor(A, hp, b) <=> r + 16 <= CarvedEnd(A[i])
  BY <1>1, <1>2, <1>3, <1>4 DEF HasRightNeighbor, HeaderSize
<1> HIDE DEF r
<1>6. ASSUME r # CarvedEnd(A[i])
      PROVE  r \in Block(hp) /\ Within(A, hp, i, r) /\ r + 16 <= CarvedEnd(A[i])
  <2>1. r \in Block(hp)
    BY <1>6 DEF r, Shape, Tiled
  <2>2. PICK j \in DOMAIN A : Within(A, hp, j, r)
    BY <2>1 DEF Shape, Tiled
  <2> DEFINE e == next_physical_header(hp, r)
  <2>3. hp.size[r] \in Nat /\ e = r + 32 + hp.size[r] /\ e \in Nat
    BY <2>1, BlockEnds DEF Shape
  <2>4. A[j].base <= r /\ e <= CarvedEnd(A[j])
    BY <2>2 DEF Within
  <2>5. CarvedEnd(A[j]) \in Nat
    BY ArenaEnds DEF Shape
  <2> HIDE DEF e
  <2>6. r < CarvedEnd(A[i]) /\ r < CarvedEnd(A[j]) /\ A[i].base <= r
    BY <1>1, <1>2, <1>3, <1>6, <2>3, <2>4, <2>5
  <2>7. i = j
    BY <1>1, <2>4, <2>6, OneArena DEF Shape
  <2> QED
    BY <1>1, <1>3, <2>1, <2>2, <2>3, <2>4, <2>7
<1>7. r + 16 <= CarvedEnd(A[i]) => r # CarvedEnd(A[i])
  BY <1>1, <1>3
<1> QED
  BY <1>5, <1>6, <1>7 DEF r

\* left_neighbor_if_free finds a left neighbour exactly when the block is not
\* the first of its arena; the footer before it leads to the block that ends
\* there, which is of that arena.
LEMMA LeftNeighborIs ==
  ASSUME NEW A, NEW hp, Shape(A, hp), InSync(hp), NEW b \in Block(hp),
         NEW i \in DOMAIN A, Within(A, hp, i, b)
  PROVE  /\ HasLeftNeighbor(A, hp, b) <=> b # A[i].base
         /\ HasLeftNeighbor(A, hp, b)
              => /\ LeftNeighbor(hp, b) \in Block(hp)
                 /\ next_physical_header(hp, LeftNeighbor(hp, b)) = b
                 /\ Within(A, hp, i, LeftNeighbor(hp, b))
<1> DEFINE l == LeftNeighbor(hp, b)
<1>1. /\ b \in Nat /\ hp.size[b] \in Nat
      /\ next_physical_header(hp, b) = b + 32 + hp.size[b]
  BY BlockEnds DEF Shape
<1>2. A[i].base <= b /\ next_physical_header(hp, b) <= CarvedEnd(A[i])
  BY DEF Within
<1>3. /\ A[i].base \in Nat /\ CarvedEnd(A[i]) \in Nat /\ ArenaEnd(A[i]) \in Nat
      /\ A[i].size \in Nat /\ A[i].used \in Nat
      /\ CarvedEnd(A[i]) = A[i].base + A[i].used
      /\ ArenaEnd(A[i]) = A[i].base + A[i].size
      /\ A[i].used <= A[i].size
  BY ArenaEnds DEF Shape, ArenasApart
<1>4. arena_owning(A, b) = A[i]
  BY Owner
<1>5. HasLeftNeighbor(A, hp, b) <=> b - 16 >= A[i].base /\ l >= A[i].base /\ l < b
  BY <1>4 DEF HasLeftNeighbor, FooterSize
<1> HIDE DEF l
<1>6. ASSUME b # A[i].base
      PROVE  /\ l \in Block(hp) /\ next_physical_header(hp, l) = b
             /\ Within(A, hp, i, l)
             /\ b - 16 >= A[i].base /\ l >= A[i].base /\ l < b
  <2>1. PICK d \in Block(hp) : next_physical_header(hp, d) = b
    BY <1>6 DEF Shape, Tiled
  <2>2. PICK j \in DOMAIN A : Within(A, hp, j, d)
    BY DEF Shape, Tiled
  <2>3. d \in Nat /\ hp.size[d] \in Nat /\ b = d + 32 + hp.size[d]
    BY <2>1, BlockEnds DEF Shape
  <2>4. A[j].base <= d /\ b <= CarvedEnd(A[j])
    BY <2>1, <2>2 DEF Within
  <2>5. /\ A[j].base \in Nat /\ CarvedEnd(A[j]) \in Nat /\ ArenaEnd(A[j]) \in Nat
        /\ CarvedEnd(A[j]) <= ArenaEnd(A[j])
    BY ArenaEnds DEF Shape, ArenasApart
  <2>6. i # j => ArenaEnd(A[i]) <= A[j].base \/ ArenaEnd(A[j]) <= A[i].base
    BY DEF Shape, ArenasApart
  <2>7. i = j
    BY <1>1, <1>2, <1>3, <1>6, <2>3, <2>4, <2>5, <2>6
  <2>8. l = d
    <3>1. /\ FooterAt(d, hp.size[d]) \in DOMAIN hp.ftr
          /\ hp.ftr[FooterAt(d, hp.size[d])] = hp.size[d]
      BY DEF InSync
    <3>2. FooterAt(d, hp.size[d]) = b - 16
      BY <2>3 DEF FooterAt, HeaderSize
    <3> QED
      BY <1>1, <2>3, <3>1, <3>2
         DEF l, LeftNeighbor, header_from_footer, preceding_footer, FooterSize, HeaderSize
  <2> QED
    BY <1>1, <1>3, <2>1, <2>2, <2>3, <2>4, <2>7, <2>8
<1>7. b - 16 >= A[i].base => b # A[i].base
  BY <1>1, <1>3
<1> QED
  BY <1>5, <1>6, <1>7 DEF l

-----------------------------------------------------------------------------
(* The fields each step leaves.                                            *)

\* A store to one field of a heap leaves the other fields as they were.
LEMMA Stores ==
  ASSUME NEW hp, HeapType(hp), NEW y, NEW z
  PROVE  /\ [hp EXCEPT !.free = y] = [size |-> hp.size, free |-> y, ftr |-> hp.ftr, fl |-> hp.fl]
         /\ [hp EXCEPT !.fl = z] = [size |-> hp.size, free |-> hp.free, ftr |-> hp.ftr, fl |-> z]
<1>1. hp = [size |-> hp.size, free |-> hp.free, ftr |-> hp.ftr, fl |-> hp.fl]
  BY DEF HeapType
<1> QED
  BY <1>1

\* set_free() touches the flag bit and nothing else.
LEMMA SetFreeFields ==
  ASSUME NEW hp, HeapType(hp), NEW b \in Block(hp), NEW f \in BOOLEAN
  PROVE  /\ HeapType(set_free(hp, b, f))
         /\ set_free(hp, b, f).size = hp.size
         /\ set_free(hp, b, f).ftr = hp.ftr
         /\ set_free(hp, b, f).fl = hp.fl
         /\ set_free(hp, b, f).free = IF f THEN hp.free \cup {b} ELSE hp.free \ {b}
<1> DEFINE y == IF f THEN hp.free \cup {b} ELSE hp.free \ {b}
<1>1. set_free(hp, b, f) = [size |-> hp.size, free |-> y, ftr |-> hp.ftr, fl |-> hp.fl]
  BY Stores DEF set_free
<1> QED
  BY <1>1 DEF HeapType, Block

\* FreeList::remove() touches the list and nothing else.
LEMMA UnlinkFields ==
  ASSUME NEW hp, HeapType(hp), IsInjective(hp.fl), NEW b \in ToSet(hp.fl)
  PROVE  /\ HeapType(unlink(hp, b))
         /\ unlink(hp, b).size = hp.size
         /\ unlink(hp, b).ftr = hp.ftr
         /\ unlink(hp, b).free = hp.free
         /\ IsInjective(unlink(hp, b).fl)
         /\ ToSet(unlink(hp, b).fl) = ToSet(hp.fl) \ {b}
<1>1. hp.fl \in Seq(Nat)
  BY DEF HeapType
<1>2. /\ Unlink(hp.fl, b) \in Seq(Nat)
      /\ IsInjective(Unlink(hp.fl, b))
      /\ ToSet(Unlink(hp.fl, b)) = ToSet(hp.fl) \ {b}
  BY <1>1, UnlinkMember
<1>3. unlink(hp, b)
        = [size |-> hp.size, free |-> hp.free, ftr |-> hp.ftr, fl |-> Unlink(hp.fl, b)]
  BY Stores DEF unlink
<1> QED
  BY <1>2, <1>3 DEF HeapType, Block

\* FreeList::insert() touches the list and nothing else.
LEMMA InsertFields ==
  ASSUME NEW hp, HeapType(hp), IsInjective(hp.fl), NEW b \in Nat, b \notin ToSet(hp.fl)
  PROVE  /\ HeapType(insert(hp, b))
         /\ insert(hp, b).size = hp.size
         /\ insert(hp, b).ftr = hp.ftr
         /\ insert(hp, b).free = hp.free
         /\ IsInjective(insert(hp, b).fl)
         /\ ToSet(insert(hp, b).fl) = ToSet(hp.fl) \cup {b}
<1>1. hp.fl \in Seq(Nat)
  BY DEF HeapType
<1>2. /\ Insert(hp.fl, b) \in Seq(Nat)
      /\ IsInjective(Insert(hp.fl, b))
      /\ ToSet(Insert(hp.fl, b)) = ToSet(hp.fl) \cup {b}
  BY <1>1, InsertFresh
<1>3. insert(hp, b)
        = [size |-> hp.size, free |-> hp.free, ftr |-> hp.ftr, fl |-> Insert(hp.fl, b)]
  BY Stores DEF insert
<1> QED
  BY <1>2, <1>3 DEF HeapType, Block

\* hq is hp with a header and a footer for n bytes written at b, and some set
\* of flags: what NewBlock leaves, and what shrinking a block leaves.
Placed(hp, b, n, free, hq) ==
  hq = [size |-> Put(hp.size, b, n), free |-> free,
        ftr |-> Put(hp.ftr, FooterAt(b, n), n), fl |-> hp.fl]

PlacedFields(hp, b, n, free, hq) ==
  /\ HeapType(hq)
  /\ Block(hq) = Block(hp) \cup {b}
  /\ hq.size[b] = n
  /\ \A d \in Block(hp) \ {b} : hq.size[d] = hp.size[d]
  /\ DOMAIN hq.ftr = DOMAIN hp.ftr \cup {b + 16 + n}
  /\ hq.ftr[b + 16 + n] = n
  /\ \A a \in DOMAIN hp.ftr \ {b + 16 + n} : hq.ftr[a] = hp.ftr[a]
  /\ hq.fl = hp.fl /\ hq.free = free

\* A BlockHeader constructed at b adds a header, a footer and a flag.
LEMMA NewBlockFields ==
  ASSUME NEW hp, HeapType(hp), NEW b \in Nat, NEW n \in Nat,
         NEW free \in SUBSET (Block(hp) \cup {b}), NEW hq, Placed(hp, b, n, free, hq)
  PROVE  PlacedFields(hp, b, n, free, hq)
<1> DEFINE x == Put(hp.size, b, n)
           z == Put(hp.ftr, b + 16 + n, n)
<1>1. b + 16 + n \in Nat
  OBVIOUS
<1>2. x \in [DOMAIN x -> Nat] /\ DOMAIN x = Block(hp) \cup {b}
  BY DEF HeapType, Block, Put
<1>3. z \in [DOMAIN z -> Nat] /\ DOMAIN z \subseteq Nat
  BY <1>1 DEF HeapType, Put
<1>4. free \subseteq DOMAIN x /\ DOMAIN x \subseteq Nat
  BY <1>2 DEF HeapType, Block
<1>5. hq = [size |-> x, free |-> free, ftr |-> z, fl |-> hp.fl]
  BY DEF Placed, FooterAt, HeaderSize
<1> HIDE DEF x, z
<1>6. HeapType(hq)
  BY <1>2, <1>3, <1>4, <1>5 DEF HeapType, Block
<1>7. /\ Block(hq) = Block(hp) \cup {b}
      /\ hq.size[b] = n
      /\ \A d \in Block(hp) \ {b} : hq.size[d] = hp.size[d]
  BY <1>2, <1>5 DEF x, Put, Block
<1>8. /\ DOMAIN hq.ftr = DOMAIN hp.ftr \cup {b + 16 + n}
      /\ hq.ftr[b + 16 + n] = n
      /\ \A a \in DOMAIN hp.ftr \ {b + 16 + n} : hq.ftr[a] = hp.ftr[a]
  BY <1>5 DEF z, Put
<1> QED
  BY <1>5, <1>6, <1>7, <1>8 DEF PlacedFields

\* set_size() and sync_footer() on the lower of two merged blocks leave the
\* upper header out, and one footer for the two.
LEMMA MergeFields ==
  ASSUME NEW hp, HeapType(hp), NEW l \in Block(hp), NEW r \in Block(hp), l # r
  PROVE  /\ HeapType(Merge(hp, l, r))
         /\ Block(Merge(hp, l, r)) = Block(hp) \ {r}
         /\ Merge(hp, l, r).size[l] = hp.size[l] + 32 + hp.size[r]
         /\ \A b \in Block(hp) \ {l, r} : Merge(hp, l, r).size[b] = hp.size[b]
         /\ Merge(hp, l, r).free = hp.free \ {r}
         /\ Merge(hp, l, r).fl = hp.fl
         /\ DOMAIN Merge(hp, l, r).ftr
              = (DOMAIN hp.ftr \ {FooterAt(l, hp.size[l])})
                  \cup {FooterAt(l, hp.size[l] + 32 + hp.size[r])}
         /\ \A f \in DOMAIN Merge(hp, l, r).ftr :
              Merge(hp, l, r).ftr[f] =
                IF f = FooterAt(l, hp.size[l] + 32 + hp.size[r])
                THEN hp.size[l] + 32 + hp.size[r] ELSE hp.ftr[f]
<1> DEFINE n == hp.size[l] + 32 + hp.size[r]
           g == Restrict(hp.ftr, DOMAIN hp.ftr \ {FooterAt(l, hp.size[l])})
           s == [b \in Block(hp) \ {r} |-> IF b = l THEN n ELSE hp.size[b]]
<1>1. n \in Nat /\ FooterAt(l, n) \in Nat /\ n = combined_payload_size(hp, l, r)
  BY DEF HeapType, Block, FooterAt, HeaderSize, FooterSize, combined_payload_size
<1>2. g \in [DOMAIN g -> Nat] /\ DOMAIN g \subseteq Nat
  BY DEF HeapType, Restrict
<1>3. s \in [DOMAIN s -> Nat] /\ DOMAIN s = Block(hp) \ {r}
  BY <1>1 DEF HeapType, Block
<1> HIDE DEF n, g, s
<1>4. /\ Put(g, FooterAt(l, n), n) \in [DOMAIN Put(g, FooterAt(l, n), n) -> Nat]
      /\ DOMAIN Put(g, FooterAt(l, n), n) \subseteq Nat
  BY <1>1, <1>2 DEF Put
<1>5. Merge(hp, l, r) = [size |-> s, free |-> hp.free \ {r},
                         ftr |-> Put(g, FooterAt(l, n), n), fl |-> hp.fl]
  <2> DEFINE c == combined_payload_size(hp, l, r)
             x == [b \in Block(hp) \ {r} |-> IF b = l THEN c ELSE hp.size[b]]
             z == Put(Restrict(hp.ftr, DOMAIN hp.ftr \ {FooterAt(l, hp.size[l])}),
                      FooterAt(l, c), c)
  <2>1. Merge(hp, l, r) = [size |-> x, free |-> hp.free \ {r}, ftr |-> z, fl |-> hp.fl]
    BY DEF Merge
  <2>2. x = s /\ z = Put(g, FooterAt(l, n), n)
    BY <1>1 DEF s, g
  <2> QED
    BY <2>1, <2>2
<1>6. HeapType(Merge(hp, l, r))
  BY <1>3, <1>4, <1>5 DEF HeapType, Block
<1>7. Block(Merge(hp, l, r)) = Block(hp) \ {r}
  BY <1>3, <1>5 DEF Block
<1>8. /\ Merge(hp, l, r).size[l] = n
      /\ \A b \in Block(hp) \ {l, r} : Merge(hp, l, r).size[b] = hp.size[b]
  BY <1>5 DEF s
<1>9. /\ DOMAIN Merge(hp, l, r).ftr
            = (DOMAIN hp.ftr \ {FooterAt(l, hp.size[l])}) \cup {FooterAt(l, n)}
      /\ \A f \in DOMAIN Merge(hp, l, r).ftr :
            Merge(hp, l, r).ftr[f] = IF f = FooterAt(l, n) THEN n ELSE hp.ftr[f]
  BY <1>5 DEF g, Put, Restrict
<1>10. Merge(hp, l, r).free = hp.free \ {r} /\ Merge(hp, l, r).fl = hp.fl
  BY <1>5
<1> QED
  BY <1>6, <1>7, <1>8, <1>9, <1>10, Zenon DEF n

-----------------------------------------------------------------------------
(* Every step keeps the shape of the heap and its footers in sync.         *)

\* Flags and the free list are no part of the shape.
LEMMA SameShape ==
  ASSUME NEW A, NEW hp, Shape(A, hp), InSync(hp),
         NEW hq, HeapType(hq), hq.size = hp.size, hq.ftr = hp.ftr
  PROVE  /\ Shape(A, hq) /\ InSync(hq) /\ Block(hq) = Block(hp)
         /\ \A b : next_physical_header(hq, b) = next_physical_header(hp, b)
         /\ \A i, b : Within(A, hq, i, b) <=> Within(A, hp, i, b)
<1>1. /\ Block(hq) = Block(hp)
      /\ \A b : next_physical_header(hq, b) = next_physical_header(hp, b)
  BY DEF Block, next_physical_header
<1>2. \A i, b : Within(A, hq, i, b) <=> Within(A, hp, i, b)
  BY <1>1 DEF Within
<1>3. Tiled(A, hq)
  BY <1>1, <1>2 DEF Shape, Tiled
<1>4. InSync(hq)
  BY <1>1 DEF InSync
<1> QED
  BY <1>1, <1>2, <1>3, <1>4 DEF Shape

\* hq is hp after l has swallowed its right neighbour r.
Merged(hp, l, r, hq) ==
  /\ Block(hq) = Block(hp) \ {r}
  /\ hq.size[l] = hp.size[l] + 32 + hp.size[r]
  /\ \A b \in Block(hq) \ {l} : hq.size[b] = hp.size[b]
  /\ next_physical_header(hq, l) = next_physical_header(hp, r)
  /\ \A b \in Block(hq) \ {l} : next_physical_header(hq, b) = next_physical_header(hp, b)
  /\ hq.free = hp.free \ {r} /\ hq.fl = hp.fl

\* Merging two neighbours of one arena.
LEMMA MergeShape ==
  ASSUME NEW A, NEW hp, Shape(A, hp), InSync(hp),
         NEW l \in Block(hp), NEW r \in Block(hp), next_physical_header(hp, l) = r,
         NEW i \in DOMAIN A, Within(A, hp, i, l), Within(A, hp, i, r)
  PROVE  /\ Shape(A, Merge(hp, l, r)) /\ InSync(Merge(hp, l, r))
         /\ Within(A, Merge(hp, l, r), i, l)
         /\ Merged(hp, l, r, Merge(hp, l, r))
<1> DEFINE n == hp.size[l] + 32 + hp.size[r]
           hq == Merge(hp, l, r)
           E(b) == next_physical_header(hp, b)
           F(b) == next_physical_header(hq, b)
<1>1. HeapType(hp) /\ ArenasType(A) /\ ArenasApart(A) /\ Tiled(A, hp)
  BY DEF Shape
<1>2. \A b \in Block(hp) : b \in Nat /\ hp.size[b] \in Nat /\ E(b) = b + 32 + hp.size[b]
  BY <1>1, BlockEnds
<1>3. l # r /\ r = l + 32 + hp.size[l] /\ E(l) = r
  BY <1>2
<1>4. /\ HeapType(hq)
      /\ Block(hq) = Block(hp) \ {r}
      /\ hq.size[l] = n
      /\ \A b \in Block(hp) \ {l, r} : hq.size[b] = hp.size[b]
      /\ hq.free = hp.free \ {r} /\ hq.fl = hp.fl
      /\ DOMAIN hq.ftr = (DOMAIN hp.ftr \ {FooterAt(l, hp.size[l])}) \cup {FooterAt(l, n)}
      /\ \A f \in DOMAIN hq.ftr : hq.ftr[f] = IF f = FooterAt(l, n) THEN n ELSE hp.ftr[f]
  <2>1. HeapType(hp) /\ l # r
    BY <1>1, <1>3
  <2> QED
    BY <2>1, MergeFields, SMTT(30)
<1> HIDE DEF hq
<1>5. /\ Block(hq) = Block(hp) \ {r}
      /\ hq.size[l] = n /\ \A b \in Block(hq) \ {l} : hq.size[b] = hp.size[b]
  BY <1>3, <1>4
<1>6. \A b \in Block(hq) : F(b) = b + 32 + hq.size[b]
  BY <1>4, BlockEnds
<1>7. F(l) = E(r) /\ \A b \in Block(hq) \ {l} : F(b) = E(b)
  <2> HIDE DEF E, F
  <2>1. F(l) = l + 32 + n
    BY <1>3, <1>5, <1>6
  <2>2. E(r) = (l + 32 + hp.size[l]) + 32 + hp.size[r]
    BY <1>2, <1>3
  <2>3. F(l) = E(r)
    BY <1>2, <2>1, <2>2
  <2>4. \A b \in Block(hq) \ {l} : F(b) = E(b)
    BY <1>2, <1>5, <1>6
  <2> QED
    BY <2>3, <2>4
<1> HIDE DEF n
<1>8. \A b, d \in Block(hp) : b # d => E(b) <= d \/ E(d) <= b
  BY <1>1 DEF Tiled
<1>9. \A b \in Block(hp) : E(b) \in Nat
  BY <1>1, BlockEnds
<1> HIDE DEF E, F
<1>10. \A j \in DOMAIN A, b \in Block(hp) \ {l, r} : Within(A, hq, j, b) <=> Within(A, hp, j, b)
  BY <1>5, <1>7 DEF Within, E, F
<1>11. \A j \in DOMAIN A : Within(A, hq, j, l) <=> A[j].base <= l /\ E(r) <= CarvedEnd(A[j])
  BY <1>7 DEF Within, E, F
<1>12. Within(A, hq, i, l)
  BY <1>11 DEF Within, E
<1>13. \A j \in DOMAIN A : Within(A, hq, j, l) => j = i
  <2> SUFFICES ASSUME NEW j \in DOMAIN A, Within(A, hq, j, l) PROVE j = i
    OBVIOUS
  <2>1. CarvedEnd(A[i]) \in Nat /\ CarvedEnd(A[j]) \in Nat
    BY <1>1, ArenaEnds
  <2>2. A[i].base <= l /\ E(r) <= CarvedEnd(A[i]) /\ A[j].base <= l /\ E(r) <= CarvedEnd(A[j])
    BY <1>11, <1>12
  <2>3. l \in Nat /\ l < E(r) /\ E(r) \in Nat
    <3>1. l \in Nat /\ r \in Nat /\ hp.size[l] \in Nat /\ hp.size[r] \in Nat
      BY <1>2
    <3> QED
      BY <3>1, <1>2, <1>3, <1>9
  <2>4. l < CarvedEnd(A[i]) /\ l < CarvedEnd(A[j])
    BY <2>1, <2>2, <2>3
  <2> QED
    BY <1>1, <2>2, <2>3, <2>4, OneArena
\* The block that ended at l, or at r, and the block after r.
<1>14. \A b \in Block(hp) : E(b) = r => b = l
  <2> SUFFICES ASSUME NEW b \in Block(hp), E(b) = r, b # l PROVE FALSE
    OBVIOUS
  <2>1. E(b) <= l \/ E(l) <= b
    BY <1>8
  <2>2. l < r /\ l \in Nat /\ r \in Nat /\ b \in Nat
    <3>1. l \in Nat /\ hp.size[l] \in Nat
      BY <1>2
    <3> QED
      BY <3>1, <1>2, <1>3
  <2>3. b < E(b)
    <3>1. b \in Nat /\ hp.size[b] \in Nat /\ E(b) = b + 32 + hp.size[b]
      BY <1>2
    <3> QED
      BY <3>1
  <2> QED
    BY <1>3, <2>1, <2>2, <2>3
<1>15. r # A[i].base
  <2>1. A[i].base <= l /\ A[i].base \in Nat /\ l \in Nat /\ hp.size[l] \in Nat
    BY <1>1, <1>2, ArenaEnds DEF Within
  <2> QED
    BY <1>3, <2>1
<1>16. Tiled(A, hq)
  <2>1. \A b \in Block(hq) : \E j \in DOMAIN A : Within(A, hq, j, b)
    <3> SUFFICES ASSUME NEW b \in Block(hq) PROVE \E j \in DOMAIN A : Within(A, hq, j, b)
      OBVIOUS
    <3>1. CASE b = l
      BY <1>12, <3>1
    <3>2. CASE b # l
      BY <1>1, <1>5, <1>10, <3>2 DEF Tiled
    <3> QED
      BY <3>1, <3>2
  <2>2. \A b, d \in Block(hq) : b # d => F(b) <= d \/ F(d) <= b
    <3>1. \A d \in Block(hq) \ {l} : E(r) <= d \/ E(d) <= l
      <4> SUFFICES ASSUME NEW d \in Block(hq) \ {l} PROVE E(r) <= d \/ E(d) <= l
        OBVIOUS
      <4>1. d \in Block(hp) /\ d # l /\ d # r
        BY <1>5
      <4>2. E(r) <= d \/ E(d) <= r
        BY <1>8, <4>1
      <4>3. r <= d \/ E(d) <= l
        BY <1>8, <4>1 DEF E
      <4> QED
        BY <1>2, <1>3, <1>9, <4>1, <4>2, <4>3 DEF E
    <3>2. \A b, d \in Block(hq) \ {l} : b # d => E(b) <= d \/ E(d) <= b
      BY <1>5, <1>8
    <3> QED
      BY <1>5, <1>7, <3>1, <3>2
  <2>3. ASSUME NEW j \in DOMAIN A, NEW b \in Block(hq), Within(A, hq, j, b)
        PROVE  b = A[j].base \/ \E d \in Block(hq) : F(d) = b
    <3>1. Within(A, hp, j, b)
      BY <1>10, <1>13, <1>5, <2>3
    <3>2. CASE b = A[j].base
      BY <3>2
    <3>3. CASE b # A[j].base
      <4>1. PICK d \in Block(hp) : E(d) = b
        BY <1>1, <1>5, <3>1, <3>3 DEF Tiled, E
      <4>2. CASE d = r
        BY <1>3, <1>5, <1>7, <4>1, <4>2
      <4>3. CASE d # r
        <5>1. d # l
          BY <1>3, <1>5, <4>1 DEF E
        <5> QED
          BY <1>5, <1>7, <4>1, <4>3, <5>1
      <4> QED
        BY <4>2, <4>3
    <3> QED
      BY <3>2, <3>3
  <2>4. ASSUME NEW j \in DOMAIN A, NEW b \in Block(hq), Within(A, hq, j, b)
        PROVE  F(b) = CarvedEnd(A[j]) \/ F(b) \in Block(hq)
    <3>1. CASE b = l
      <4>1. E(r) = CarvedEnd(A[i]) \/ E(r) \in Block(hp)
        BY <1>1 DEF Tiled, E
      <4>2. E(r) # r
        BY <1>2, <1>3 DEF E
      <4> QED
        BY <1>5, <1>7, <1>13, <2>4, <3>1, <4>1, <4>2
    <3>2. CASE b # l
      <4>1. Within(A, hp, j, b) /\ b \in Block(hp) /\ b # r
        BY <1>5, <1>10, <2>4, <3>2
      <4>2. E(b) = CarvedEnd(A[j]) \/ E(b) \in Block(hp)
        BY <1>1, <4>1 DEF Tiled, E
      <4>3. E(b) # r
        BY <1>14, <3>2, <4>1
      <4> QED
        BY <1>5, <1>7, <3>2, <4>2, <4>3
    <3> QED
      BY <3>1, <3>2
  <2>5. ASSUME NEW j \in DOMAIN A
        PROVE  /\ A[j].base \in Block(hq)
               /\ \E b \in Block(hq) : Within(A, hq, j, b) /\ F(b) = CarvedEnd(A[j])
    <3>1. A[j].base \in Block(hp)
      BY <1>1 DEF Tiled
    <3>2. A[j].base # r
      <4> SUFFICES ASSUME A[j].base = r PROVE FALSE
        OBVIOUS
      <4>1. PICK b \in Block(hp) : Within(A, hp, j, b) /\ E(b) = CarvedEnd(A[j])
        BY <1>1 DEF Tiled, E
      <4>2. r < CarvedEnd(A[j])
        BY <1>1, <1>2, <4>1, ArenaEnds DEF Within, E
      <4>3. A[i].base <= r /\ r < CarvedEnd(A[i])
        BY <1>1, <1>2, ArenaEnds DEF Within, E
      <4>4. i = j
        BY <1>1, <1>2, <4>2, <4>3, OneArena
      <4> QED
        BY <1>15, <4>4
    <3>3. PICK b \in Block(hp) : Within(A, hp, j, b) /\ E(b) = CarvedEnd(A[j])
      BY <1>1 DEF Tiled, E
    <3>4. CASE b = r
      <4>1. A[j].base <= r /\ r < CarvedEnd(A[j]) /\ A[i].base <= r /\ r < CarvedEnd(A[i])
        BY <1>1, <1>2, <3>3, <3>4, ArenaEnds DEF Within, E
      <4>2. j = i
        BY <1>1, <1>2, <4>1, OneArena
      <4> QED
        BY <1>3, <1>5, <1>7, <1>12, <3>1, <3>2, <3>3, <3>4, <4>2
    <3>5. CASE b # r
      <4>1. b # l
        <5> SUFFICES ASSUME b = l PROVE FALSE
          OBVIOUS
        <5>1. r = CarvedEnd(A[j])
          BY <3>3 DEF E
        <5>2. A[i].base <= l /\ l < CarvedEnd(A[i]) /\ A[j].base <= l /\ l < CarvedEnd(A[j])
          <6>1. A[i].base <= l /\ E(l) <= CarvedEnd(A[i]) /\ A[j].base <= l /\ E(l) <= CarvedEnd(A[j])
            BY <3>3 DEF Within, E
          <6>2. l \in Nat /\ hp.size[l] \in Nat /\ E(l) = l + 32 + hp.size[l]
            BY <1>2
          <6>3. CarvedEnd(A[i]) \in Nat /\ CarvedEnd(A[j]) \in Nat
            BY <1>1, ArenaEnds
          <6> QED
            BY <6>1, <6>2, <6>3
        <5>3. i = j
          BY <1>1, <1>2, <5>2, OneArena
        <5>4. r < CarvedEnd(A[i])
          BY <1>1, <1>2, ArenaEnds DEF Within, E
        <5> QED
          BY <1>1, <1>2, <5>1, <5>3, <5>4, ArenaEnds
      <4> QED
        BY <1>5, <1>7, <1>10, <3>1, <3>2, <3>3, <3>5, <4>1
    <3> QED
      BY <3>4, <3>5
  <2> QED
    BY <2>1, <2>2, <2>3, <2>4, <2>5 DEF Tiled, F
<1>17. InSync(hq)
  <2>1. \A b \in Block(hp) : /\ FooterAt(b, hp.size[b]) = E(b) - 16
                             /\ E(b) - 16 \in DOMAIN hp.ftr
                             /\ hp.ftr[E(b) - 16] = hp.size[b]
    BY <1>2 DEF InSync, FooterAt, HeaderSize, E
  <2>2. FooterAt(l, n) = E(r) - 16 /\ FooterAt(l, hp.size[l]) = r - 16
    <3>1. l \in Nat /\ r \in Nat /\ hp.size[l] \in Nat /\ hp.size[r] \in Nat
      BY <1>2
    <3> QED
      BY <3>1, <1>2, <1>3 DEF FooterAt, HeaderSize, n
  <2>3. /\ DOMAIN hq.ftr = (DOMAIN hp.ftr \ {r - 16}) \cup {E(r) - 16}
        /\ \A f \in DOMAIN hq.ftr : hq.ftr[f] = IF f = E(r) - 16 THEN n ELSE hp.ftr[f]
    BY <1>4, <2>2
  <2>4. ASSUME NEW b \in Block(hq), b # l
        PROVE  E(b) - 16 \in DOMAIN hq.ftr /\ hq.ftr[E(b) - 16] = hq.size[b]
    <3>1. b \in Block(hp) /\ b # r /\ b # l
      BY <1>5, <2>4
    <3>2. E(b) # r
      BY <1>14, <3>1
    <3>3. E(b) # E(r)
      BY <1>2, <1>8, <1>9, <3>1 DEF E
    <3>4. E(b) - 16 # r - 16 /\ E(b) - 16 # E(r) - 16
      BY <1>2, <1>9, <3>1, <3>2, <3>3
    <3> QED
      BY <1>5, <2>1, <2>3, <2>4, <3>1, <3>4
  <2>5. E(r) - 16 \in DOMAIN hq.ftr /\ hq.ftr[E(r) - 16] = hq.size[l]
    BY <1>5, <2>3
  <2>6. \A b \in Block(hq) : FooterAt(b, hq.size[b]) = F(b) - 16
    <3>1. \A b \in Block(hq) : b \in Nat /\ hq.size[b] \in Nat
      BY <1>4, BlockEnds
    <3> QED
      BY <3>1, <1>6 DEF FooterAt, HeaderSize
  <2> QED
    BY <1>5, <1>7, <2>4, <2>5, <2>6 DEF InSync
<1> QED
  <2>1. Merged(hp, l, r, hq)
    BY <1>4, <1>5, <1>7 DEF Merged, n, E, F
  <2>2. Shape(A, hq)
    BY <1>1, <1>4, <1>16 DEF Shape
  <2> QED
    BY <1>12, <1>17, <2>1, <2>2 DEF hq

\* A remainder too small to be a block stays with the block.
LEMMA NoSplit ==
  ASSUME NEW hp, HeapType(hp), NEW b \in Block(hp), NEW n \in Nat, hp.size[b] < n + 48
  PROVE  maybe_split(hp, b, n) = hp
<1>1. hp.size[b] \in Nat
  BY BlockEnds
<1>2. hp.size[b] - n < kMinBlockSize
  BY <1>1 DEF kMinBlockSize, HeaderSize, LinksSize, FooterSize
<1> QED
  BY <1>2 DEF maybe_split

\* The fields maybe_split leaves when it splits: r is the remainder.
SplitFieldsOf(hp, b, n, hq) ==
  LET r == b + 32 + n
      m == hp.size[b] - n - 32
  IN  /\ HeapType(hq)
      /\ Block(hq) = Block(hp) \cup {r}
      /\ hq.size[b] = n /\ hq.size[r] = m
      /\ \A d \in Block(hp) \ {b} : hq.size[d] = hp.size[d]
      /\ hq.free = hp.free \cup {r}
      /\ IsInjective(hq.fl) /\ ToSet(hq.fl) = ToSet(hp.fl) \cup {r}
      /\ DOMAIN hq.ftr = DOMAIN hp.ftr \cup {r - 16, r + 16 + m}
      /\ hq.ftr[r - 16] = n /\ hq.ftr[r + 16 + m] = m
      /\ \A f \in DOMAIN hp.ftr \ {r - 16, r + 16 + m} : hq.ftr[f] = hp.ftr[f]

\* maybe_split() either leaves the heap as it is or cuts the block in two and
\* lists the second part.
LEMMA SplitFields ==
  ASSUME NEW hp, HeapType(hp), IsInjective(hp.fl), NEW b \in Block(hp), NEW n \in Nat,
         hp.size[b] >= n + 48,
         b + 32 + n \notin Block(hp), b + 32 + n \notin ToSet(hp.fl)
  PROVE  SplitFieldsOf(hp, b, n, maybe_split(hp, b, n))
<1> DEFINE r == b + 32 + n
           m == hp.size[b] - n - 32
           shrunk == [size |-> Put(hp.size, b, n), free |-> hp.free,
                      ftr |-> Put(hp.ftr, FooterAt(b, n), n), fl |-> hp.fl]
           placed == NewBlock(shrunk, r, m, TRUE)
           hq == maybe_split(hp, b, n)
<1>1. b \in Nat /\ hp.size[b] \in Nat /\ r \in Nat /\ m \in Nat
  BY BlockEnds
<1>2. FooterAt(b, n) = r - 16 /\ r - 16 \in Nat /\ FooterAt(r, m) = r + 16 + m
  BY <1>1 DEF FooterAt, HeaderSize
<1>3. /\ HeapType(shrunk) /\ Block(shrunk) = Block(hp)
      /\ shrunk.size[b] = n
      /\ \A d \in Block(hp) \ {b} : shrunk.size[d] = hp.size[d]
      /\ DOMAIN shrunk.ftr = DOMAIN hp.ftr \cup {r - 16}
      /\ shrunk.ftr[r - 16] = n
      /\ \A f \in DOMAIN hp.ftr \ {r - 16} : shrunk.ftr[f] = hp.ftr[f]
      /\ shrunk.fl = hp.fl /\ shrunk.free = hp.free
  <2> DEFINE g == hp.free
  <2>1. g \in SUBSET (Block(hp) \cup {b})
    BY DEF HeapType
  <2>2. b + 16 + n = r - 16 /\ Block(hp) \cup {b} = Block(hp)
    BY <1>1
  <2>3. Placed(hp, b, n, g, shrunk)
    BY DEF Placed
  <2> HIDE DEF r, shrunk, g
  <2>4. PlacedFields(hp, b, n, g, shrunk)
    BY <1>1, <2>1, <2>3, NewBlockFields
  <2> QED
    BY <2>2, <2>4 DEF g, PlacedFields
<1>4. hq = insert(placed, r)
  <2>1. ~(hp.size[b] - n < kMinBlockSize)
    BY <1>1 DEF kMinBlockSize, HeaderSize, LinksSize, FooterSize
  <2>2. next_physical_header(shrunk, b) = r
    <3>1. shrunk.size[b] = n
      BY <1>3
    <3> HIDE DEF shrunk
    <3> QED
      BY <1>1, <3>1 DEF next_physical_header, FooterAt, HeaderSize, FooterSize
  <2>3. hp.size[b] - n - HeaderSize - FooterSize = m
    BY <1>1 DEF HeaderSize, FooterSize
  <2> QED
    BY <2>1, <2>2, <2>3 DEF maybe_split
<1> HIDE DEF shrunk, hq, m, r
<1>5. /\ HeapType(placed)
      /\ Block(placed) = Block(shrunk) \cup {r}
      /\ placed.size[r] = m
      /\ \A d \in Block(shrunk) \ {r} : placed.size[d] = shrunk.size[d]
      /\ DOMAIN placed.ftr = DOMAIN shrunk.ftr \cup {r + 16 + m}
      /\ placed.ftr[r + 16 + m] = m
      /\ \A a \in DOMAIN shrunk.ftr \ {r + 16 + m} : placed.ftr[a] = shrunk.ftr[a]
      /\ placed.fl = shrunk.fl /\ placed.free = shrunk.free \cup {r}
  <2> DEFINE g == shrunk.free \cup {r}
  <2>1. g \in SUBSET (Block(shrunk) \cup {r})
    BY <1>3 DEF HeapType
  <2>2. Placed(shrunk, r, m, g, placed)
    BY DEF NewBlock, Placed
  <2> HIDE DEF placed, g
  <2>3. PlacedFields(shrunk, r, m, g, placed)
    BY <1>1, <1>3, <2>1, <2>2, NewBlockFields
  <2> QED
    BY <2>3 DEF g, PlacedFields
<1> HIDE DEF placed
<1>6. r \notin Block(hp) /\ r \notin ToSet(hp.fl)
  BY DEF r
<1>7. /\ HeapType(hq) /\ hq.size = placed.size /\ hq.ftr = placed.ftr
      /\ hq.free = placed.free
      /\ IsInjective(hq.fl) /\ ToSet(hq.fl) = ToSet(hp.fl) \cup {r}
  <2>1. HeapType(placed) /\ IsInjective(placed.fl) /\ r \in Nat /\ r \notin ToSet(placed.fl)
    BY <1>1, <1>3, <1>5, <1>6
  <2>2. /\ HeapType(insert(placed, r))
        /\ insert(placed, r).size = placed.size
        /\ insert(placed, r).ftr = placed.ftr
        /\ insert(placed, r).free = placed.free
        /\ IsInjective(insert(placed, r).fl)
        /\ ToSet(insert(placed, r).fl) = ToSet(placed.fl) \cup {r}
    BY <2>1, InsertFields
  <2> QED
    BY <1>3, <1>4, <1>5, <2>2
<1>8. r - 16 # r + 16 + m
  BY <1>1
<1>9. /\ Block(hq) = Block(hp) \cup {r}
      /\ hq.size[r] = m /\ hq.size[b] = n
      /\ \A d \in Block(hp) \ {b} : hq.size[d] = hp.size[d]
  BY <1>3, <1>5, <1>6, <1>7 DEF Block
<1>10. /\ DOMAIN hq.ftr = DOMAIN hp.ftr \cup {r - 16, r + 16 + m}
       /\ hq.ftr[r - 16] = n /\ hq.ftr[r + 16 + m] = m
       /\ \A f \in DOMAIN hp.ftr \ {r - 16, r + 16 + m} : hq.ftr[f] = hp.ftr[f]
  BY <1>3, <1>5, <1>7, <1>8
<1>11. hq.free = hp.free \cup {r}
  BY <1>3, <1>5, <1>7
<1> QED
  BY <1>7, <1>9, <1>10, <1>11 DEF SplitFieldsOf, hq, r, m

\* hq is hp after b has been cut down to n bytes, the rest being a free block.
Split(hp, b, n, hq) ==
  LET r == b + 32 + n
  IN  /\ r \in Nat /\ r \notin Block(hp)
      /\ Block(hq) = Block(hp) \cup {r}
      /\ hq.size[b] = n /\ hq.size[r] = hp.size[b] - n - 32
      /\ \A d \in Block(hp) \ {b} : hq.size[d] = hp.size[d]
      /\ next_physical_header(hq, b) = r
      /\ next_physical_header(hq, r) = next_physical_header(hp, b)
      /\ \A d \in Block(hp) \ {b} : next_physical_header(hq, d) = next_physical_header(hp, d)
      /\ hq.free = hp.free \cup {r}
      /\ IsInjective(hq.fl) /\ ToSet(hq.fl) = ToSet(hp.fl) \cup {r}

\* Splitting a block in two.
LEMMA SplitShape ==
  ASSUME NEW A, NEW hp, Shape(A, hp), InSync(hp),
         IsInjective(hp.fl), ToSet(hp.fl) \subseteq Block(hp),
         NEW b \in Block(hp), NEW n \in Nat, hp.size[b] >= n + 48,
         NEW i \in DOMAIN A, Within(A, hp, i, b)
  PROVE  /\ Shape(A, maybe_split(hp, b, n)) /\ InSync(maybe_split(hp, b, n))
         /\ Within(A, maybe_split(hp, b, n), i, b)
         /\ Within(A, maybe_split(hp, b, n), i, b + 32 + n)
         /\ Split(hp, b, n, maybe_split(hp, b, n))
<1> DEFINE r == b + 32 + n
           m == hp.size[b] - n - 32
           hq == maybe_split(hp, b, n)
           E(d) == next_physical_header(hp, d)
           F(d) == next_physical_header(hq, d)
<1>1. HeapType(hp) /\ ArenasType(A) /\ ArenasApart(A) /\ Tiled(A, hp)
  BY DEF Shape
<1>2. \A d \in Block(hp) : d \in Nat /\ hp.size[d] \in Nat /\ E(d) = d + 32 + hp.size[d]
  BY <1>1, BlockEnds
<1>3. \A d, e \in Block(hp) : d # e => E(d) <= e \/ E(e) <= d
  BY <1>1 DEF Tiled
<1>4. \A d \in Block(hp) : E(d) \in Nat
  BY <1>1, BlockEnds
<1>5. /\ r \in Nat /\ m \in Nat /\ b < r /\ r < E(b) /\ E(b) = r + 32 + m
      /\ m >= 16
  BY <1>2
<1> HIDE DEF E, F, hq, r, m
<1>6. r \notin Block(hp)
  <2> SUFFICES ASSUME r \in Block(hp) PROVE FALSE
    OBVIOUS
  <2>1. E(b) <= r \/ E(r) <= b
    BY <1>3, <1>2, <1>5
  <2>2. r < E(r) /\ b \in Nat
    BY <1>2
  <2> QED
    BY <1>2, <1>4, <1>5, <2>1, <2>2
<1>7. SplitFieldsOf(hp, b, n, hq)
  <2>1. b + 32 + n \notin Block(hp) /\ b + 32 + n \notin ToSet(hp.fl)
    BY <1>6 DEF r
  <2> QED
    BY <1>1, <2>1, SplitFields DEF hq
<1>8. /\ HeapType(hq)
      /\ Block(hq) = Block(hp) \cup {r}
      /\ hq.size[b] = n /\ hq.size[r] = m
      /\ \A d \in Block(hp) \ {b} : hq.size[d] = hp.size[d]
      /\ hq.free = hp.free \cup {r}
      /\ IsInjective(hq.fl) /\ ToSet(hq.fl) = ToSet(hp.fl) \cup {r}
      /\ DOMAIN hq.ftr = DOMAIN hp.ftr \cup {r - 16, r + 16 + m}
      /\ hq.ftr[r - 16] = n /\ hq.ftr[r + 16 + m] = m
      /\ \A f \in DOMAIN hp.ftr \ {r - 16, r + 16 + m} : hq.ftr[f] = hp.ftr[f]
  BY <1>7 DEF SplitFieldsOf, r, m
<1>9. \A d \in Block(hq) : d \in Nat /\ hq.size[d] \in Nat /\ F(d) = d + 32 + hq.size[d]
  BY <1>8, BlockEnds DEF F
<1>10. F(b) = r /\ F(r) = E(b) /\ \A d \in Block(hp) \ {b} : F(d) = E(d)
  <2>1. F(b) = b + 32 + n
    BY <1>8, <1>9
  <2>2. F(r) = r + 32 + m
    BY <1>8, <1>9
  <2>3. \A d \in Block(hp) \ {b} : F(d) = E(d)
    BY <1>2, <1>8, <1>9
  <2> QED
    BY <1>5, <2>1, <2>2, <2>3 DEF r
<1>11. \A j \in DOMAIN A, d \in Block(hp) \ {b} : Within(A, hq, j, d) <=> Within(A, hp, j, d)
  BY <1>10 DEF Within, E, F
<1>12. A[i].base <= b /\ E(b) <= CarvedEnd(A[i]) /\ A[i].base \in Nat /\ CarvedEnd(A[i]) \in Nat
  BY <1>1, ArenaEnds DEF Within, E
<1>13. Within(A, hq, i, b) /\ Within(A, hq, i, r)
  <2>1. A[i].base <= b /\ r <= CarvedEnd(A[i])
    BY <1>2, <1>4, <1>5, <1>12
  <2>2. A[i].base <= r /\ E(b) <= CarvedEnd(A[i])
    BY <1>2, <1>4, <1>5, <1>12
  <2> QED
    BY <1>10, <2>1, <2>2 DEF Within, F
<1>14. \A j \in DOMAIN A : (Within(A, hq, j, b) \/ Within(A, hq, j, r)) => j = i
  <2> SUFFICES ASSUME NEW j \in DOMAIN A, Within(A, hq, j, b) \/ Within(A, hq, j, r)
               PROVE  j = i
    OBVIOUS
  <2>1. CarvedEnd(A[j]) \in Nat
    BY <1>1, ArenaEnds
  <2>2. CASE Within(A, hq, j, b)
    <3>1. A[j].base <= b /\ r <= CarvedEnd(A[j])
      BY <1>10, <2>2 DEF Within, F
    <3>2. b < CarvedEnd(A[i]) /\ b < CarvedEnd(A[j]) /\ b \in Nat
      BY <1>2, <1>4, <1>5, <1>12, <2>1, <3>1
    <3> QED
      BY <1>1, <1>12, <3>1, <3>2, OneArena
  <2>3. CASE Within(A, hq, j, r)
    <3>1. A[j].base <= r /\ E(b) <= CarvedEnd(A[j])
      BY <1>10, <2>3 DEF Within, F
    <3>2. r < CarvedEnd(A[i]) /\ r < CarvedEnd(A[j]) /\ r \in Nat /\ A[i].base <= r
      BY <1>2, <1>4, <1>5, <1>12, <2>1, <3>1
    <3> QED
      BY <1>1, <1>12, <3>1, <3>2, OneArena
  <2> QED
    BY <2>2, <2>3
<1>15. Tiled(A, hq)
  <2>1. \A d \in Block(hq) : \E j \in DOMAIN A : Within(A, hq, j, d)
    <3> SUFFICES ASSUME NEW d \in Block(hq) PROVE \E j \in DOMAIN A : Within(A, hq, j, d)
      OBVIOUS
    <3>1. CASE d = b \/ d = r
      BY <1>13, <3>1
    <3>2. CASE d # b /\ d # r
      BY <1>1, <1>8, <1>11, <3>2 DEF Tiled
    <3> QED
      BY <3>1, <3>2
  <2>2. \A d, e \in Block(hq) : d # e => F(d) <= e \/ F(e) <= d
    <3>1. ASSUME NEW d \in Block(hp) \ {b} PROVE E(d) <= b \/ E(b) <= d
      BY <1>3
    <3>2. ASSUME NEW d \in Block(hp) \ {b}
          PROVE  (E(d) <= b \/ r <= d) /\ (E(d) <= r \/ E(b) <= d)
      BY <3>1, <1>2, <1>4, <1>5
    <3>3. \A d, e \in Block(hp) \ {b} : d # e => E(d) <= e \/ E(e) <= d
      BY <1>3
    <3> QED
      BY <1>8, <1>10, <1>5, <3>2, <3>3
  <2>3. ASSUME NEW j \in DOMAIN A, NEW d \in Block(hq), Within(A, hq, j, d)
        PROVE  d = A[j].base \/ \E e \in Block(hq) : F(e) = d
    <3>1. CASE d = r
      BY <1>8, <1>10, <3>1
    <3>2. CASE d # r
      <4>1. d \in Block(hp) /\ Within(A, hp, j, d)
        BY <1>8, <1>11, <1>14, <2>3, <3>2
      <4>2. CASE d = A[j].base
        BY <4>2
      <4>3. CASE d # A[j].base
        <5>1. PICK e \in Block(hp) : E(e) = d
          BY <1>1, <4>1, <4>3 DEF Tiled, E
        <5>2. CASE e = b
          BY <1>8, <1>10, <5>1, <5>2
        <5>3. CASE e # b
          BY <1>8, <1>10, <5>1, <5>3
        <5> QED
          BY <5>2, <5>3
      <4> QED
        BY <4>2, <4>3
    <3> QED
      BY <3>1, <3>2
  <2>4. ASSUME NEW j \in DOMAIN A, NEW d \in Block(hq), Within(A, hq, j, d)
        PROVE  F(d) = CarvedEnd(A[j]) \/ F(d) \in Block(hq)
    <3>1. CASE d = b
      BY <1>8, <1>10, <3>1
    <3>2. CASE d = r
      <4>1. E(b) = CarvedEnd(A[i]) \/ E(b) \in Block(hp)
        BY <1>1 DEF Tiled, E
      <4> QED
        BY <1>8, <1>10, <1>14, <2>4, <3>2, <4>1
    <3>3. CASE d # b /\ d # r
      <4>1. d \in Block(hp) /\ Within(A, hp, j, d)
        BY <1>8, <1>11, <2>4, <3>3
      <4>2. E(d) = CarvedEnd(A[j]) \/ E(d) \in Block(hp)
        BY <1>1, <4>1 DEF Tiled, E
      <4> QED
        BY <1>8, <1>10, <3>3, <4>1, <4>2
    <3> QED
      BY <3>1, <3>2, <3>3
  <2>5. ASSUME NEW j \in DOMAIN A
        PROVE  /\ A[j].base \in Block(hq)
               /\ \E d \in Block(hq) : Within(A, hq, j, d) /\ F(d) = CarvedEnd(A[j])
    <3>1. A[j].base \in Block(hq)
      BY <1>1, <1>8 DEF Tiled
    <3>2. PICK d \in Block(hp) : Within(A, hp, j, d) /\ E(d) = CarvedEnd(A[j])
      BY <1>1 DEF Tiled, E
    <3>3. CASE d = b
      <4>1. /\ A[j].base <= b /\ E(b) <= CarvedEnd(A[j]) /\ A[j].base \in Nat
        BY <1>1, <3>2, <3>3, ArenaEnds DEF Within, E
      <4>2. A[j].base <= r
        BY <1>2, <1>5, <4>1
      <4>3. Within(A, hq, j, r)
        BY <1>10, <4>1, <4>2 DEF Within, F
      <4> QED
        BY <1>8, <1>10, <3>1, <3>2, <3>3, <4>3
    <3>4. CASE d # b
      BY <1>8, <1>10, <1>11, <3>1, <3>2, <3>4
    <3> QED
      BY <3>3, <3>4
  <2> QED
    BY <2>1, <2>2, <2>3, <2>4, <2>5 DEF Tiled, F
<1>16. InSync(hq)
  <2>1. \A d \in Block(hp) : /\ E(d) - 16 \in DOMAIN hp.ftr
                             /\ hp.ftr[E(d) - 16] = hp.size[d]
    <3>1. \A d \in Block(hp) : FooterAt(d, hp.size[d]) = E(d) - 16
      BY <1>2 DEF FooterAt, HeaderSize
    <3> QED
      BY <3>1 DEF InSync
  <2>2. r + 16 + m = E(b) - 16
    BY <1>5
  <2>3. ASSUME NEW d \in Block(hp), d # b
        PROVE  F(d) - 16 \in DOMAIN hq.ftr /\ hq.ftr[F(d) - 16] = hq.size[d]
    <3>1. E(d) # E(b)
      BY <1>2, <1>3, <1>4, <2>3
    <3>2. E(d) # r
      <4>1. E(d) <= b \/ E(b) <= d
        BY <1>3, <2>3
      <4> QED
        BY <1>2, <1>4, <1>5, <4>1
    <3>3. E(d) - 16 # r - 16 /\ E(d) - 16 # r + 16 + m
      BY <1>4, <1>5, <2>2, <3>1, <3>2
    <3> QED
      BY <1>8, <1>10, <2>1, <2>3, <3>3
  <2>4. F(b) - 16 \in DOMAIN hq.ftr /\ hq.ftr[F(b) - 16] = hq.size[b]
    BY <1>8, <1>10
  <2>5. F(r) - 16 \in DOMAIN hq.ftr /\ hq.ftr[F(r) - 16] = hq.size[r]
    BY <1>8, <1>10, <2>2
  <2>6. \A d \in Block(hq) : FooterAt(d, hq.size[d]) = F(d) - 16
    BY <1>9 DEF FooterAt, HeaderSize
  <2> QED
    BY <1>8, <2>3, <2>4, <2>5, <2>6 DEF InSync
<1>17. Split(hp, b, n, hq)
  BY <1>5, <1>6, <1>8, <1>10 DEF Split, E, F, r, m
<1>18. Shape(A, hq)
  BY <1>1, <1>8, <1>15 DEF Shape
<1> QED
  BY <1>13, <1>16, <1>17, <1>18 DEF hq, r
=============================================================================
