------------------------------- MODULE Blocks -------------------------------
(***************************************************************************)
(* The general heap as data: blocks with boundary tags, the arenas they    *)
(* are carved from and the list of the free ones, together with the        *)
(* helpers of block.hpp, free_list.cpp and allocator.cpp that read and     *)
(* change them.  There is no state here: an operator takes a heap and      *)
(* returns what the code leaves behind.  GeneralHeap composes them into    *)
(* my_malloc, my_free and my_realloc.                                      *)
(*                                                                         *)
(* An operator whose name ends in _Faulty is the one that follows it with  *)
(* a slip a programmer could make; nothing uses it.  TLC is run with it in *)
(* the place of the right one to see that a property notices.              *)
(*                                                                         *)
(* Addresses and sizes are natural numbers of bytes.  Where a size is made *)
(* from what a caller asked for, it wraps around as std::size_t does.      *)
(*                                                                         *)
(* A heap is a record                                                      *)
(*   size  header address -> payload size (BlockHeader, size bits)         *)
(*   free  the headers whose flag bit says free                            *)
(*   ftr   footer address -> the size stored there (BlockFooter)           *)
(*   fl    the free list, from head_ on (FreeList)                         *)
(* DOMAIN size is the set of blocks.  A header or footer that a merge      *)
(* swallows leaves its domain: its bytes are payload from then on, and     *)
(* nothing may be read from them as a tag.                                 *)
(*                                                                         *)
(* An arena is a record [base, size, used] and A is always the sequence    *)
(* of arenas in the order they were acquired.                              *)
(***************************************************************************)
EXTENDS Integers, SequencesExt

CONSTANTS SizeMax,     \* SIZE_MAX
          PageSize,    \* sysconf(_SC_PAGESIZE)
          ArenaSize,   \* arena_size(): the least number of bytes per arena
          Bases        \* the addresses mmap may return

ASSUME SizeMaxAssumption == SizeMax \in Nat /\ (SizeMax + 1) % 16 = 0
ASSUME PageSizeAssumption == PageSize \in Nat \ {0}
ASSUME ArenaSizeAssumption == ArenaSize \in Nat \ {0}

\* alignof(std::max_align_t) and the three overlays, each of one unit of it.
Alignment  == 16
HeaderSize == 16
FooterSize == 16
LinksSize  == 16
\* Any remainder is taken for a block, even one of no bytes.
kMinBlockSize_Faulty == 0

kMinBlockSize == HeaderSize + LinksSize + FooterSize

Null == 0

IsAligned(n) == n % Alignment = 0

\* mmap returns whole pages, never page zero.
ASSUME BasesAssumption == /\ Bases \subseteq Nat \ {Null}
                          /\ \A a \in Bases : IsAligned(a)

Maximum(m, n) == IF m > n THEN m ELSE n

\* What a sum or a product n of sizes comes to in a std::size_t.
size_t(n) == n % (SizeMax + 1)

\* Rounds down.
align_up_Faulty(n) == n - (n % Alignment)

align_up(n) == LET m == size_t(n + Alignment - 1) IN m - (m % Alignment)

round_up_to_page(n) == LET m == size_t(n + PageSize - 1) IN m - (m % PageSize)

-----------------------------------------------------------------------------
(* Address arithmetic: it knows nothing of arenas.                         *)

payload(b) == b + HeaderSize
header_of(p) == p - HeaderSize

\* Where the footer of a block with header b and payload size n is.
FooterAt(b, n) == b + HeaderSize + n

next_physical_header(hp, b) == FooterAt(b, hp.size[b]) + FooterSize

preceding_footer(b) == b - FooterSize

header_from_footer(hp, f) == f - hp.ftr[f] - HeaderSize

combined_payload_size(hp, l, r) ==
  hp.size[l] + FooterSize + HeaderSize + hp.size[r]

\* The function f with k mapped to v: a store into the bytes at k.
Put(f, k, v) == [x \in DOMAIN f \cup {k} |-> IF x = k THEN v ELSE f[x]]

-----------------------------------------------------------------------------
(* The free list: insertion at the head, removal from anywhere.            *)

Insert(fl, b) == Cons(b, fl)

\* The block handed out stays in the list.
Unlink_Faulty(fl, b) == fl

Unlink(fl, b) == RemoveAt(fl, CHOOSE i \in DOMAIN fl : fl[i] = b)

\* Position i of the list is what find_first_fit stops at.
FirstFit(hp, i, n) ==
  /\ i \in DOMAIN hp.fl
  /\ hp.size[hp.fl[i]] >= n
  /\ \A j \in 1..(i - 1) : hp.size[hp.fl[j]] < n

NoFit(hp, n) == \A i \in DOMAIN hp.fl : hp.size[hp.fl[i]] < n

-----------------------------------------------------------------------------
(* Arenas.                                                                 *)

CarvedEnd(a) == a.base + a.used
ArenaEnd(a)  == a.base + a.size

Owns(a, addr) == a.base <= addr /\ addr < CarvedEnd(a)

arena_owning(A, addr) == A[CHOOSE i \in DOMAIN A : Owns(A[i], addr)]

\* Trusts the address: the next block may be another arena's.
HasRightNeighbor_Faulty(A, hp, b) == next_physical_header(hp, b) \in DOMAIN hp.size

\* The candidate's header lies in the carved part of the arena of b.
HasRightNeighbor(A, hp, b) ==
  LET a == arena_owning(A, b)
      r == next_physical_header(hp, b)
  IN  a.base <= r /\ r + HeaderSize <= CarvedEnd(a)

\* right_neighbor_if_free(b) # nullptr: it is next_physical_header(b) then.
RightIsFree(A, hp, b) ==
  /\ HasRightNeighbor(A, hp, b)
  /\ next_physical_header(hp, b) \in hp.free

LeftNeighbor(hp, b) == header_from_footer(hp, preceding_footer(b))

HasLeftNeighbor(A, hp, b) ==
  LET a == arena_owning(A, b)
  IN  /\ b - FooterSize >= a.base
      /\ LeftNeighbor(hp, b) >= a.base
      /\ LeftNeighbor(hp, b) < b

\* left_neighbor_if_free(b) # nullptr: it is LeftNeighbor(b) then.
LeftIsFree(A, hp, b) ==
  /\ HasLeftNeighbor(A, hp, b)
  /\ LeftNeighbor(hp, b) \in hp.free

-----------------------------------------------------------------------------
(* Steps on a heap.                                                        *)

Block(hp) == DOMAIN hp.size

EmptyHeap == [size |-> << >>, free |-> {}, ftr |-> << >>, fl |-> << >>]

\* The flag bit is only ever set, as if the mask were not inverted.
set_free_Faulty(hp, b, f) == [hp EXCEPT !.free = @ \cup {b}]

set_free(hp, b, f) ==
  [hp EXCEPT !.free = IF f THEN @ \cup {b} ELSE @ \ {b}]

unlink(hp, b) == [hp EXCEPT !.fl = Unlink(@, b)]

insert(hp, b) == [hp EXCEPT !.fl = Insert(@, b)]

\* A BlockHeader constructed at b, and sync_footer().
NewBlock(hp, b, n, f) ==
  [size |-> Put(hp.size, b, n),
   free |-> IF f THEN hp.free \cup {b} ELSE hp.free \ {b},
   ftr  |-> Put(hp.ftr, FooterAt(b, n), n),
   fl   |-> hp.fl]

\* sync_footer() is forgotten: the old footer of r stays.
Merge_Faulty(hp, l, r) ==
  [size |-> [b \in Block(hp) \ {r} |->
               IF b = l THEN combined_payload_size(hp, l, r) ELSE hp.size[b]],
   free |-> hp.free \ {r},
   ftr  |-> hp.ftr,
   fl   |-> hp.fl]

\* l, at the lower address, swallows r: set_size and sync_footer on l.
Merge(hp, l, r) ==
  LET n == combined_payload_size(hp, l, r)
  IN  [size |-> [b \in Block(hp) \ {r} |-> IF b = l THEN n ELSE hp.size[b]],
       free |-> hp.free \ {r},
       ftr  |-> Put(Restrict(hp.ftr, DOMAIN hp.ftr \ {FooterAt(l, hp.size[l])}),
                    FooterAt(l, n), n),
       fl   |-> hp.fl]

\* The absorbed block is not removed from the free list.
absorb_right_neighbor_Faulty(hp, b, r) == Merge(hp, b, r)

absorb_right_neighbor(hp, b, r) == Merge(unlink(hp, r), b, r)

\* b keeps n bytes; what is left becomes a free block if it can be one.
maybe_split(hp, b, n) ==
  LET remainder == hp.size[b] - n
      shrunk == [size |-> Put(hp.size, b, n), free |-> hp.free,
                 ftr |-> Put(hp.ftr, FooterAt(b, n), n), fl |-> hp.fl]
      r == next_physical_header(shrunk, b)
  IN  IF remainder < kMinBlockSize
      THEN hp
      ELSE insert(NewBlock(shrunk, r, remainder - HeaderSize - FooterSize, TRUE), r)

\* The free block b leaves the list, keeps n bytes and is allocated.
Reused(hp, b, n) == set_free(maybe_split(unlink(hp, b), b, n), b, FALSE)

\* Only ever coalesces to the left.
coalesce_right_Faulty(A, hp, b) == hp

coalesce_right(A, hp, b) ==
  IF RightIsFree(A, hp, b)
  THEN absorb_right_neighbor(hp, b, next_physical_header(hp, b))
  ELSE hp

\* Only ever coalesces to the right.
coalesce_left_Faulty(A, hp, b) == insert(hp, b)

\* The block that freeing b ends with joins the list, once.
coalesce_left(A, hp, b) ==
  LET l == LeftNeighbor(hp, b)
  IN  IF LeftIsFree(A, hp, b)
      THEN insert(Merge(unlink(hp, l), l, b), l)
      ELSE insert(hp, b)

Release(A, hp, b) ==
  coalesce_left(A, coalesce_right(A, set_free(hp, b, TRUE), b), b)

-----------------------------------------------------------------------------
(* What the helpers rely on and what they keep.                            *)

\* The headers whose flag bit says allocated.
Allocated(hp) == Block(hp) \ hp.free

Within(A, hp, i, b) ==
  A[i].base <= b /\ next_physical_header(hp, b) <= CarvedEnd(A[i])

ArenasType(A) == A \in Seq([base : Nat, size : Nat, used : Nat])

HeapType(hp) ==
  /\ hp = [size |-> hp.size, free |-> hp.free, ftr |-> hp.ftr, fl |-> hp.fl]
  /\ Block(hp) \subseteq Nat
  /\ hp.size \in [Block(hp) -> Nat]
  /\ hp.free \subseteq Block(hp)
  /\ DOMAIN hp.ftr \subseteq Nat
  /\ hp.ftr \in [DOMAIN hp.ftr -> Nat]
  /\ hp.fl \in Seq(Nat)

ArenasApart(A) ==
  /\ \A i \in DOMAIN A : A[i].used <= A[i].size
  /\ \A i, j \in DOMAIN A : i # j => \/ ArenaEnd(A[i]) <= A[j].base
                                     \/ ArenaEnd(A[j]) <= A[i].base

\* Blocks lie in arenas, do not overlap and leave no gap: each begins at the
\* base or where another ends, and ends at the bump pointer or at another.
Tiled(A, hp) ==
  /\ \A b \in Block(hp) : \E i \in DOMAIN A : Within(A, hp, i, b)
  /\ \A b, d \in Block(hp) : b # d => \/ next_physical_header(hp, b) <= d
                                      \/ next_physical_header(hp, d) <= b
  /\ \A i \in DOMAIN A : \A b \in Block(hp) : Within(A, hp, i, b) =>
       /\ \/ b = A[i].base
          \/ \E d \in Block(hp) : next_physical_header(hp, d) = b
       /\ \/ next_physical_header(hp, b) = CarvedEnd(A[i])
          \/ next_physical_header(hp, b) \in Block(hp)
  /\ \A i \in DOMAIN A :
       /\ A[i].base \in Block(hp)
       /\ \E b \in Block(hp) : /\ Within(A, hp, i, b)
                              /\ next_physical_header(hp, b) = CarvedEnd(A[i])

InSync(hp) ==
  \A b \in Block(hp) : LET f == FooterAt(b, hp.size[b])
                       IN  f \in DOMAIN hp.ftr /\ hp.ftr[f] = hp.size[b]

\* Every free block once, with the room its FreeListLinks take.
Listed(hp) ==
  /\ ToSet(hp.fl) = hp.free
  /\ IsInjective(hp.fl)
  /\ \A b \in hp.free : hp.size[b] >= LinksSize

Coalesced(A, hp) == \A b \in hp.free : ~RightIsFree(A, hp, b)

AllAligned(A, hp) ==
  /\ \A i \in DOMAIN A : IsAligned(A[i].base) /\ IsAligned(A[i].used)
  /\ \A b \in Block(hp) : IsAligned(b) /\ IsAligned(hp.size[b])
=============================================================================
