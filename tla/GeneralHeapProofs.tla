-------------------------- MODULE GeneralHeapProofs --------------------------
(***************************************************************************)
(* The safety of the general path, for any number of clients, any requests *)
(* beyond the size classes, any page size, arena size and placement of the *)
(* arenas.                                                                 *)
(*                                                                         *)
(* The inductive invariant IInv says that the heap is in good order, that  *)
(* allocated blocks and clients match, and where in my_realloc a client    *)
(* may be.  The work on the heap itself is done in HeapStepsProofs; here   *)
(* each action is tied to one of its lemmas.  The last section proves that *)
(* the general path implements HeapContract.                               *)
(***************************************************************************)
EXTENDS ModestRequests, HeapStepsProofs

\* What a client that has left my_realloc's critical section knows.
Stages ==
  \A c \in Clients :
    /\ pc[c] # "idle" => ptr[c] # Null /\ want[c] \in Sizes /\ want[c] > old[c]
    /\ new[c] # Null <=> pc[c] = "copy"
    /\ new[c] # Null => IsAligned(new[c]) /\ PayloadSize(new[c]) >= want[c]

IInv == /\ TypeOK
        /\ Good(arenas, heap)
        /\ OneOwner
        /\ PointersServeRequests
        /\ CopyStaysInside
        /\ Stages

-----------------------------------------------------------------------------
(* my_malloc.                                                              *)

\* A total that my_calloc lets through is the product it stands for.
LEMMA CallocTotal ==
  ASSUME NEW a \in Arrays, ~Overflows(a[1], a[2])
  PROVE  a[1] * a[2] \in 0..SizeMax /\ size_t(a[1] * a[2]) = a[1] * a[2]
<1> DEFINE m == a[1]
           s == a[2]
<1>1. m \in Nat /\ s \in Nat
  BY ArraysAssumption, SizeMaxAssumption
<1>2. SizeMax \in Nat /\ (s = 0 \/ m <= SizeMax \div s)
  BY <1>1, SizeMaxAssumption DEF Overflows
<1> HIDE DEF m, s
<1>3. m * s \in Nat /\ m * s <= SizeMax
  <2>1. CASE s = 0
    BY <1>1, <1>2, <2>1
  <2>2. CASE s # 0
    BY <1>1, <1>2, <2>2, SMTT(60)
  <2> QED
    BY <2>1, <2>2
<1> QED
  BY <1>2, <1>3, SizeT DEF m, s

\* The request of a client is worth a block, and its payload is aligned.
LEMMA RequestFits ==
  ASSUME NEW n \in Sizes
  PROVE  /\ n \in Nat /\ n > 4096 /\ n + 15 <= SizeMax
         /\ align_up(n) \in Nat /\ align_up(n) >= n /\ align_up(n) >= 16
         /\ IsAligned(align_up(n))
         /\ needed(n) = align_up(n) + 32 /\ needed(n) \in Nat /\ IsAligned(needed(n))
         /\ needed(n) + PageSize - 1 <= SizeMax
<1>1. n \in 4097..SizeMax
  BY RequestsAssumption DEF Sizes, LargestSizeClass
<1>2. n + 46 + PageSize <= SizeMax /\ PageSize \in Nat \ {0} /\ SizeMax \in Nat
  BY <1>1, SlackAssumption, PageSizeAssumption, SizeMaxAssumption
  DEF Slack, Alignment, HeaderSize, FooterSize
<1>3. n \in Nat /\ n > 4096 /\ n + 15 <= SizeMax
  BY <1>1, <1>2
<1>4. /\ align_up(n) \in Nat /\ align_up(n) >= n /\ align_up(n) <= n + 15
      /\ IsAligned(align_up(n))
  BY <1>3, AlignUp
<1>5. needed(n) = align_up(n) + 32 /\ needed(n) \in Nat
  <2>1. align_up(n) + 32 \in 0..SizeMax
    BY <1>2, <1>3, <1>4
  <2>2. needed(n) = size_t(align_up(n) + 32)
    BY <1>4 DEF needed, HeaderSize, FooterSize
  <2> QED
    BY <2>1, <2>2, SizeT
<1>6. IsAligned(needed(n))
  BY <1>4, <1>5, AlignedSums
<1>7. needed(n) + PageSize - 1 <= SizeMax
  BY <1>2, <1>3, <1>4, <1>5
<1> QED
  BY <1>3, <1>4, <1>5, <1>6, <1>7

\* What my_calloc hands out, my_malloc of the product could have.
LEMMA CallocIsMalloc ==
  ASSUME NEW c \in Clients, NEW a \in Arrays, Calloc(c, a[1], a[2])
  PROVE  \E n \in Sizes : Malloc(c, n)
<1> DEFINE n == a[1] * a[2]
<1>1. n \in 0..SizeMax /\ size_t(n) = n
  BY CallocTotal DEF Calloc
<1>2. n > LargestSizeClass /\ Obtain(c, n, n)
  BY <1>1 DEF Calloc
<1>3. n \in Sizes
  BY <1>1, <1>2, SizeMaxAssumption DEF Sizes, LargestSizeClass
<1> QED
  BY <1>2, <1>3 DEF Malloc

\* The steps of the general path, my_calloc seen as my_malloc.
Steps ==
  \/ \E c \in Clients :
       \/ \E n \in Sizes : \/ Malloc(c, n)
                           \/ ReallocFits(c, n)
                           \/ ReallocInPlace(c, n)
                           \/ ReallocMiss(c, n)
       \/ Free(c)
       \/ ReallocMalloc(c)
       \/ ReallocFree(c)
  \/ Shutdown

\* Every step is one of Steps.
LEMMA NextSteps == Next => Steps
<1> SUFFICES ASSUME Next PROVE Steps
  OBVIOUS
<1>1. \A n \in Requests : n \in Sizes
  BY DEF Sizes
<1>2. ASSUME NEW c \in Clients, NEW a \in Arrays, Calloc(c, a[1], a[2]) PROVE Steps
  BY <1>2, CallocIsMalloc DEF Steps
<1> QED
  BY <1>1, <1>2 DEF Next, Steps

\* q is a new payload of at least align_up(n) bytes, the rest is as it was.
Handed(n, q) ==
  /\ q \in Nat /\ q # Null /\ IsAligned(q)
  /\ header_of(q) \notin Allocated(heap)
  /\ Allocated(heap') = Allocated(heap) \cup {header_of(q)}
  /\ heap'.size[header_of(q)] >= align_up(n)
  /\ Keeps(heap, heap', Allocated(heap))
  /\ Good(arenas', heap')

\* A block header and its payload.
LEMMA PayloadOf ==
  ASSUME NEW b \in Nat, IsAligned(b)
  PROVE  /\ payload(b) \in Nat /\ payload(b) # Null /\ IsAligned(payload(b))
         /\ header_of(payload(b)) = b
BY DEF payload, header_of, HeaderSize, Null, IsAligned, Alignment

\* my_malloc() that reuses a free block hands it out.
LEMMA ReuseHands ==
  ASSUME NEW n \in Sizes, NEW q, Good(arenas, heap), Reuse(n, q)
  PROVE  Handed(n, q)
<1>1. PICK i \in DOMAIN heap.fl :
        /\ FirstFit(heap, i, align_up(n))
        /\ heap' = Reused(heap, heap.fl[i], align_up(n))
        /\ q = payload(heap.fl[i])
        /\ arenas' = arenas
  BY DEF Reuse
<1> DEFINE b == heap.fl[i]
<1>2. HeapType(heap) /\ ToSet(heap.fl) = heap.free /\ heap.free \subseteq Block(heap)
  BY DEF Good, Sound, Shape, Listed, HeapType
<1>3. b \in heap.free
  <2>1. heap.fl \in Seq(Nat) /\ i \in 1..Len(heap.fl)
    BY <1>2 DEF HeapType
  <2> QED
    BY <1>2, <2>1, Members
<1>4. b \in Nat /\ IsAligned(b) /\ heap.size[b] >= align_up(n)
  BY <1>1, <1>2, <1>3, BlockEnds DEF Good, Sound, AllAligned, FirstFit
<1> HIDE DEF b
<1>5. /\ Good(arenas, heap')
      /\ Allocated(heap') = Allocated(heap) \cup {b}
      /\ heap'.size[b] >= align_up(n)
      /\ Keeps(heap, heap', Allocated(heap))
  <2>1. heap' = Reused(heap, b, align_up(n))
    BY <1>1 DEF b
  <2> DEFINE m == align_up(n)
  <2>2. m \in Nat /\ m >= 16 /\ IsAligned(m) /\ heap.size[b] >= m
    BY <1>4, RequestFits
  <2> HIDE DEF m
  <2>3. heap' = Reused(heap, b, m)
    BY <2>1 DEF m
  <2>4. /\ Good(arenas, heap')
        /\ Allocated(heap') = Allocated(heap) \cup {b}
        /\ heap'.size[b] >= m
        /\ Keeps(heap, heap', Allocated(heap))
    BY <1>3, <2>2, <2>3, ReuseGood
  <2> QED
    BY <2>4 DEF m
<1>6. q = payload(b) /\ arenas' = arenas
  BY <1>1 DEF b
<1>7. b \notin Allocated(heap)
  BY <1>3 DEF Allocated
<1> QED
  BY <1>4, <1>5, <1>6, <1>7, PayloadOf DEF Handed

\* Where arenas, taken one by one, lie.
LEMMA BumpCarves ==
  ASSUME NEW n \in Sizes, NEW q, Good(arenas, heap), BumpCurrent(n, q)
  PROVE  /\ Carved(arenas, arenas', Len(arenas), BumpPointer, align_up(n))
         /\ BumpPointer \in Nat /\ IsAligned(BumpPointer)
         /\ \A i \in DOMAIN arenas' : IsAligned(arenas'[i].base) /\ IsAligned(arenas'[i].used)
<1> DEFINE k == Len(arenas)
           m == needed(n)
           R == [base : Nat, size : Nat, used : Nat]
<1>1. /\ arenas # << >> /\ Last(arenas).size - Last(arenas).used >= m
      /\ arenas' = [arenas EXCEPT ![k].used = @ + m]
  BY DEF BumpCurrent, CurrentHasRoom
<1>2. ArenasType(arenas) /\ ArenasApart(arenas)
  BY DEF Good, Sound, Shape
<1>3. m \in Nat /\ m = align_up(n) + 32 /\ IsAligned(m)
  BY RequestFits
<1> HIDE DEF m
<1>4. arenas \in Seq(R) /\ k \in DOMAIN arenas /\ Last(arenas) = arenas[k]
      /\ DOMAIN arenas = 1..k
  BY <1>1, <1>2 DEF ArenasType, Last
<1>5. /\ arenas[k] \in R /\ arenas[k].base \in Nat /\ arenas[k].size \in Nat /\ arenas[k].used \in Nat
      /\ CarvedEnd(arenas[k]) = arenas[k].base + arenas[k].used
  <2> HIDE DEF R
  <2>1. arenas[k] \in R
    BY <1>4
  <2> QED
    BY <1>2, <1>4, <2>1, ArenaEnds
<1> DEFINE a == [base |-> arenas[k].base, size |-> arenas[k].size, used |-> arenas[k].used + m]
<1>6. arenas' = [arenas EXCEPT ![k] = a]
  <2>1. [arenas[k] EXCEPT !.used = @ + m] = a
    BY <1>5
  <2> QED
    BY <1>1, <2>1
<1>7. a \in R /\ a.base = arenas[k].base /\ a.size = arenas[k].size /\ a.used = arenas[k].used + m
  BY <1>3, <1>5
<1> HIDE DEF a, R
<1>8. /\ DOMAIN arenas' = DOMAIN arenas /\ arenas' \in Seq(R) /\ arenas'[k] = a
      /\ \A j \in DOMAIN arenas \ {k} : arenas'[j] = arenas[j]
  BY <1>4, <1>6, <1>7
<1>9. ArenasType(arenas')
  BY <1>8 DEF ArenasType, R
<1>10. ArenasApart(arenas')
  <2>1. ASSUME NEW j \in DOMAIN arenas'
        PROVE  arenas'[j].base = arenas[j].base /\ arenas'[j].size = arenas[j].size
               /\ ArenaEnd(arenas'[j]) = ArenaEnd(arenas[j])
               /\ arenas'[j].used <= arenas'[j].size
    <3>1. CASE j = k
      <4>1. arenas'[k] = a /\ a.used <= a.size /\ ArenaEnd(a) = ArenaEnd(arenas[k])
        BY <1>1, <1>3, <1>4, <1>5, <1>7, <1>8 DEF ArenaEnd
      <4> QED
        BY <1>7, <3>1, <4>1
    <3>2. CASE j # k
      BY <1>2, <1>8, <3>2 DEF ArenasApart
    <3> QED
      BY <3>1, <3>2
  <2> QED
    BY <1>2, <1>8, <2>1 DEF ArenasApart
<1>11. /\ CarvedEnd(arenas'[k]) = BumpPointer + 32 + align_up(n)
       /\ CarvedEnd(arenas[k]) = BumpPointer /\ BumpPointer \in Nat
  BY <1>3, <1>4, <1>5, <1>7, <1>8, RequestFits, SMTT(30) DEF BumpPointer, CarvedEnd
<1>12. /\ \A i \in DOMAIN arenas : IsAligned(arenas[i].base) /\ IsAligned(arenas[i].used)
  BY DEF Good, Sound, AllAligned
<1>13. IsAligned(BumpPointer) /\ IsAligned(a.used)
  BY <1>3, <1>4, <1>5, <1>7, <1>11, <1>12, AlignedSums
<1>14. \A i \in DOMAIN arenas' : IsAligned(arenas'[i].base) /\ IsAligned(arenas'[i].used)
  BY <1>4, <1>7, <1>8, <1>12, <1>13
<1>15. Carved(arenas, arenas', k, BumpPointer, align_up(n))
  BY <1>2, <1>4, <1>7, <1>8, <1>9, <1>10, <1>11 DEF Carved
<1> QED
  BY <1>11, <1>13, <1>14, <1>15

\* my_malloc() that needs a new arena carves its block at the base of it.
LEMMA MapCarves ==
  ASSUME NEW n \in Sizes, NEW q, Good(arenas, heap), NEW base \in Bases,
         NEW fresh, fresh = [base |-> base,
                             size |-> round_up_to_page(Maximum(needed(n), ArenaSize)),
                             used |-> needed(n)],
         \A i \in DOMAIN arenas : \/ ArenaEnd(fresh) <= arenas[i].base
                                  \/ ArenaEnd(arenas[i]) <= base,
         arenas' = Append(arenas, fresh)
  PROVE  /\ Carved(arenas, arenas', Len(arenas) + 1, base, align_up(n))
         /\ base \in Nat /\ IsAligned(base)
         /\ \A i \in DOMAIN arenas' : IsAligned(arenas'[i].base) /\ IsAligned(arenas'[i].used)
<1> DEFINE k == Len(arenas) + 1
           m == needed(n)
           s == round_up_to_page(Maximum(m, ArenaSize))
           R == [base : Nat, size : Nat, used : Nat]
<1>1. base \in Nat /\ IsAligned(base)
  BY BasesAssumption
<1>2. /\ m \in Nat /\ m = align_up(n) + 32 /\ IsAligned(m) /\ align_up(n) \in Nat
      /\ m + PageSize - 1 <= SizeMax
  BY RequestFits
<1> HIDE DEF m
<1>3. s \in Nat /\ s >= m
  <2>1. /\ Maximum(m, ArenaSize) \in Nat /\ Maximum(m, ArenaSize) >= m
        /\ Maximum(m, ArenaSize) + PageSize - 1 <= SizeMax
    <3>1. ArenaSize + PageSize - 1 <= SizeMax
      BY SlackAssumption, ArenaSizeAssumption, PageSizeAssumption, SizeMaxAssumption
      DEF Slack, Alignment, HeaderSize, FooterSize
    <3> QED
      BY <1>2, <3>1, ArenaSizeAssumption DEF Maximum
  <2>2. s \in Nat /\ s >= Maximum(m, ArenaSize)
    BY <2>1, RoundUpToPage
  <2> QED
    BY <1>2, <2>1, <2>2
<1>4. fresh \in R /\ fresh.base = base /\ fresh.size = s /\ fresh.used = m
  <2> HIDE DEF s
  <2>1. fresh = [base |-> base, size |-> s, used |-> m]
    BY DEF s, m
  <2> QED
    BY <1>1, <1>2, <1>3, <2>1
<1> HIDE DEF s, R
<1>5. ArenasType(arenas) /\ ArenasApart(arenas) /\ arenas \in Seq(R)
  BY DEF Good, Sound, Shape, ArenasType, R
<1>6. /\ arenas' \in Seq(R) /\ DOMAIN arenas = 1..Len(arenas)
      /\ DOMAIN arenas' = 1..k /\ k \in DOMAIN arenas' /\ k \notin DOMAIN arenas
      /\ arenas'[k] = fresh
      /\ \A j \in DOMAIN arenas : arenas'[j] = arenas[j]
      /\ \A j \in DOMAIN arenas' \ {k} : j \in DOMAIN arenas
  <2>1. arenas' = Append(arenas, fresh)
    OBVIOUS
  <2> QED
    BY <1>4, <1>5, <2>1
<1>7. ArenasType(arenas')
  BY <1>6 DEF ArenasType, R
<1>8. ArenasApart(arenas')
  <2>1. \A j \in DOMAIN arenas' : arenas'[j].used <= arenas'[j].size
    <3>1. fresh.used <= fresh.size
      BY <1>2, <1>3, <1>4
    <3>2. \A j \in DOMAIN arenas : arenas[j].used <= arenas[j].size
      BY <1>5 DEF ArenasApart
    <3> QED
      BY <1>6, <3>1, <3>2
  <2>2. ASSUME NEW i \in DOMAIN arenas', NEW j \in DOMAIN arenas', i # j
        PROVE  \/ ArenaEnd(arenas'[i]) <= arenas'[j].base
               \/ ArenaEnd(arenas'[j]) <= arenas'[i].base
    <3>1. CASE i = k
      <4>1. j \in DOMAIN arenas /\ arenas'[j] = arenas[j] /\ arenas'[i] = fresh
        BY <1>6, <2>2, <3>1
      <4>2. ArenaEnd(fresh) <= arenas[j].base \/ ArenaEnd(arenas[j]) <= fresh.base
        BY <1>4, <4>1
      <4> QED
        BY <4>1, <4>2
    <3>2. CASE j = k
      <4>1. i \in DOMAIN arenas /\ arenas'[i] = arenas[i] /\ arenas'[j] = fresh
        BY <1>6, <2>2, <3>2
      <4>2. ArenaEnd(fresh) <= arenas[i].base \/ ArenaEnd(arenas[i]) <= fresh.base
        BY <1>4, <4>1
      <4> QED
        BY <4>1, <4>2
    <3>3. CASE i # k /\ j # k
      BY <1>5, <1>6, <2>2, <3>3 DEF ArenasApart
    <3> QED
      BY <3>1, <3>2, <3>3
  <2> QED
    BY <2>1, <2>2 DEF ArenasApart
<1>9. CarvedEnd(arenas'[k]) = base + 32 + align_up(n)
  BY <1>1, <1>2, <1>4, <1>6 DEF CarvedEnd
<1>10. \A i \in DOMAIN arenas' : IsAligned(arenas'[i].base) /\ IsAligned(arenas'[i].used)
  <2>1. \A i \in DOMAIN arenas : IsAligned(arenas[i].base) /\ IsAligned(arenas[i].used)
    BY DEF Good, Sound, AllAligned
  <2> QED
    BY <1>1, <1>2, <1>4, <1>6, <2>1
<1>11. Carved(arenas, arenas', k, base, align_up(n))
  BY <1>4, <1>5, <1>6, <1>7, <1>8, <1>9 DEF Carved
<1> QED
  BY <1>1, <1>10, <1>11

\* A block carved at b, from whichever arena, is handed out.
LEMMA CarvedHands ==
  ASSUME NEW n \in Sizes, NEW k, NEW b \in Nat, IsAligned(b), Good(arenas, heap),
         Carved(arenas, arenas', k, b, align_up(n)),
         \A i \in DOMAIN arenas' : IsAligned(arenas'[i].base) /\ IsAligned(arenas'[i].used),
         Placed(heap, b, align_up(n), heap.free \ {b}, heap')
  PROVE  Handed(n, payload(b))
<1> DEFINE m == align_up(n)
<1>1. m \in Nat /\ m >= 16 /\ IsAligned(m)
  BY RequestFits
<1>2. Carved(arenas, arenas', k, b, m)
  OBVIOUS
<1>3. Placed(heap, b, m, heap.free \ {b}, heap')
  OBVIOUS
<1> HIDE DEF m
<1>4. /\ Good(arenas', heap')
      /\ b \notin Block(heap)
      /\ Allocated(heap') = Allocated(heap) \cup {b}
      /\ heap'.size[b] = m
      /\ Keeps(heap, heap', Allocated(heap))
  BY <1>1, <1>2, <1>3, CarveGood
<1>5. b \notin Allocated(heap) /\ heap'.size[b] >= m
  BY <1>1, <1>4 DEF Allocated
<1> QED
  BY <1>4, <1>5, PayloadOf DEF Handed, m

\* my_malloc hands out a new payload or changes nothing.
LEMMA MallocHands ==
  ASSUME NEW n \in Sizes, NEW q, Good(arenas, heap), my_malloc(n, q)
  PROVE  Handed(n, q) \/ (q = Null /\ arenas' = arenas /\ heap' = heap)
<1>1. CASE Reuse(n, q)
  BY <1>1, ReuseHands
<1>2. CASE BumpCurrent(n, q)
  <2>1. Placed(heap, BumpPointer, align_up(n), heap.free \ {BumpPointer}, heap')
    BY <1>2 DEF BumpCurrent, NewBlock, Placed
  <2>2. q = payload(BumpPointer)
    BY <1>2 DEF BumpCurrent
  <2> QED
    BY <1>2, <2>1, <2>2, BumpCarves, CarvedHands
<1>3. CASE MapFresh(n, q)
  <2> DEFINE Fresh(base) == [base |-> base,
                             size |-> round_up_to_page(Maximum(needed(n), ArenaSize)),
                             used |-> needed(n)]
  <2>1. PICK base \in Bases :
          /\ \A i \in DOMAIN arenas : \/ ArenaEnd(Fresh(base)) <= arenas[i].base
                                      \/ ArenaEnd(arenas[i]) <= base
          /\ arenas' = Append(arenas, Fresh(base))
          /\ Placed(heap, base, align_up(n), heap.free \ {base}, heap')
          /\ q = payload(base)
    BY <1>3 DEF MapFresh, NewBlock, Placed
  <2>2. /\ Carved(arenas, arenas', Len(arenas) + 1, base, align_up(n))
        /\ base \in Nat /\ IsAligned(base)
        /\ \A i \in DOMAIN arenas' : IsAligned(arenas'[i].base) /\ IsAligned(arenas'[i].used)
    BY <2>1, MapCarves
  <2> QED
    BY <2>1, <2>2, CarvedHands
<1>4. CASE OutOfMemory(n, q)
  BY <1>4 DEF OutOfMemory
<1> QED
  BY <1>1, <1>2, <1>3, <1>4 DEF my_malloc

-----------------------------------------------------------------------------
(* Clients and blocks.                                                     *)

\* Of two pointers at least one header apart from null, equal headers mean
\* equal pointers.
LEMMA Headers ==
  ASSUME NEW p \in Nat, NEW q \in Nat
  PROVE  header_of(p) = header_of(q) <=> p = q
BY DEF header_of, HeaderSize

\* Every pointer held leads to an allocated block.
LEMMA HeldAllocated ==
  ASSUME IInv, NEW c \in Clients
  PROVE  /\ ptr[c] # Null => header_of(ptr[c]) \in Allocated(heap)
         /\ new[c] # Null => header_of(new[c]) \in Allocated(heap)
         /\ \A p \in {ptr[c], new[c]} \ {Null} : header_of(p) \in Held(c)
BY DEF IInv, OneOwner, Held

\* A pointer one client holds is not held by another.
LEMMA HeldApart ==
  ASSUME IInv, NEW c \in Clients, NEW d \in Clients, c # d,
         NEW p \in {ptr[c], new[c]} \ {Null}
  PROVE  header_of(p) \notin Held(d)
BY DEF IInv, OneOwner, Held

\* What IInv says of the variables of one client.
ClientOK(c) ==
  /\ ptr[c] # Null => IsAligned(ptr[c]) /\ PayloadSize(ptr[c]) >= req[c]
  /\ pc[c] # "idle" => old[c] = PayloadSize(ptr[c])
  /\ pc[c] = "copy" => /\ copy_size(c) >= req[c]
                       /\ copy_size(c) <= PayloadSize(ptr[c])
                       /\ copy_size(c) <= PayloadSize(new[c])
  /\ pc[c] # "idle" => ptr[c] # Null /\ want[c] \in Sizes /\ want[c] > old[c]
  /\ new[c] # Null <=> pc[c] = "copy"
  /\ new[c] # Null => IsAligned(new[c]) /\ PayloadSize(new[c]) >= want[c]

\* A step that leaves a client's variables and its blocks alone.
LEMMA Frame ==
  ASSUME NEW d \in Clients, ClientOK(d), Keeps(heap, heap', Held(d)),
         pc'[d] = pc[d], ptr'[d] = ptr[d], req'[d] = req[d],
         new'[d] = new[d], want'[d] = want[d], old'[d] = old[d]
  PROVE  ClientOK(d)' /\ Held(d)' = Held(d)
<1>1. Held(d)' = Held(d)
  BY DEF Held
<1>2. ptr[d] # Null => PayloadSize(ptr[d])' = PayloadSize(ptr[d])
  BY DEF Keeps, Held, PayloadSize
<1>3. new[d] # Null => PayloadSize(new[d])' = PayloadSize(new[d])
  BY DEF Keeps, Held, PayloadSize
<1>4. copy_size(d)' = copy_size(d)
  BY DEF copy_size
<1> QED
  BY <1>1, <1>2, <1>3, <1>4 DEF ClientOK

\* The allocated blocks are those held, each by one client.
Owned == /\ Allocated(heap) = UNION {Held(c) : c \in Clients}
         /\ \A c, d \in Clients : c # d => Held(c) \cap Held(d) = {}

\* One client takes a block that nobody had.
LEMMA OwnerAdds ==
  ASSUME Owned, NEW c \in Clients, NEW b, b \notin Allocated(heap),
         Allocated(heap') = Allocated(heap) \cup {b},
         Held(c)' = Held(c) \cup {b},
         \A d \in Clients \ {c} : Held(d)' = Held(d)
  PROVE  Owned'
<1>1. \A d \in Clients : b \notin Held(d)
  BY DEF Owned
<1>2. Allocated(heap)' = UNION {Held(d)' : d \in Clients}
  <2>1. ASSUME NEW x \in Allocated(heap') PROVE \E d \in Clients : x \in Held(d)'
    <3>1. CASE x = b
      BY <3>1
    <3>2. CASE x # b
      <4>1. PICK d \in Clients : x \in Held(d)
        BY <2>1, <3>2 DEF Owned
      <4> QED
        BY <4>1
    <3> QED
      BY <3>1, <3>2
  <2>2. ASSUME NEW d \in Clients, NEW x \in Held(d)' PROVE x \in Allocated(heap')
    <3>1. x \in Held(d) \/ x = b
      BY <2>2
    <3> QED
      BY <3>1 DEF Owned
  <2> QED
    BY <2>1, <2>2
<1>3. ASSUME NEW d \in Clients, NEW e \in Clients, d # e
      PROVE  Held(d)' \cap Held(e)' = {}
  BY <1>1, <1>3 DEF Owned
<1> QED
  BY <1>2, <1>3 DEF Owned

\* The client that has a block gives it up.
LEMMA OwnerDrops ==
  ASSUME Owned, NEW c \in Clients, NEW b \in Held(c),
         Allocated(heap') = Allocated(heap) \ {b},
         Held(c)' = Held(c) \ {b},
         \A d \in Clients \ {c} : Held(d)' = Held(d)
  PROVE  Owned'
<1>1. \A d \in Clients \ {c} : b \notin Held(d)
  BY DEF Owned
<1>2. Allocated(heap)' = UNION {Held(d)' : d \in Clients}
  <2>1. ASSUME NEW x \in Allocated(heap') PROVE \E d \in Clients : x \in Held(d)'
    <3>1. PICK d \in Clients : x \in Held(d)
      BY <2>1 DEF Owned
    <3> QED
      BY <2>1, <3>1
  <2>2. ASSUME NEW d \in Clients, NEW x \in Held(d)' PROVE x \in Allocated(heap')
    <3>1. x \in Held(d) /\ x # b
      BY <1>1, <2>2
    <3> QED
      BY <3>1 DEF Owned
  <2> QED
    BY <2>1, <2>2
<1>3. ASSUME NEW d \in Clients, NEW e \in Clients, d # e
      PROVE  Held(d)' \cap Held(e)' = {}
  BY <1>1, <1>3 DEF Owned
<1> QED
  BY <1>2, <1>3 DEF Owned

\* IInv, client by client.
NewIsNew == \A c \in Clients : new[c] # Null => new[c] # ptr[c]

\* The variables of the clients alone.
ClientTypes ==
  /\ pc \in [Clients -> {"idle", "move", "copy"}]
  /\ ptr \in [Clients -> Nat]
  /\ req \in [Clients -> Nat]
  /\ new \in [Clients -> Nat]
  /\ want \in [Clients -> Nat]
  /\ old \in [Clients -> Nat]

Parts == /\ ClientTypes /\ Good(arenas, heap) /\ Owned /\ NewIsNew
         /\ \A c \in Clients : ClientOK(c)

\* The invariant, client by client.
LEMMA IInvParts == IInv => Parts
<1>1. IInv => ClientTypes /\ Good(arenas, heap)
  BY DEF IInv, TypeOK, ClientTypes
<1>2. IInv => Owned /\ NewIsNew
  BY DEF IInv, OneOwner, Owned, NewIsNew
<1>3. IInv => \A c \in Clients : ClientOK(c)
  BY DEF IInv, PointersServeRequests, CopyStaysInside, Stages, ClientOK
<1> QED
  BY <1>1, <1>2, <1>3 DEF Parts

\* Stated of the next state, where it is used.
LEMMA PartsNext == Parts' => IInv'
<1> SUFFICES ASSUME Parts' PROVE IInv'
  OBVIOUS
<1>1. TypeOK'
  BY DEF Parts, ClientTypes, TypeOK, Good, Sound, Shape
<1>2. OneOwner'
  <2>1. \A c \in Clients : (new[c] # Null => new[c] # ptr[c] /\ ptr[c] # Null)'
    BY DEF Parts, ClientOK, NewIsNew
  <2> QED
    BY <2>1 DEF Parts, OneOwner, Owned
<1>3. PointersServeRequests' /\ CopyStaysInside' /\ Stages'
  BY DEF Parts, PointersServeRequests, CopyStaysInside, Stages, ClientOK
<1> QED
  BY <1>1, <1>2, <1>3 DEF IInv, Parts

-----------------------------------------------------------------------------
(* Each action keeps IInv.                                                 *)

\* my_malloc() keeps the invariant.
LEMMA MallocKeeps ==
  ASSUME IInv, NEW c \in Clients, NEW n \in Sizes, Malloc(c, n)
  PROVE  IInv'
<1>1. /\ ClientTypes /\ Good(arenas, heap) /\ Owned /\ NewIsNew
      /\ \A d \in Clients : ClientOK(d)
  BY IInvParts DEF Parts
<1>2. PICK q : /\ my_malloc(n, q)
               /\ ptr' = [ptr EXCEPT ![c] = q]
               /\ req' = [req EXCEPT ![c] = IF q = Null THEN 0 ELSE n]
  BY DEF Malloc, Obtain
<1>3. /\ pc[c] = "idle" /\ ptr[c] = Null /\ new[c] = Null
      /\ pc' = pc /\ new' = new /\ want' = want /\ old' = old
  BY <1>1 DEF Malloc, Obtain, ClientOK
<1>4. Held(c) = {}
  BY <1>3 DEF Held
<1>5. \A d \in Clients \ {c} : ptr'[d] = ptr[d] /\ req'[d] = req[d]
  BY <1>1, <1>2 DEF ClientTypes
<1>6. \A d \in Clients : Held(d) \subseteq Allocated(heap)
  BY <1>1 DEF Owned
<1>7. CASE q = Null /\ arenas' = arenas /\ heap' = heap
  <2>1. ptr'[c] = Null /\ req'[c] = 0 /\ ClientTypes'
    BY <1>1, <1>2, <1>3, <1>7 DEF ClientTypes, Null
  <2>2. ptr' = ptr
    BY <1>1, <1>2, <1>3, <1>7 DEF ClientTypes
  <2>3. ClientOK(c)'
    BY <1>3, <2>1 DEF ClientOK
  <2>4. \A d \in Clients \ {c} : ClientOK(d)'
    BY <1>1, <1>3, <1>5, <1>7, Frame DEF Keeps, Allocated, Owned, Held
  <2>5. Owned' /\ NewIsNew' /\ Good(arenas', heap')
    BY <1>1, <1>3, <1>7, <2>2 DEF Owned, Held, NewIsNew
  <2> QED
    BY <2>1, <2>3, <2>4, <2>5, PartsNext DEF Parts
<1>8. CASE Handed(n, q)
  <2> DEFINE b == header_of(q)
  <2>1. /\ q \in Nat /\ q # Null /\ IsAligned(q)
        /\ b \notin Allocated(heap)
        /\ Allocated(heap') = Allocated(heap) \cup {b}
        /\ heap'.size[b] >= align_up(n)
        /\ Keeps(heap, heap', Allocated(heap))
        /\ Good(arenas', heap')
    BY <1>8 DEF Handed
  <2>2. ptr'[c] = q /\ req'[c] = n /\ ClientTypes'
    BY <1>1, <1>2, <1>3, <2>1, RequestFits DEF ClientTypes
  <2>3. Held(c)' = Held(c) \cup {b}
    BY <1>3, <1>4, <2>1, <2>2 DEF Held
  <2>4. ASSUME NEW d \in Clients \ {c} PROVE ClientOK(d)' /\ Held(d)' = Held(d)
    <3>1. Keeps(heap, heap', Held(d))
      BY <1>6, <2>1 DEF Keeps
    <3> QED
      BY <1>1, <1>3, <1>5, <3>1, Frame
  <2>5. heap'.size[b] >= n
    <3>1. b \in Block(heap') /\ HeapType(heap')
      BY <2>1 DEF Allocated, Good, Sound, Shape
    <3>2. heap'.size[b] \in Nat
      BY <3>1, BlockEnds
    <3> QED
      BY <2>1, <3>2, RequestFits
  <2>6. ClientOK(c)'
    BY <1>3, <2>1, <2>2, <2>5 DEF ClientOK, PayloadSize
  <2>7. Owned'
    BY <1>1, <2>1, <2>3, <2>4, OwnerAdds
  <2>8. NewIsNew'
    BY <1>1, <1>3, <1>5 DEF NewIsNew
  <2> QED
    BY <2>1, <2>2, <2>4, <2>6, <2>7, <2>8, PartsNext DEF Parts
<1> QED
  BY <1>1, <1>2, <1>7, <1>8, MallocHands

\* my_free() keeps the invariant.
LEMMA FreeKeeps ==
  ASSUME IInv, NEW c \in Clients, Free(c)
  PROVE  IInv'
<1> DEFINE b == header_of(ptr[c])
<1>1. /\ ClientTypes /\ Good(arenas, heap) /\ Owned /\ NewIsNew
      /\ \A d \in Clients : ClientOK(d)
  BY IInvParts DEF Parts
<1>2. /\ pc[c] = "idle" /\ ptr[c] # Null /\ new[c] = Null
      /\ pc' = pc /\ new' = new /\ want' = want /\ old' = old
      /\ heap' = Release(arenas, heap, b) /\ arenas' = arenas
      /\ ptr' = [ptr EXCEPT ![c] = Null] /\ req' = [req EXCEPT ![c] = 0]
  BY <1>1 DEF Free, my_free, ClientOK
<1>3. Held(c) = {b}
  BY <1>2 DEF Held
<1>4. b \in Allocated(heap)
  BY <1>2, HeldAllocated
<1>5. /\ Good(arenas', heap')
      /\ Allocated(heap') = Allocated(heap) \ {b}
      /\ Keeps(heap, heap', Allocated(heap) \ {b})
  <2> HIDE DEF b
  <2> QED
    BY <1>1, <1>2, <1>4, ReleaseGood
<1>6. ptr'[c] = Null /\ req'[c] = 0 /\ ClientTypes'
  BY <1>1, <1>2 DEF ClientTypes, Null
<1>7. Held(c)' = Held(c) \ {b}
  BY <1>2, <1>3, <1>6 DEF Held
<1>8. ASSUME NEW d \in Clients \ {c} PROVE ClientOK(d)' /\ Held(d)' = Held(d)
  <2>1. ptr'[d] = ptr[d] /\ req'[d] = req[d]
    BY <1>1, <1>2 DEF ClientTypes
  <2>2. Held(d) \subseteq Allocated(heap) \ {b}
    BY <1>1, <1>3 DEF Owned
  <2>3. Keeps(heap, heap', Held(d))
    BY <1>5, <2>2 DEF Keeps
  <2> QED
    BY <1>1, <1>2, <2>1, <2>3, Frame
<1>9. ClientOK(c)'
  BY <1>2, <1>6 DEF ClientOK
<1>10. Owned'
  BY <1>1, <1>3, <1>5, <1>7, <1>8, OwnerDrops
<1>11. NewIsNew'
  BY <1>1, <1>2, <1>6 DEF NewIsNew, ClientTypes
<1> QED
  BY <1>5, <1>6, <1>8, <1>9, <1>10, <1>11, PartsNext DEF Parts

\* The sizes of allocated blocks are aligned numbers.
LEMMA AllocatedSize ==
  ASSUME Good(arenas, heap), NEW b \in Allocated(heap)
  PROVE  b \in Nat /\ heap.size[b] \in Nat /\ IsAligned(heap.size[b])
<1>1. b \in Block(heap) /\ HeapType(heap)
  BY DEF Good, Sound, Shape, Allocated
<1> QED
  BY <1>1, BlockEnds DEF Good, Sound, AllAligned

\* my_realloc() of a size that already fits keeps the invariant.
LEMMA ReallocFitsKeeps ==
  ASSUME IInv, NEW c \in Clients, NEW n \in Sizes, ReallocFits(c, n)
  PROVE  IInv'
<1>1. /\ ClientTypes /\ Good(arenas, heap) /\ Owned /\ NewIsNew
      /\ \A d \in Clients : ClientOK(d)
  BY IInvParts DEF Parts
<1>2. /\ pc[c] = "idle" /\ ptr[c] # Null /\ new[c] = Null
      /\ align_up(n) <= PayloadSize(ptr[c])
      /\ req' = [req EXCEPT ![c] = n]
      /\ UNCHANGED <<arenas, heap, pc, ptr, new, want, old>>
  BY <1>1 DEF ReallocFits, Holding, ClientOK
<1>3. \A d \in Clients : Held(d) \subseteq Allocated(heap)
  BY <1>1 DEF Owned
<1>4. ASSUME NEW d \in Clients \ {c} PROVE ClientOK(d)'
  <2>1. req'[d] = req[d]
    BY <1>1, <1>2 DEF ClientTypes
  <2>2. Keeps(heap, heap', Held(d))
    BY <1>2, <1>3 DEF Keeps, Allocated
  <2> QED
    BY <1>1, <1>2, <2>1, <2>2, Frame
<1>5. ClientOK(c)'
  <2>1. header_of(ptr[c]) \in Allocated(heap)
    BY <1>2, HeldAllocated
  <2>2. PayloadSize(ptr[c]) \in Nat
    BY <1>1, <2>1, AllocatedSize DEF PayloadSize
  <2>3. PayloadSize(ptr[c]) >= n
    BY <1>2, <2>2, RequestFits
  <2>4. req'[c] = n /\ PayloadSize(ptr[c])' = PayloadSize(ptr[c])
    BY <1>1, <1>2 DEF ClientTypes, PayloadSize
  <2> QED
    BY <1>1, <1>2, <2>3, <2>4 DEF ClientOK
<1>6. ClientTypes'
  BY <1>1, <1>2, RequestFits DEF ClientTypes
<1>7. Owned' /\ NewIsNew' /\ Good(arenas', heap')
  BY <1>1, <1>2 DEF Owned, Held, NewIsNew
<1> QED
  BY <1>4, <1>5, <1>6, <1>7, PartsNext DEF Parts

\* my_realloc() that grows into its right neighbour keeps the invariant.
LEMMA ReallocInPlaceKeeps ==
  ASSUME IInv, NEW c \in Clients, NEW n \in Sizes, ReallocInPlace(c, n)
  PROVE  IInv'
<1> DEFINE b == header_of(ptr[c])
           m == align_up(n)
<1>1. /\ ClientTypes /\ Good(arenas, heap) /\ Owned /\ NewIsNew
      /\ \A d \in Clients : ClientOK(d)
  BY IInvParts DEF Parts
<1>2. /\ pc[c] = "idle" /\ ptr[c] # Null /\ new[c] = Null
      /\ m > heap.size[b] /\ CanGrow(b, m)
      /\ heap' = maybe_split(absorb_right_neighbor(heap, b, next_physical_header(heap, b)), b, m)
      /\ req' = [req EXCEPT ![c] = n]
      /\ UNCHANGED <<arenas, pc, ptr, new, want, old>>
  BY <1>1 DEF ReallocInPlace, Holding, ClientOK
<1>3. b \in Allocated(heap)
  BY <1>2, HeldAllocated
<1>4. m \in Nat /\ m >= 16 /\ IsAligned(m) /\ m >= n /\ n \in Nat
  BY RequestFits
<1>5. heap.size[b] \in Nat
  BY <1>1, <1>3, AllocatedSize
<1>6. /\ Good(arenas, heap')
      /\ Allocated(heap') = Allocated(heap)
      /\ heap'.size[b] >= m
      /\ Keeps(heap, heap', Allocated(heap) \ {b})
  <2> HIDE DEF b, m
  <2>1. /\ RightIsFree(arenas, heap, b)
        /\ combined_payload_size(heap, b, next_physical_header(heap, b)) >= m
    BY <1>2 DEF CanGrow
  <2>2. m >= heap.size[b]
    BY <1>2, <1>4, <1>5
  <2> QED
    BY <1>1, <1>2, <1>3, <1>4, <2>1, <2>2, GrowGood
<1>7. Held(c) = {b}
  BY <1>2 DEF Held
<1>8. ASSUME NEW d \in Clients \ {c} PROVE ClientOK(d)'
  <2>1. req'[d] = req[d]
    BY <1>1, <1>2 DEF ClientTypes
  <2>2. Held(d) \subseteq Allocated(heap) \ {b}
    BY <1>1, <1>7 DEF Owned
  <2>3. Keeps(heap, heap', Held(d))
    BY <1>6, <2>2 DEF Keeps
  <2> QED
    BY <1>1, <1>2, <2>1, <2>3, Frame
<1>9. heap'.size[b] >= n
  <2>1. b \in Block(heap') /\ HeapType(heap')
    BY <1>3, <1>6 DEF Allocated, Good, Sound, Shape
  <2>2. heap'.size[b] \in Nat
    BY <2>1, BlockEnds
  <2> QED
    BY <1>4, <1>6, <2>2
<1>10. ClientOK(c)'
  <2>1. req'[c] = n
    BY <1>1, <1>2 DEF ClientTypes
  <2> QED
    BY <1>1, <1>2, <1>9, <2>1 DEF ClientOK, PayloadSize
<1>11. ClientTypes'
  BY <1>1, <1>2, <1>4 DEF ClientTypes
<1>12. Owned' /\ NewIsNew' /\ Good(arenas', heap')
  BY <1>1, <1>2, <1>6 DEF Owned, Held, NewIsNew
<1> QED
  BY <1>8, <1>10, <1>11, <1>12, PartsNext DEF Parts

\* my_realloc() that leaves its critical section to move keeps the invariant.
LEMMA ReallocMissKeeps ==
  ASSUME IInv, NEW c \in Clients, NEW n \in Sizes, ReallocMiss(c, n)
  PROVE  IInv'
<1>1. /\ ClientTypes /\ Good(arenas, heap) /\ Owned /\ NewIsNew
      /\ \A d \in Clients : ClientOK(d)
  BY IInvParts DEF Parts
<1>2. /\ pc[c] = "idle" /\ ptr[c] # Null /\ new[c] = Null
      /\ align_up(n) > PayloadSize(ptr[c])
      /\ pc' = [pc EXCEPT ![c] = "move"]
      /\ want' = [want EXCEPT ![c] = n]
      /\ old' = [old EXCEPT ![c] = PayloadSize(ptr[c])]
      /\ UNCHANGED <<arenas, heap, ptr, req, new>>
  BY <1>1 DEF ReallocMiss, Holding, ClientOK
<1>3. \A d \in Clients : Held(d) \subseteq Allocated(heap)
  BY <1>1 DEF Owned
<1>4. header_of(ptr[c]) \in Allocated(heap)
  BY <1>2, HeldAllocated
<1>5. PayloadSize(ptr[c]) \in Nat /\ IsAligned(PayloadSize(ptr[c]))
  BY <1>1, <1>4, AllocatedSize DEF PayloadSize
<1>6. n > PayloadSize(ptr[c]) /\ n \in Nat
  <2>1. n \in Nat /\ align_up(n) \in Nat /\ n + 15 <= SizeMax
    BY RequestFits
  <2>2. n <= PayloadSize(ptr[c]) => align_up(n) <= PayloadSize(ptr[c])
    BY <1>5, <2>1, AlignUpLeast
  <2> QED
    BY <1>2, <1>5, <2>1, <2>2
<1>7. ASSUME NEW d \in Clients \ {c} PROVE ClientOK(d)'
  <2>1. pc'[d] = pc[d] /\ want'[d] = want[d] /\ old'[d] = old[d]
    BY <1>1, <1>2 DEF ClientTypes
  <2>2. Keeps(heap, heap', Held(d))
    BY <1>2, <1>3 DEF Keeps, Allocated
  <2> QED
    BY <1>1, <1>2, <2>1, <2>2, Frame
<1>8. ClientOK(c)'
  <2>1. pc'[c] = "move" /\ want'[c] = n /\ old'[c] = PayloadSize(ptr[c])
    BY <1>1, <1>2 DEF ClientTypes
  <2>2. PayloadSize(ptr[c])' = PayloadSize(ptr[c])
    BY <1>2 DEF PayloadSize
  <2> QED
    BY <1>1, <1>2, <1>6, <2>1, <2>2 DEF ClientOK
<1>9. ClientTypes'
  BY <1>1, <1>2, <1>5, <1>6 DEF ClientTypes
<1>10. Owned' /\ NewIsNew' /\ Good(arenas', heap')
  BY <1>1, <1>2 DEF Owned, Held, NewIsNew
<1> QED
  BY <1>7, <1>8, <1>9, <1>10, PartsNext DEF Parts

\* The my_malloc() inside my_realloc() keeps the invariant.
LEMMA ReallocMallocKeeps ==
  ASSUME IInv, NEW c \in Clients, ReallocMalloc(c)
  PROVE  IInv'
<1>1. /\ ClientTypes /\ Good(arenas, heap) /\ Owned /\ NewIsNew
      /\ \A d \in Clients : ClientOK(d)
  BY IInvParts DEF Parts
<1>2. PICK q :
        /\ my_malloc(want[c], q)
        /\ \/ q # Null /\ pc' = [pc EXCEPT ![c] = "copy"] /\ new' = [new EXCEPT ![c] = q]
              /\ want' = want /\ old' = old
           \/ q = Null /\ pc' = [pc EXCEPT ![c] = "idle"] /\ want' = [want EXCEPT ![c] = 0]
              /\ old' = [old EXCEPT ![c] = 0] /\ new' = new
  BY DEF ReallocMalloc
<1>3. /\ pc[c] = "move" /\ ptr[c] # Null /\ new[c] = Null
      /\ want[c] \in Sizes /\ want[c] > old[c]
      /\ old[c] = PayloadSize(ptr[c]) /\ PayloadSize(ptr[c]) >= req[c]
      /\ ptr' = ptr /\ req' = req
  BY <1>1 DEF ReallocMalloc, ClientOK
<1>4. header_of(ptr[c]) \in Allocated(heap) /\ Held(c) = {header_of(ptr[c])}
  <2>1. header_of(ptr[c]) \in Allocated(heap)
    BY <1>3, HeldAllocated
  <2> QED
    BY <1>3, <2>1 DEF Held
<1>5. \A d \in Clients : Held(d) \subseteq Allocated(heap)
  BY <1>1 DEF Owned
<1>6. \A d \in Clients \ {c} : /\ pc'[d] = pc[d] /\ new'[d] = new[d]
                               /\ want'[d] = want[d] /\ old'[d] = old[d]
  BY <1>1, <1>2 DEF ClientTypes
<1>7. CASE q = Null /\ arenas' = arenas /\ heap' = heap
  <2>1. /\ pc' = [pc EXCEPT ![c] = "idle"] /\ want' = [want EXCEPT ![c] = 0]
        /\ old' = [old EXCEPT ![c] = 0] /\ new' = new
    BY <1>2, <1>7
  <2>2. pc'[c] = "idle" /\ ClientTypes'
    BY <1>1, <1>3, <2>1 DEF ClientTypes
  <2>3. ClientOK(c)'
    BY <1>1, <1>3, <1>7, <2>1, <2>2 DEF ClientOK, PayloadSize
  <2>4. ASSUME NEW d \in Clients \ {c} PROVE ClientOK(d)'
    <3>1. Keeps(heap, heap', Held(d))
      BY <1>5, <1>7 DEF Keeps, Allocated
    <3> QED
      BY <1>1, <1>3, <1>6, <3>1, Frame
  <2>5. Owned' /\ NewIsNew' /\ Good(arenas', heap')
    BY <1>1, <1>3, <1>7, <2>1 DEF Owned, Held, NewIsNew
  <2> QED
    BY <2>2, <2>3, <2>4, <2>5, PartsNext DEF Parts
<1>8. CASE Handed(want[c], q)
  <2> DEFINE b == header_of(q)
             a == header_of(ptr[c])
  <2>1. /\ q \in Nat /\ q # Null /\ IsAligned(q)
        /\ b \notin Allocated(heap)
        /\ Allocated(heap') = Allocated(heap) \cup {b}
        /\ heap'.size[b] >= align_up(want[c])
        /\ Keeps(heap, heap', Allocated(heap))
        /\ Good(arenas', heap')
    BY <1>8 DEF Handed
  <2>2. /\ pc'[c] = "copy" /\ new'[c] = q /\ want' = want /\ old' = old /\ ClientTypes'
    BY <1>1, <1>2, <1>3, <2>1 DEF ClientTypes
  <2>3. Held(c)' = Held(c) \cup {b}
    <3>1. Held(c)' = {header_of(p) : p \in {ptr[c], q} \ {Null}}
      BY <1>3, <2>2 DEF Held
    <3> QED
      BY <1>3, <1>4, <2>1, <3>1
  <2>4. ASSUME NEW d \in Clients \ {c} PROVE ClientOK(d)' /\ Held(d)' = Held(d)
    <3>1. Keeps(heap, heap', Held(d))
      BY <1>5, <2>1 DEF Keeps
    <3> QED
      BY <1>1, <1>3, <1>6, <3>1, Frame
  <2>5. heap'.size[b] >= want[c] /\ heap'.size[b] \in Nat
    <3>1. b \in Block(heap') /\ HeapType(heap')
      BY <2>1 DEF Allocated, Good, Sound, Shape
    <3>2. heap'.size[b] \in Nat
      BY <3>1, BlockEnds
    <3> QED
      BY <1>3, <2>1, <3>2, RequestFits
  <2>6. heap'.size[a] = heap.size[a]
    BY <1>4, <2>1 DEF Keeps
  <2>7. heap.size[a] \in Nat /\ want[c] \in Nat
    BY <1>1, <1>3, <1>4, AllocatedSize, RequestFits
  <2>8. ClientOK(c)'
    <3>1. copy_size(c)' = heap.size[a]
      BY <1>3, <2>2, <2>7 DEF copy_size, PayloadSize
    <3>2. PayloadSize(ptr[c])' = heap.size[a] /\ PayloadSize(new[c])' = heap'.size[b]
      BY <1>3, <2>2, <2>6 DEF PayloadSize
    <3>3. heap.size[a] <= heap'.size[b]
      BY <1>3, <2>5, <2>7 DEF PayloadSize
    <3>4. heap.size[a] >= req[c] /\ old[c] = heap.size[a] /\ IsAligned(ptr[c])
      BY <1>1, <1>3 DEF ClientOK, PayloadSize
    <3> QED
      BY <1>3, <2>1, <2>2, <2>5, <2>7, <3>1, <3>2, <3>3, <3>4 DEF ClientOK
  <2>9. Owned'
    BY <1>1, <2>1, <2>3, <2>4, OwnerAdds
  <2>10. NewIsNew'
    <3>1. q # ptr[c]
      BY <1>4, <2>1
    <3> QED
      BY <1>1, <1>3, <1>6, <2>2, <3>1 DEF NewIsNew
  <2> QED
    BY <2>1, <2>2, <2>4, <2>8, <2>9, <2>10, PartsNext DEF Parts
<1> QED
  BY <1>1, <1>2, <1>3, <1>7, <1>8, MallocHands

\* The my_free() inside my_realloc() keeps the invariant.
LEMMA ReallocFreeKeeps ==
  ASSUME IInv, NEW c \in Clients, ReallocFree(c)
  PROVE  IInv'
<1> DEFINE a == header_of(ptr[c])
           b == header_of(new[c])
<1>1. /\ ClientTypes /\ Good(arenas, heap) /\ Owned /\ NewIsNew
      /\ \A d \in Clients : ClientOK(d)
  BY IInvParts DEF Parts
<1>2. /\ pc[c] = "copy" /\ ptr[c] # Null /\ new[c] # Null /\ new[c] # ptr[c]
      /\ IsAligned(new[c]) /\ PayloadSize(new[c]) >= want[c]
      /\ heap' = Release(arenas, heap, a) /\ arenas' = arenas
      /\ ptr' = [ptr EXCEPT ![c] = new[c]]
      /\ req' = [req EXCEPT ![c] = want[c]]
      /\ pc' = [pc EXCEPT ![c] = "idle"]
      /\ new' = [new EXCEPT ![c] = Null]
      /\ want' = [want EXCEPT ![c] = 0]
      /\ old' = [old EXCEPT ![c] = 0]
  BY <1>1 DEF ReallocFree, my_free, ClientOK, NewIsNew
<1>3. a \in Allocated(heap) /\ b \in Allocated(heap)
  BY <1>2, HeldAllocated
<1>4. a # b
  BY <1>1, <1>2, Headers DEF ClientTypes
<1>5. /\ Good(arenas', heap')
      /\ Allocated(heap') = Allocated(heap) \ {a}
      /\ Keeps(heap, heap', Allocated(heap) \ {a})
  <2> HIDE DEF a
  <2> QED
    BY <1>1, <1>2, <1>3, ReleaseGood
<1>6. /\ ptr'[c] = new[c] /\ req'[c] = want[c] /\ pc'[c] = "idle" /\ new'[c] = Null
      /\ ClientTypes'
  BY <1>1, <1>2 DEF ClientTypes, Null
<1>7. Held(c) = {a, b} /\ Held(c)' = {b}
  BY <1>2, <1>6 DEF Held
<1>8. ASSUME NEW d \in Clients \ {c} PROVE ClientOK(d)' /\ Held(d)' = Held(d)
  <2>1. /\ ptr'[d] = ptr[d] /\ req'[d] = req[d] /\ pc'[d] = pc[d] /\ new'[d] = new[d]
        /\ want'[d] = want[d] /\ old'[d] = old[d]
    BY <1>1, <1>2 DEF ClientTypes
  <2>2. Held(d) \subseteq Allocated(heap) \ {a}
    BY <1>1, <1>7 DEF Owned
  <2>3. Keeps(heap, heap', Held(d))
    BY <1>5, <2>2 DEF Keeps
  <2> QED
    BY <1>1, <2>1, <2>3, Frame
<1>9. ClientOK(c)'
  <2>1. heap'.size[b] = heap.size[b]
    BY <1>3, <1>4, <1>5 DEF Keeps
  <2>2. PayloadSize(ptr[c])' = PayloadSize(new[c])
    BY <1>6, <2>1 DEF PayloadSize
  <2> QED
    BY <1>2, <1>6, <2>2 DEF ClientOK
<1>10. Owned'
  <2>1. a \in Held(c) /\ Held(c)' = Held(c) \ {a}
    BY <1>4, <1>7
  <2> QED
    BY <1>1, <1>5, <1>8, <2>1, OwnerDrops
<1>11. NewIsNew'
  BY <1>1, <1>2, <1>6 DEF NewIsNew, ClientTypes
<1> QED
  BY <1>5, <1>6, <1>8, <1>9, <1>10, <1>11, PartsNext DEF Parts

\* A heap with no arenas and no blocks is in good order.
LEMMA EmptyGood == Good(<< >>, EmptyHeap) /\ Allocated(EmptyHeap) = {}
<1> DEFINE R == [base : Nat, size : Nat, used : Nat]
<1>1. /\ EmptyHeap.size = << >> /\ EmptyHeap.free = {} /\ EmptyHeap.ftr = << >>
      /\ EmptyHeap.fl = << >>
      /\ EmptyHeap = [size |-> << >>, free |-> {}, ftr |-> << >>, fl |-> << >>]
  BY DEF EmptyHeap
<1>2. DOMAIN << >> = {} /\ << >> \in Seq(Nat) /\ << >> \in [{} -> Nat]
  OBVIOUS
<1>3. << >> \in Seq(R)
  OBVIOUS
<1>4. Block(EmptyHeap) = {}
  BY <1>1, <1>2 DEF Block
<1> HIDE DEF R
<1>5. ArenasType(<< >>) /\ ArenasApart(<< >>)
  BY <1>2, <1>3 DEF ArenasType, ArenasApart, R
<1>6. HeapType(EmptyHeap)
  BY <1>1, <1>2, <1>4 DEF HeapType
<1>7. Tiled(<< >>, EmptyHeap) /\ InSync(EmptyHeap) /\ Roomy(EmptyHeap)
  BY <1>2, <1>4 DEF Tiled, InSync, Roomy
<1>8. AllAligned(<< >>, EmptyHeap) /\ Coalesced(<< >>, EmptyHeap)
  BY <1>1, <1>2, <1>4 DEF AllAligned, Coalesced
<1>9. Listed(EmptyHeap)
  BY <1>1, <1>2 DEF Listed, ToSet, IsInjective
<1> QED
  BY <1>4, <1>5, <1>6, <1>7, <1>8, <1>9 DEF Good, Sound, Shape, Allocated

\* allocator_shutdown() keeps the invariant.
LEMMA ShutdownKeeps ==
  ASSUME IInv, Shutdown
  PROVE  IInv'
<1>1. ClientTypes /\ \A d \in Clients : ClientOK(d)
  BY IInvParts DEF Parts
<1>2. /\ \A c \in Clients : pc[c] = "idle" /\ new[c] = Null
      /\ arenas' = << >> /\ heap' = EmptyHeap
      /\ ptr' = [c \in Clients |-> Null] /\ req' = [c \in Clients |-> 0]
      /\ UNCHANGED <<pc, new, want, old>>
  BY <1>1 DEF Shutdown, ClientOK
<1>3. Good(arenas', heap') /\ Allocated(heap') = {}
  BY <1>2, EmptyGood
<1>4. ClientTypes'
  BY <1>1, <1>2 DEF ClientTypes, Null
<1>5. \A c \in Clients : ptr'[c] = Null /\ new'[c] = Null /\ pc'[c] = "idle"
  BY <1>2
<1>6. \A c \in Clients : Held(c)' = {}
  BY <1>5 DEF Held
<1>7. Owned' /\ NewIsNew'
  BY <1>3, <1>5, <1>6 DEF Owned, NewIsNew
<1>8. \A c \in Clients : ClientOK(c)'
  BY <1>5 DEF ClientOK
<1> QED
  BY <1>3, <1>4, <1>7, <1>8, PartsNext DEF Parts

-----------------------------------------------------------------------------
(* The theorems.                                                           *)

\* A heap that has never been used is in order.
LEMMA InitHolds == Init => IInv
<1> SUFFICES ASSUME Init PROVE IInv
  OBVIOUS
<1>1. Good(arenas, heap) /\ Allocated(heap) = {}
  BY EmptyGood DEF Init
<1>2. \A c \in Clients : /\ pc[c] = "idle" /\ ptr[c] = Null /\ new[c] = Null
                         /\ Held(c) = {}
  BY DEF Init, Held
<1>3. TypeOK
  BY <1>1 DEF Init, TypeOK, Good, Sound, Shape, Null
<1>4. OneOwner
  BY <1>1, <1>2 DEF OneOwner
<1>5. PointersServeRequests /\ CopyStaysInside /\ Stages
  BY <1>2 DEF PointersServeRequests, CopyStaysInside, Stages
<1> QED
  BY <1>1, <1>3, <1>4, <1>5 DEF IInv

\* Every step keeps the invariant.
LEMMA StepKeeps == IInv /\ [Next]_vars => IInv'
<1> SUFFICES ASSUME IInv, [Next]_vars PROVE IInv'
  OBVIOUS
<1>1. ASSUME NEW c \in Clients, NEW n \in Sizes, Malloc(c, n) PROVE IInv'
  BY <1>1, MallocKeeps
<1>2. ASSUME NEW c \in Clients, NEW n \in Sizes, ReallocFits(c, n) PROVE IInv'
  BY <1>2, ReallocFitsKeeps
<1>3. ASSUME NEW c \in Clients, NEW n \in Sizes, ReallocInPlace(c, n) PROVE IInv'
  BY <1>3, ReallocInPlaceKeeps
<1>4. ASSUME NEW c \in Clients, NEW n \in Sizes, ReallocMiss(c, n) PROVE IInv'
  BY <1>4, ReallocMissKeeps
<1>5. ASSUME NEW c \in Clients, Free(c) PROVE IInv'
  BY <1>5, FreeKeeps
<1>6. ASSUME NEW c \in Clients, ReallocMalloc(c) PROVE IInv'
  BY <1>6, ReallocMallocKeeps
<1>7. ASSUME NEW c \in Clients, ReallocFree(c) PROVE IInv'
  BY <1>7, ReallocFreeKeeps
<1>8. CASE Shutdown
  BY <1>8, ShutdownKeeps
<1>9. CASE UNCHANGED vars
  BY <1>9, SMTT(30) DEF vars, IInv, TypeOK, OneOwner, Held, PointersServeRequests,
              CopyStaysInside, copy_size, PayloadSize, Stages
<1> QED
  BY <1>1, <1>2, <1>3, <1>4, <1>5, <1>6, <1>7, <1>8, <1>9, NextSteps DEF Steps

\* The general path keeps its heap, and what clients hold, in order, however
\* the calls of the clients interleave.
THEOREM InOrder == Spec => []IInv
BY InitHolds, StepKeeps, PTL DEF Spec

\* Every variable has its type.
THEOREM TypeCorrect == Spec => []TypeOK
<1>1. IInv => TypeOK
  BY DEF IInv
<1> QED
  BY <1>1, InOrder, PTL

\* Blocks tile the carved part of every arena: the address arithmetic of
\* next_physical_header() and preceding_footer() always lands on a block.
THEOREM Tiling == Spec => []BlocksTileArenas
<1>1. IInv => BlocksTileArenas
  BY DEF IInv, Good, Sound, Shape, BlocksTileArenas
<1> QED
  BY <1>1, InOrder, PTL

\* No block is ever left with a stale footer.
THEOREM Footers == Spec => []FootersInSync
<1>1. IInv => FootersInSync
  BY DEF IInv, Good, Sound, FootersInSync
<1> QED
  BY <1>1, InOrder, PTL

\* The free list holds the free blocks, each once.
THEOREM FreeList == Spec => []FreeListExact
<1>1. IInv => FreeListExact
  BY DEF IInv, Good, FreeListExact
<1> QED
  BY <1>1, InOrder, PTL

\* No two free blocks of an arena touch.
THEOREM Coalescing == Spec => []FullyCoalesced
<1>1. IInv => FullyCoalesced
  BY DEF IInv, Good, FullyCoalesced
<1> QED
  BY <1>1, InOrder, PTL

\* No block is handed out twice, and none is lost.
THEOREM Ownership == Spec => []OneOwner
<1>1. IInv => OneOwner
  BY DEF IInv
<1> QED
  BY <1>1, InOrder, PTL

\* Pointers are aligned and have the room asked for.
THEOREM Service == Spec => []PointersServeRequests
<1>1. IInv => PointersServeRequests
  BY DEF IInv
<1> QED
  BY <1>1, InOrder, PTL

\* The memcpy of my_realloc uses a size read before the lock was released;
\* it still stays inside both blocks.
THEOREM CopyInside == Spec => []CopyStaysInside
<1>1. IInv => CopyStaysInside
  BY DEF IInv
<1> QED
  BY <1>1, InOrder, PTL

\* When everything has been freed each arena is one block again.
THEOREM Wholeness == Spec => []FreedArenasAreWhole
<1>1. IInv => FreedArenasAreWhole
  <2> SUFFICES ASSUME IInv, Allocated(heap) = {}, NEW i \in DOMAIN arenas
               PROVE  /\ arenas[i].base \in Block(heap)
                      /\ next_physical_header(heap, arenas[i].base) = CarvedEnd(arenas[i])
    BY DEF FreedArenasAreWhole
  <2> DEFINE b == arenas[i].base
             E(d) == next_physical_header(heap, d)
  <2>1. /\ Shape(arenas, heap) /\ ArenasType(arenas) /\ ArenasApart(arenas)
        /\ HeapType(heap) /\ Tiled(arenas, heap) /\ Coalesced(arenas, heap)
    BY DEF IInv, Good, Sound, Shape
  <2>2. b \in Block(heap)
    BY <2>1 DEF Tiled
  <2>3. PICK d \in Block(heap) : Within(arenas, heap, i, d) /\ E(d) = CarvedEnd(arenas[i])
    BY <2>1 DEF Tiled
  <2>4. PICK j \in DOMAIN arenas : Within(arenas, heap, j, b)
    BY <2>1, <2>2 DEF Tiled
  <2>5. b \in Nat /\ b < CarvedEnd(arenas[i])
    <3>1. d \in Nat /\ heap.size[d] \in Nat /\ E(d) = d + 32 + heap.size[d]
      BY <2>1, BlockEnds
    <3>2. b \in Nat /\ b <= d
      BY <2>1, <2>3, ArenaEnds DEF Within
    <3> QED
      BY <2>3, <3>1, <3>2
  <2>6. i = j
    <3>1. heap.size[b] \in Nat /\ E(b) = b + 32 + heap.size[b] /\ E(b) \in Nat
      BY <2>1, <2>2, BlockEnds
    <3>2. arenas[j].base <= b /\ E(b) <= CarvedEnd(arenas[j])
      BY <2>4 DEF Within
    <3>3. CarvedEnd(arenas[j]) \in Nat
      BY <2>1, ArenaEnds
    <3>4. arenas[i].base <= b /\ b < CarvedEnd(arenas[j])
      BY <2>5, <3>1, <3>2, <3>3
    <3> HIDE DEF b, E
    <3> QED
      BY <2>1, <2>5, <3>2, <3>4, OneArena DEF b
  <2>7. Within(arenas, heap, i, b)
    BY <2>4, <2>6
  <2> HIDE DEF b, E
  <2>8. ASSUME E(b) # CarvedEnd(arenas[i]) PROVE FALSE
    <3>1. HasRightNeighbor(arenas, heap, b) /\ E(b) \in Block(heap)
      BY <2>1, <2>2, <2>7, <2>8, RightNeighbor DEF E
    <3>2. E(b) \in heap.free /\ b \in heap.free
      BY <2>2, <3>1 DEF Allocated
    <3> QED
      BY <2>1, <3>1, <3>2 DEF Coalesced, RightIsFree, E
  <2> QED
    BY <2>2, <2>8 DEF b, E
<1> QED
  BY <1>1, InOrder, PTL

-----------------------------------------------------------------------------
(* Steps of one client and the blocks of another.                          *)

\* Blocks that stay allocated with the size they had, or a larger one.
Spared(S) == \A b \in S : b \in Allocated(heap') /\ heap'.size[b] >= heap.size[b]

\* Blocks that keep their size and stay allocated are spared.
LEMMA KeptAreSpared ==
  ASSUME Good(arenas, heap), NEW S, S \subseteq Allocated(heap),
         S \subseteq Allocated(heap'), Keeps(heap, heap', S)
  PROVE  Spared(S)
<1> SUFFICES ASSUME NEW b \in S
             PROVE  b \in Allocated(heap') /\ heap'.size[b] >= heap.size[b]
  BY DEF Spared
<1>1. heap.size[b] \in Nat
  BY AllocatedSize
<1>2. heap'.size[b] = heap.size[b]
  BY DEF Keeps
<1> QED
  BY <1>1, <1>2

\* The critical sections of my_malloc spare every allocated block.
LEMMA MallocSpares ==
  ASSUME Good(arenas, heap), NEW n \in Sizes, NEW q, my_malloc(n, q)
  PROVE  Spared(Allocated(heap))
<1>1. CASE Handed(n, q)
  <2>1. Allocated(heap) \subseteq Allocated(heap') /\ Keeps(heap, heap', Allocated(heap))
    BY <1>1 DEF Handed
  <2> QED
    BY <2>1, KeptAreSpared
<1>2. CASE heap' = heap
  BY <1>2, AllocatedSize DEF Spared
<1> QED
  BY <1>1, <1>2, MallocHands

\* The critical section of my_free spares every other allocated block.
LEMMA FreeSpares ==
  ASSUME Good(arenas, heap), NEW p, header_of(p) \in Allocated(heap), my_free(p)
  PROVE  Spared(Allocated(heap) \ {header_of(p)})
<1> DEFINE b == header_of(p)
<1>1. heap' = Release(arenas, heap, b)
  BY DEF my_free
<1>2. b \in Allocated(heap)
  OBVIOUS
<1> HIDE DEF b
<1>3. /\ Allocated(heap') = Allocated(heap) \ {b}
      /\ Keeps(heap, heap', Allocated(heap) \ {b})
  BY <1>1, <1>2, ReleaseGood
<1>4. Spared(Allocated(heap) \ {b})
  BY <1>3, KeptAreSpared
<1> QED
  BY <1>4 DEF b

\* Growing in place spares them all.
LEMMA GrowSpares ==
  ASSUME Good(arenas, heap), NEW n \in Sizes, NEW b \in Allocated(heap),
         align_up(n) > heap.size[b], CanGrow(b, align_up(n)),
         heap' = maybe_split(absorb_right_neighbor(heap, b, next_physical_header(heap, b)),
                             b, align_up(n))
  PROVE  Spared(Allocated(heap))
<1> DEFINE m == align_up(n)
<1>1. m \in Nat /\ m >= 16 /\ IsAligned(m)
  BY RequestFits
<1>2. heap.size[b] \in Nat
  BY AllocatedSize
<1>3. m > heap.size[b] /\ CanGrow(b, m)
  OBVIOUS
<1>4. heap' = maybe_split(absorb_right_neighbor(heap, b, next_physical_header(heap, b)), b, m)
  OBVIOUS
<1> HIDE DEF m
<1>5. /\ RightIsFree(arenas, heap, b) /\ m >= heap.size[b]
      /\ combined_payload_size(heap, b, next_physical_header(heap, b)) >= m
  BY <1>1, <1>2, <1>3 DEF CanGrow
<1>6. /\ Good(arenas, heap')
      /\ Allocated(heap') = Allocated(heap)
      /\ heap'.size[b] >= m
      /\ Keeps(heap, heap', Allocated(heap) \ {b})
  BY <1>1, <1>4, <1>5, GrowGood
<1>7. Spared(Allocated(heap) \ {b})
  BY <1>6, KeptAreSpared
<1>8. heap'.size[b] >= heap.size[b]
  <2>1. b \in Block(heap') /\ HeapType(heap')
    BY <1>6 DEF Allocated, Good, Sound, Shape
  <2>2. heap'.size[b] \in Nat
    BY <2>1, BlockEnds
  <2> QED
    BY <1>1, <1>2, <1>5, <1>6, <2>2
<1> QED
  BY <1>6, <1>7, <1>8 DEF Spared

\* Whatever the step, a client that keeps its pointer keeps its block.
LEMMA StepSpares ==
  ASSUME IInv, Steps \/ UNCHANGED vars, NEW d \in Clients, ptr[d] # Null, ptr'[d] = ptr[d]
  PROVE  Spared({header_of(ptr[d])})
<1>1. Good(arenas, heap) /\ ClientTypes /\ Owned /\ \A c \in Clients : ClientOK(c)
  BY IInvParts DEF Parts
<1>2. header_of(ptr[d]) \in Allocated(heap)
  BY HeldAllocated
<1>3. ASSUME Spared(Allocated(heap)) PROVE Spared({header_of(ptr[d])})
  BY <1>2, <1>3 DEF Spared
<1>4. ASSUME NEW c \in Clients, NEW n \in Sizes, Malloc(c, n)
      PROVE  Spared({header_of(ptr[d])})
  BY <1>1, <1>3, <1>4, MallocSpares DEF Malloc, Obtain
<1>5. ASSUME heap' = heap PROVE Spared({header_of(ptr[d])})
  BY <1>1, <1>2, <1>5, AllocatedSize DEF Spared
<1>6. ASSUME NEW c \in Clients, NEW n \in Sizes, ReallocFits(c, n) \/ ReallocMiss(c, n)
      PROVE  Spared({header_of(ptr[d])})
  BY <1>5, <1>6 DEF ReallocFits, ReallocMiss
<1>7. ASSUME NEW c \in Clients, NEW n \in Sizes, ReallocInPlace(c, n)
      PROVE  Spared({header_of(ptr[d])})
  <2>1. header_of(ptr[c]) \in Allocated(heap)
    BY <1>7, HeldAllocated DEF ReallocInPlace, Holding
  <2> QED
    BY <1>1, <1>3, <1>7, <2>1, GrowSpares DEF ReallocInPlace
<1>8. ASSUME NEW c \in Clients, Free(c) \/ ReallocFree(c)
      PROVE  Spared({header_of(ptr[d])})
  <2>1. ptr[c] # Null /\ my_free(ptr[c])
    BY <1>1, <1>8 DEF Free, ReallocFree, ClientOK
  <2>2. header_of(ptr[c]) \in Allocated(heap)
    BY <2>1, HeldAllocated
  <2>3. Spared(Allocated(heap) \ {header_of(ptr[c])})
    BY <1>1, <2>1, <2>2, FreeSpares
  <2>4. ptr'[c] # ptr[c]
    <3>1. CASE Free(c)
      BY <1>1, <2>1, <3>1 DEF Free, ClientTypes
    <3>2. CASE ReallocFree(c)
      <4>1. new[c] # ptr[c]
        BY <1>1, <3>2 DEF IInv, OneOwner, ReallocFree, ClientOK
      <4> QED
        BY <1>1, <3>2, <4>1 DEF ReallocFree, ClientTypes
    <3> QED
      BY <1>8, <3>1, <3>2
  <2>5. ptr[c] # ptr[d]
    <3>1. c # d
      BY <2>4
    <3>2. header_of(ptr[c]) \in Held(c) /\ header_of(ptr[d]) \in Held(d)
      BY <2>1 DEF Held
    <3> QED
      BY <1>1, <3>1, <3>2 DEF Owned
  <2>6. header_of(ptr[c]) # header_of(ptr[d])
    BY <1>1, <2>5, Headers DEF ClientTypes
  <2> QED
    BY <1>2, <2>3, <2>6 DEF Spared
<1>9. ASSUME NEW c \in Clients, ReallocMalloc(c) PROVE Spared({header_of(ptr[d])})
  <2>1. want[c] \in Sizes
    BY <1>1, <1>9 DEF ReallocMalloc, ClientOK
  <2> QED
    BY <1>1, <1>3, <1>9, <2>1, MallocSpares DEF ReallocMalloc
<1>10. ~Shutdown
  BY DEF Shutdown
<1>11. CASE UNCHANGED vars
  BY <1>5, <1>11 DEF vars
<1> QED
  BY <1>4, <1>6, <1>7, <1>8, <1>9, <1>10, <1>11 DEF Steps

\* No step takes bytes from a block while a client keeps the pointer to it.
THEOREM BytesKept == Spec => HeldBlocksKeepTheirBytes
<1> DEFINE Keep == \A c \in Clients : ptr[c] # Null /\ ptr'[c] = ptr[c] =>
                     LET b == header_of(ptr[c])
                     IN  /\ b \in DOMAIN heap'.size
                         /\ heap'.size[b] >= heap.size[b]
                         /\ b \notin heap'.free
<1>1. IInv /\ [Next]_vars => Keep
  BY StepSpares, NextSteps DEF Spared, Allocated, Block
<1>2. HeldBlocksKeepTheirBytes <=> [][Keep]_vars
  BY DEF HeldBlocksKeepTheirBytes
<1> HIDE DEF Keep
<1> QED
  BY <1>1, <1>2, InOrder, PTL DEF Spec

-----------------------------------------------------------------------------
(* The general path implements HeapContract: the initial states map to the *)
(* initial states of the contract, and every step to a step of it or to a  *)
(* step that changes nothing a client can see.                             *)

\* What the contract calls region.
Region == [c \in Clients |-> ClientRegion(c)]

\* A client that holds nothing has asked for nothing.
NothingAsked == \A c \in Clients : ptr[c] = Null => req[c] = 0

\* A client without a pointer has no request on record: my_malloc() that fails
\* and my_free() leave none.
LEMMA NothingAskedHolds == Spec => []NothingAsked
<1>1. Init => NothingAsked
  BY DEF Init, NothingAsked
<1>2. IInv /\ NothingAsked /\ [Next]_vars => NothingAsked'
  <2> SUFFICES ASSUME IInv, NothingAsked, [Next]_vars PROVE NothingAsked'
    OBVIOUS
  <2>1. ClientTypes /\ \A c \in Clients : ClientOK(c)
    BY IInvParts DEF Parts
  <2>2. ASSUME NEW c \in Clients, NEW n \in Sizes, Malloc(c, n) PROVE NothingAsked'
    <3>1. PICK q : /\ ptr' = [ptr EXCEPT ![c] = q]
                   /\ req' = [req EXCEPT ![c] = IF q = Null THEN 0 ELSE n]
      BY <2>2 DEF Malloc, Obtain
    <3> QED
      BY <2>1, <3>1 DEF NothingAsked, ClientTypes
  <2>3. ASSUME NEW c \in Clients, NEW n \in Sizes,
               ReallocFits(c, n) \/ ReallocInPlace(c, n) \/ ReallocMiss(c, n)
        PROVE  NothingAsked'
    BY <2>1, <2>3 DEF NothingAsked, ClientTypes, ReallocFits, ReallocInPlace, ReallocMiss, Holding
  <2>4. ASSUME NEW c \in Clients, Free(c) PROVE NothingAsked'
    BY <2>1, <2>4 DEF NothingAsked, ClientTypes, Free
  <2>5. ASSUME NEW c \in Clients, ReallocMalloc(c) PROVE NothingAsked'
    BY <2>1, <2>5 DEF NothingAsked, ClientTypes, ReallocMalloc
  <2>6. ASSUME NEW c \in Clients, ReallocFree(c) PROVE NothingAsked'
    <3>1. new[c] # Null /\ ptr' = [ptr EXCEPT ![c] = new[c]] /\ req' = [req EXCEPT ![c] = want[c]]
      BY <2>1, <2>6 DEF ReallocFree, ClientOK
    <3> QED
      BY <2>1, <3>1 DEF NothingAsked, ClientTypes
  <2>7. CASE Shutdown
    BY <2>7 DEF NothingAsked, Shutdown
  <2>8. CASE UNCHANGED vars
    BY <2>8 DEF NothingAsked, vars
  <2> QED
    BY <2>2, <2>3, <2>4, <2>5, <2>6, <2>7, <2>8, NextSteps DEF Steps
<1> QED
  BY <1>1, <1>2, InOrder, PTL DEF Spec

-----------------------------------------------------------------------------
(* Regions.                                                                *)

\* A region and the three values it is made of.
RegionOf(p, s, r) == [addr |-> p, room |-> IF p = Null THEN 0 ELSE s, asked |-> r]

\* The fields of a region are the values it was made of.
LEMMA RegionFields ==
  ASSUME NEW p, NEW s, NEW r
  PROVE  /\ RegionOf(p, s, r).addr = p /\ RegionOf(p, s, r).asked = r
         /\ p # Null => RegionOf(p, s, r).room = s /\ RegionOf(p, s, r) # Contract!NoRegion
         /\ p = Null /\ r = 0 => RegionOf(p, s, r) = Contract!NoRegion
BY DEF RegionOf, Contract!NoRegion, Null

\* The payloads of two blocks share no byte.
LEMMA PayloadsApart ==
  ASSUME NEW A, NEW hp, Good(A, hp), NEW p \in Nat, NEW q \in Nat, p # q,
         p # Null, q # Null,
         header_of(p) \in Block(hp), header_of(q) \in Block(hp),
         NEW r, NEW s
  PROVE  Contract!Apart(RegionOf(p, hp.size[header_of(p)], r),
                        RegionOf(q, hp.size[header_of(q)], s))
<1> DEFINE a == header_of(p)
           b == header_of(q)
<1>1. a = p - 16 /\ b = q - 16
  BY DEF header_of, HeaderSize
<1>2. a \in Block(hp) /\ b \in Block(hp)
  OBVIOUS
<1> HIDE DEF a, b
<1>3. /\ a \in Nat /\ hp.size[a] \in Nat
      /\ next_physical_header(hp, a) = a + 32 + hp.size[a]
      /\ b \in Nat /\ hp.size[b] \in Nat
      /\ next_physical_header(hp, b) = b + 32 + hp.size[b]
  BY <1>2, BlockEnds DEF Good, Sound, Shape
<1>4. a # b
  BY <1>1
<1>5. next_physical_header(hp, a) <= b \/ next_physical_header(hp, b) <= a
  BY <1>2, <1>4 DEF Good, Sound, Shape, Tiled
<1>6. p + hp.size[a] <= q \/ q + hp.size[b] <= p
  BY <1>1, <1>3, <1>5
<1>7. Contract!Apart(RegionOf(p, hp.size[a], r), RegionOf(q, hp.size[b], s))
  BY <1>6, RegionFields DEF Contract!Apart
<1> QED
  BY <1>7 DEF a, b

\* What the contract sees of one client.
LEMMA RegionAt ==
  ASSUME NEW c \in Clients
  PROVE  /\ Region[c] = RegionOf(ptr[c], PayloadSize(ptr[c]), req[c])
         /\ Region'[c] = RegionOf(ptr'[c], heap'.size[header_of(ptr'[c])], req'[c])
BY DEF Region, ClientRegion, RegionOf, PayloadSize

\* A client whose pointer, request and block are as they were.
LEMMA SameRegion ==
  ASSUME NEW d \in Clients, ptr'[d] = ptr[d], req'[d] = req[d],
         ptr[d] # Null => heap'.size[header_of(ptr[d])] = heap.size[header_of(ptr[d])]
  PROVE  Region'[d] = Region[d]
BY RegionAt DEF RegionOf, PayloadSize

\* The next state of a client's region, as IInv' describes it.
LEMMA NextRegion ==
  ASSUME IInv', NEW c \in Clients, ptr'[c] # Null
  PROVE  /\ ptr'[c] \in Nat /\ IsAligned(ptr'[c])
         /\ header_of(ptr'[c]) \in Block(heap')
         /\ heap'.size[header_of(ptr'[c])] >= req'[c]
         /\ Good(arenas', heap')
<1>1. ptr'[c] \in Nat
  BY DEF IInv, TypeOK
<1>2. header_of(ptr'[c]) \in Allocated(heap')
  BY DEF IInv, OneOwner, Held
<1>3. IsAligned(ptr'[c]) /\ heap'.size[header_of(ptr'[c])] >= req'[c]
  BY DEF IInv, PointersServeRequests, PayloadSize
<1> QED
  BY <1>1, <1>2, <1>3 DEF IInv, Allocated

\* Whatever a client holds after a step is usable, if the others' regions
\* are as they were.
LEMMA NextUsable ==
  ASSUME IInv', NothingAsked', NEW c \in Clients, ptr'[c] # Null,
         \A d \in Clients \ {c} : Region'[d] = Region[d]
  PROVE  Contract!Usable(Region'[c], c)
<1> DEFINE s == heap'.size[header_of(ptr'[c])]
<1>1. /\ ptr'[c] \in Nat /\ IsAligned(ptr'[c])
      /\ header_of(ptr'[c]) \in Block(heap')
      /\ s >= req'[c]
      /\ Good(arenas', heap')
  BY NextRegion
<1>2. Region'[c] = RegionOf(ptr'[c], s, req'[c])
  BY RegionAt
<1> HIDE DEF s
<1>3. Region'[c].addr = ptr'[c] /\ Region'[c].room = s /\ Region'[c].asked = req'[c]
  BY <1>2, RegionFields
<1>4. ptr'[c] > 0 /\ ptr'[c] % Alignment = 0
  BY <1>1 DEF IsAligned, Null
<1>5. ASSUME NEW d \in Clients \ {c}, Region[d] # Contract!NoRegion
      PROVE  Contract!Apart(Region'[c], Region[d])
  <2> DEFINE t == heap'.size[header_of(ptr'[d])]
  <2>1. Region[d] = RegionOf(ptr'[d], t, req'[d])
    BY RegionAt
  <2>2. ptr'[d] # Null
    BY <1>5, <2>1, RegionFields DEF NothingAsked
  <2>3. ptr'[d] \in Nat /\ header_of(ptr'[d]) \in Block(heap')
    BY <2>2, NextRegion
  <2>4. ptr'[c] # ptr'[d]
    <3>1. header_of(ptr'[c]) \in Held(c)' /\ header_of(ptr'[d]) \in Held(d)'
      BY <2>2 DEF Held
    <3>2. Held(c)' \cap Held(d)' = {}
      BY DEF IInv, OneOwner
    <3> QED
      BY <3>1, <3>2
  <2>5. Contract!Apart(RegionOf(ptr'[c], heap'.size[header_of(ptr'[c])], req'[c]),
                       RegionOf(ptr'[d], heap'.size[header_of(ptr'[d])], req'[d]))
    BY <1>1, <2>2, <2>3, <2>4, PayloadsApart
  <2> QED
    BY <1>2, <2>1, <2>5 DEF s
<1>6. \A d \in Clients \ {c} : Contract!Holds(d) => Contract!Apart(Region'[c], [e \in Clients |-> ClientRegion(e)][d])
  BY <1>5 DEF Contract!Holds, Region
<1> QED
  BY <1>1, <1>3, <1>4, <1>6 DEF Contract!Usable

\* A client holds a region exactly when it has a pointer.
LEMMA HoldsPointer ==
  ASSUME NothingAsked, NEW c \in Clients
  PROVE  /\ Contract!Holds(c) <=> ptr[c] # Null
         /\ Contract!Holds(c) <=> Region[c] # Contract!NoRegion
<1>1. Contract!Holds(c) <=> Region[c] # Contract!NoRegion
  BY DEF Contract!Holds, Region
<1>2. Region[c] # Contract!NoRegion <=> ptr[c] # Null
  BY RegionAt, RegionFields DEF NothingAsked
<1> QED
  BY <1>1, <1>2

\* One client's region changes: the form of the contract's actions.
LEMMA OneRegion ==
  ASSUME NEW c \in Clients, \A d \in Clients \ {c} : Region'[d] = Region[d]
  PROVE  Region' = [Region EXCEPT ![c] = Region'[c]]
<1>1. /\ Region' = [d \in Clients |-> Region'[d]]
      /\ Region = [d \in Clients |-> Region[d]]
  BY DEF Region
<1> QED
  BY <1>1

\* What the critical sections do not touch.
LEMMA OthersSame ==
  ASSUME IInv, NEW d \in Clients, ptr'[d] = ptr[d], req'[d] = req[d],
         Keeps(heap, heap', Held(d))
  PROVE  Region'[d] = Region[d]
<1>1. ptr[d] # Null => heap'.size[header_of(ptr[d])] = heap.size[header_of(ptr[d])]
  BY DEF Keeps, Held
<1> QED
  BY <1>1, SameRegion

-----------------------------------------------------------------------------
(* Each action and the step of the contract it is.                         *)

\* my_malloc that succeeds is Acquire; one that fails is no step.
LEMMA MallocMaps ==
  ASSUME IInv, IInv', NothingAsked, NothingAsked',
         NEW c \in Clients, NEW n \in Sizes, Malloc(c, n)
  PROVE  Contract!Acquire(c) \/ Region' = Region
<1>1. ClientTypes /\ Good(arenas, heap) /\ Owned
  BY IInvParts DEF Parts
<1>2. PICK q : /\ my_malloc(n, q)
               /\ ptr' = [ptr EXCEPT ![c] = q]
               /\ req' = [req EXCEPT ![c] = IF q = Null THEN 0 ELSE n]
  BY DEF Malloc, Obtain
<1>3. ptr[c] = Null /\ req[c] = 0
  BY DEF Malloc, Obtain, NothingAsked
<1>4. ptr'[c] = q /\ req'[c] = IF q = Null THEN 0 ELSE n
  BY <1>1, <1>2 DEF ClientTypes
<1>5. Keeps(heap, heap', Allocated(heap))
  BY <1>1, <1>2, MallocHands DEF Handed, Keeps, Allocated
<1>6. \A d \in Clients \ {c} : Region'[d] = Region[d]
  <2> SUFFICES ASSUME NEW d \in Clients \ {c} PROVE Region'[d] = Region[d]
    OBVIOUS
  <2>1. ptr'[d] = ptr[d] /\ req'[d] = req[d]
    BY <1>1, <1>2 DEF ClientTypes
  <2>2. Keeps(heap, heap', Held(d))
    BY <1>1, <1>5 DEF Keeps, Owned
  <2> QED
    BY <2>1, <2>2, OthersSame
<1>7. CASE q = Null
  <2>1. Region'[c] = Region[c]
    BY <1>3, <1>4, <1>7, SameRegion
  <2>2. \A d \in Clients : Region'[d] = Region[d]
    BY <1>6, <2>1
  <2> QED
    BY <2>2, RegionAt DEF Region
<1>8. CASE q # Null
  <2>1. Contract!Usable(Region'[c], c)
    BY <1>4, <1>6, <1>8, NextUsable
  <2>2. ~Contract!Holds(c)
    BY <1>3, HoldsPointer
  <2>3. Region' = [Region EXCEPT ![c] = Region'[c]]
    BY <1>6, OneRegion
  <2> QED
    BY <2>1, <2>2, <2>3 DEF Contract!Acquire, Region
<1> QED
  BY <1>7, <1>8

\* A resize that stays in place.
LEMMA InPlaceMaps ==
  ASSUME IInv, IInv', NothingAsked, NothingAsked',
         NEW c \in Clients, NEW n \in Sizes,
         ReallocFits(c, n) \/ ReallocInPlace(c, n)
  PROVE  Contract!ResizeInPlace(c)
<1> DEFINE b == header_of(ptr[c])
<1>1. ClientTypes /\ Good(arenas, heap) /\ Owned /\ ClientOK(c)
  BY IInvParts DEF Parts
<1>2. pc[c] = "idle" /\ ptr[c] # Null /\ ptr' = ptr /\ req' = [req EXCEPT ![c] = n]
  BY DEF ReallocFits, ReallocInPlace, Holding
<1>3. b \in Allocated(heap) /\ Held(c) = {b}
  <2>1. new[c] = Null
    BY <1>1, <1>2 DEF ClientOK
  <2> QED
    BY <1>2, <2>1, HeldAllocated DEF Held
<1>4. Keeps(heap, heap', Allocated(heap) \ {b})
  <2>1. CASE ReallocFits(c, n)
    BY <2>1 DEF ReallocFits, Keeps, Allocated
  <2>2. CASE ReallocInPlace(c, n)
    <3> DEFINE m == align_up(n)
    <3>1. /\ m > heap.size[b] /\ CanGrow(b, m)
          /\ heap' = maybe_split(absorb_right_neighbor(heap, b, next_physical_header(heap, b)), b, m)
      BY <2>2 DEF ReallocInPlace
    <3>2. m \in Nat /\ m >= 16 /\ IsAligned(m) /\ heap.size[b] \in Nat
      BY <1>1, <1>3, RequestFits, AllocatedSize
    <3> HIDE DEF b, m
    <3>3. /\ RightIsFree(arenas, heap, b) /\ m >= heap.size[b]
          /\ combined_payload_size(heap, b, next_physical_header(heap, b)) >= m
      BY <3>1, <3>2 DEF CanGrow
    <3> QED
      BY <1>1, <1>3, <3>1, <3>2, <3>3, GrowGood
  <2> QED
    BY <2>1, <2>2
<1>5. Spared({b})
  BY <1>2, StepSpares DEF Steps
<1>6. \A d \in Clients \ {c} : Region'[d] = Region[d]
  <2> SUFFICES ASSUME NEW d \in Clients \ {c} PROVE Region'[d] = Region[d]
    OBVIOUS
  <2>1. ptr'[d] = ptr[d] /\ req'[d] = req[d]
    BY <1>1, <1>2 DEF ClientTypes
  <2>2. Held(d) \subseteq Allocated(heap) \ {b}
    BY <1>1, <1>3 DEF Owned
  <2>3. Keeps(heap, heap', Held(d))
    BY <1>4, <2>2 DEF Keeps
  <2> QED
    BY <2>1, <2>3, OthersSame
<1>7. Contract!Usable(Region'[c], c)
  BY <1>2, <1>6, NextUsable
<1>8. Contract!Holds(c)
  BY <1>2, HoldsPointer
<1>9. Region'[c].addr = Region[c].addr /\ Region'[c].room >= Region[c].room
  <2>1. Region'[c].addr = ptr[c] /\ Region[c].addr = ptr[c]
    BY <1>2, RegionAt, RegionFields
  <2>2. Region'[c].room = heap'.size[b] /\ Region[c].room = heap.size[b]
    BY <1>2, RegionAt, RegionFields DEF PayloadSize
  <2> QED
    BY <1>5, <2>1, <2>2 DEF Spared
<1>10. Region' = [Region EXCEPT ![c] = Region'[c]]
  BY <1>6, OneRegion
<1> QED
  BY <1>7, <1>8, <1>9, <1>10 DEF Contract!ResizeInPlace, Region

\* The two steps that release a block: what happens to the other clients.
LEMMA ReleaseOthers ==
  ASSUME IInv, NEW c \in Clients, Free(c) \/ ReallocFree(c)
  PROVE  /\ ptr[c] # Null
         /\ Keeps(heap, heap', Allocated(heap) \ {header_of(ptr[c])})
         /\ \A d \in Clients \ {c} : Region'[d] = Region[d]
<1> DEFINE a == header_of(ptr[c])
<1>1. ClientTypes /\ Good(arenas, heap) /\ Owned /\ ClientOK(c)
  BY IInvParts DEF Parts
<1>2. ptr[c] # Null /\ heap' = Release(arenas, heap, a)
  BY <1>1 DEF Free, ReallocFree, my_free, ClientOK
<1>3. a \in Allocated(heap) /\ a \in Held(c)
  BY <1>2, HeldAllocated DEF Held
<1>4. Keeps(heap, heap', Allocated(heap) \ {a})
  <2> HIDE DEF a
  <2> QED
    BY <1>1, <1>2, <1>3, ReleaseGood
<1>5. ASSUME NEW d \in Clients \ {c} PROVE Region'[d] = Region[d]
  <2>1. ptr'[d] = ptr[d] /\ req'[d] = req[d]
    BY <1>1 DEF Free, ReallocFree, ClientTypes
  <2>2. Held(d) \subseteq Allocated(heap) \ {a}
    BY <1>1, <1>3 DEF Owned
  <2>3. Keeps(heap, heap', Held(d))
    BY <1>4, <2>2 DEF Keeps
  <2> QED
    BY <2>1, <2>3, OthersSame
<1> QED
  BY <1>2, <1>4, <1>5

\* my_free.
LEMMA FreeMaps ==
  ASSUME IInv, NothingAsked, NEW c \in Clients, Free(c)
  PROVE  Contract!Release(c)
<1>1. ptr[c] # Null /\ \A d \in Clients \ {c} : Region'[d] = Region[d]
  BY ReleaseOthers
<1>2. ptr'[c] = Null /\ req'[c] = 0
  BY IInvParts DEF Parts, ClientTypes, Free
<1>3. Region'[c] = Contract!NoRegion
  BY <1>2, RegionAt, RegionFields
<1>4. Contract!Holds(c)
  BY <1>1, HoldsPointer
<1>5. Region' = [Region EXCEPT ![c] = Region'[c]]
  BY <1>1, OneRegion
<1> QED
  BY <1>3, <1>4, <1>5 DEF Contract!Release, Region

\* The end of a realloc that moves.
LEMMA MoveMaps ==
  ASSUME IInv, IInv', NothingAsked, NothingAsked', NEW c \in Clients, ReallocFree(c)
  PROVE  Contract!Move(c)
<1> DEFINE a == header_of(ptr[c])
           b == header_of(new[c])
<1>1. ClientTypes /\ Good(arenas, heap) /\ ClientOK(c) /\ NewIsNew
  BY IInvParts DEF Parts
<1>2. /\ ptr[c] # Null /\ \A d \in Clients \ {c} : Region'[d] = Region[d]
      /\ Keeps(heap, heap', Allocated(heap) \ {a})
  BY ReleaseOthers
<1>3. /\ ptr'[c] = new[c] /\ req'[c] = want[c] /\ new[c] # Null /\ new[c] # ptr[c]
      /\ old[c] = heap.size[a] /\ want[c] > old[c]
  BY <1>1 DEF ReallocFree, ClientTypes, ClientOK, NewIsNew, PayloadSize
<1>4. a \in Allocated(heap) /\ b \in Allocated(heap)
  BY <1>2, <1>3, HeldAllocated
<1>5. a # b
  BY <1>1, <1>3, Headers DEF ClientTypes
<1>6. heap'.size[b] = heap.size[b]
  BY <1>2, <1>4, <1>5 DEF Keeps
<1>7. /\ Region[c] = RegionOf(ptr[c], heap.size[a], req[c])
      /\ Region'[c] = RegionOf(new[c], heap.size[b], want[c])
  BY <1>3, <1>6, RegionAt DEF PayloadSize
<1>8. Contract!Apart(Region'[c], Region[c])
  <2>1. /\ new[c] \in Nat /\ ptr[c] \in Nat /\ b \in Block(heap) /\ a \in Block(heap)
    BY <1>1, <1>4 DEF ClientTypes, Allocated
  <2>2. Contract!Apart(RegionOf(new[c], heap.size[header_of(new[c])], want[c]),
                       RegionOf(ptr[c], heap.size[header_of(ptr[c])], req[c]))
    BY <1>1, <1>2, <1>3, <2>1, PayloadsApart
  <2> QED
    BY <1>7, <2>2
<1>9. Region'[c].asked > Region[c].room
  BY <1>2, <1>3, <1>7, RegionFields
<1>10. Contract!Usable(Region'[c], c)
  BY <1>2, <1>3, NextUsable
<1>11. Contract!Holds(c)
  BY <1>2, HoldsPointer
<1>12. Region' = [Region EXCEPT ![c] = Region'[c]]
  BY <1>2, OneRegion
<1> QED
  BY <1>8, <1>9, <1>10, <1>11, <1>12 DEF Contract!Move, Region

\* The steps of my_realloc that a client cannot see.
LEMMA UnseenMaps ==
  ASSUME IInv,
         \/ \E c \in Clients, n \in Sizes : ReallocMiss(c, n)
         \/ \E c \in Clients : ReallocMalloc(c)
         \/ UNCHANGED vars
  PROVE  Region' = Region
<1>1. Good(arenas, heap) /\ Owned /\ \A c \in Clients : ClientOK(c)
  BY IInvParts DEF Parts
<1>2. ptr' = ptr /\ req' = req
  BY DEF ReallocMiss, ReallocMalloc, vars
<1>3. Keeps(heap, heap', Allocated(heap))
  <2>1. CASE heap' = heap
    BY <2>1 DEF Keeps, Allocated
  <2>2. ASSUME NEW c \in Clients, ReallocMalloc(c) PROVE Keeps(heap, heap', Allocated(heap))
    <3>1. want[c] \in Sizes
      BY <1>1, <2>2 DEF ReallocMalloc, ClientOK
    <3>2. PICK q : my_malloc(want[c], q)
      BY <2>2 DEF ReallocMalloc
    <3> QED
      BY <1>1, <2>1, <3>1, <3>2, MallocHands DEF Handed
  <2> QED
    BY <2>1, <2>2 DEF ReallocMiss, vars
<1>4. ASSUME NEW d \in Clients PROVE Region'[d] = Region[d]
  <2>1. Keeps(heap, heap', Held(d))
    BY <1>1, <1>3 DEF Keeps, Owned
  <2> QED
    BY <1>2, <2>1, OthersSame
<1> QED
  BY <1>4 DEF Region

\* allocator_shutdown.
LEMMA ShutdownMaps ==
  ASSUME Shutdown
  PROVE  Contract!Shutdown
<1>1. \A c \in Clients : ptr'[c] = Null /\ req'[c] = 0
  BY DEF Shutdown
<1>2. \A c \in Clients : ClientRegion(c)' = Contract!NoRegion
  BY <1>1 DEF ClientRegion, Contract!NoRegion, Null
<1> QED
  BY <1>2 DEF Contract!Shutdown

\* Every step of the general path is one of the promise, or is not seen by any
\* client.
LEMMA StepMaps ==
  ASSUME IInv, IInv', NothingAsked, NothingAsked', [Next]_vars
  PROVE  Contract!Next \/ Region' = Region
<1>1. ASSUME NEW c \in Clients, NEW n \in Sizes, Malloc(c, n)
      PROVE  Contract!Next \/ Region' = Region
  BY <1>1, MallocMaps DEF Contract!Next
<1>2. ASSUME NEW c \in Clients, NEW n \in Sizes, ReallocFits(c, n) \/ ReallocInPlace(c, n)
      PROVE  Contract!Next
  BY <1>2, InPlaceMaps DEF Contract!Next
<1>3. ASSUME NEW c \in Clients, Free(c) PROVE Contract!Next
  BY <1>3, FreeMaps DEF Contract!Next
<1>4. ASSUME NEW c \in Clients, ReallocFree(c) PROVE Contract!Next
  BY <1>4, MoveMaps DEF Contract!Next
<1>5. ASSUME \/ \E c \in Clients, n \in Sizes : ReallocMiss(c, n)
             \/ \E c \in Clients : ReallocMalloc(c)
             \/ UNCHANGED vars
      PROVE  Region' = Region
  BY <1>5, UnseenMaps
<1>6. CASE Shutdown
  BY <1>6, ShutdownMaps DEF Contract!Next
<1> QED
  BY <1>1, <1>2, <1>3, <1>4, <1>5, <1>6, NextSteps DEF Steps

\* Blocks, boundary tags and the free list deliver what allocator.hpp
\* promises.
THEOREM Implements == Spec => ImplementsContract
<1>1. Init => Contract!Init
  <2> SUFFICES ASSUME Init PROVE Contract!Init
    OBVIOUS
  <2>1. \A c \in Clients : ClientRegion(c) = Contract!NoRegion
    BY DEF Init, ClientRegion, Contract!NoRegion, Null
  <2> QED
    BY <2>1 DEF Contract!Init
<1>2. IInv /\ IInv' /\ NothingAsked /\ NothingAsked' /\ [Next]_vars
        => [Contract!Next]_([c \in Clients |-> ClientRegion(c)])
  BY StepMaps DEF Region
<1> QED
  BY <1>1, <1>2, InOrder, NothingAskedHolds, PTL DEF Spec, ImplementsContract, Contract!Spec

=============================================================================
