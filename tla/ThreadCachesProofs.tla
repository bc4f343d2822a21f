------------------------- MODULE ThreadCachesProofs -------------------------
(***************************************************************************)
(* The pooled path of memory_pool.cpp and allocator.cpp, for any number of *)
(* threads, pools, regions and slots in a region, and any batch size that  *)
(* a region fills: each slot is in one place, the words spell the lists,   *)
(* counts and tails are true, slots go back to their own pool, the word in *)
(* front of an allocated payload is never written, and the stores of this  *)
(* path implement the ledger of slots.                                     *)
(*                                                                         *)
(* The properties do not carry themselves from step to step.  A refill     *)
(* overwrites its thread's cache, which loses no slot only because the     *)
(* cache is as empty as it was before the pool was asked; an ended thread  *)
(* must not leave a cache behind; and the arrays a batch is stored in have *)
(* a use only between two critical sections.  InOrder says so, and the     *)
(* inductive invariant IInv is InOrder with the four properties.           *)
(*                                                                         *)
(* Every step moves the slots of a few lists and leaves the rest alone:    *)
(* Moves and Arrive say which lists and slots, and OnePlaceKept and        *)
(* HomesKept conclude for all of memory.  What is left to show of a step   *)
(* is what it does to its own lists: to push, to pop, to cut behind the    *)
(* n-th slot, to link in front of another one, or to carve.                *)
(***************************************************************************)
EXTENDS ThreadCaches, SequenceTheorems, FiniteSetTheorems, WellFoundedInduction, TLAPS

-----------------------------------------------------------------------------
(* Lists as sequences.                                                     *)

\* Membership and injectivity, position by position.
LEMMA Positions ==
  ASSUME NEW S, NEW s \in Seq(S)
  PROVE  /\ DOMAIN s = 1..Len(s) /\ Len(s) \in Nat
         /\ \A k \in 1..Len(s) : s[k] \in S /\ s[k] \in ToSet(s)
         /\ \A x \in ToSet(s) : x \in S /\ \E k \in 1..Len(s) : s[k] = x
         /\ IsInjective(s) <=> \A k, m \in 1..Len(s) : s[k] = s[m] => k = m
<1>1. DOMAIN s = 1..Len(s) /\ Len(s) \in Nat
  OBVIOUS
<1> QED
  BY <1>1 DEF ToSet, IsInjective

\* Every set of numbers that has one has a least one.
LEMMA LeastNumber ==
  ASSUME NEW T \in SUBSET Nat, T # {}
  PROVE  \E m \in T : \A k \in T : m <= k
<1> DEFINE R == OpToRel(<, Nat)
<1>1. IsWellFoundedOn(R, Nat)
  BY NatLessThanWellFounded
<1>2. \A k, m \in Nat : k < m => <<k, m>> \in R
  BY DEF OpToRel
<1> HIDE DEF R
<1>3. PICK m \in T : \A k \in T : ~(<<k, m>> \in R)
  BY <1>1, WFMin
<1>4. ASSUME NEW k \in T PROVE m <= k
  <2>1. k \in Nat /\ m \in Nat
    OBVIOUS
  <2>2. ~(k < m)
    BY <1>2, <1>3, <2>1
  <2> QED
    BY <2>1, <2>2
<1> QED
  BY <1>4

\* What the words say of a list, position by position.
LEMMA SpellsAt ==
  ASSUME NEW s \in Seq(Slots), NEW lk, NEW h
  PROVE  Spells(lk, h, s) <=>
           /\ h = First(s)
           /\ \A i \in 1..Len(s) : i < Len(s) => lk[s[i]] = s[i + 1]
           /\ s # << >> => lk[s[Len(s)]] = Null
<1> DEFINE n == Len(s)
<1>1. n \in Nat /\ DOMAIN s = 1..n
  BY Positions
<1>2. s # << >> <=> n # 0
  BY EmptySeq
<1> HIDE DEF n
<1>3. \A i \in 1..n : i = n \/ i < n
  BY <1>1
<1>4. (\A i \in 1..n : lk[s[i]] = IF i < n THEN s[i + 1] ELSE Null) <=>
      /\ \A i \in 1..n : i < n => lk[s[i]] = s[i + 1]
      /\ n # 0 => lk[s[n]] = Null
  BY <1>1, <1>3
<1>5. Len(s) = n
  BY DEF n
<1> QED
  BY <1>1, <1>2, <1>4, <1>5 DEF Spells

\* A list begins where its head says, and is empty only if that is null.
LEMMA FirstSlot ==
  ASSUME NEW s \in Seq(Slots)
  PROVE  /\ First(s) \in Slots \cup {Null}
         /\ s = << >> <=> First(s) = Null
         /\ s # << >> => /\ Len(s) \in Nat \ {0} /\ First(s) = s[1] /\ First(s) = Head(s)
                         /\ Last(s) = s[Len(s)] /\ First(s) \in ToSet(s) /\ Last(s) \in ToSet(s)
                         /\ First(s) \in Slots /\ Last(s) \in Slots
<1>1. Null \notin Slots
  BY DEF Null, Slots
<1>2. s # << >> => Len(s) \in Nat \ {0} /\ Head(s) = s[1] /\ 1 \in 1..Len(s) /\ Len(s) \in 1..Len(s)
  BY EmptySeq
<1>3. s # << >> => s[1] \in Slots /\ s[Len(s)] \in Slots /\ s[1] \in ToSet(s) /\ s[Len(s)] \in ToSet(s)
  BY <1>2, Positions
<1> QED
  BY <1>1, <1>2, <1>3 DEF First, Last

\* A list stays as it is when no word of its own is written.
LEMMA SpellsStill ==
  ASSUME NEW s \in Seq(Slots), NEW lk, NEW h, Spells(lk, h, s),
         NEW lk2, \A x \in ToSet(s) : lk2[x] = lk[x]
  PROVE  Spells(lk2, h, s)
BY Positions DEF Spells

-----------------------------------------------------------------------------
(* A part of a list.                                                       *)

\* A list from position a to position b.
LEMMA Part ==
  ASSUME NEW s \in Seq(Slots), IsInjective(s), NEW a \in Nat \ {0}, NEW b \in Nat, b <= Len(s)
  PROVE  LET u == SubSeq(s, a, b)
         IN  /\ u \in Seq(Slots) /\ IsInjective(u)
             /\ Len(u) = IF a <= b THEN b - a + 1 ELSE 0
             /\ \A i \in 1..Len(u) : u[i] = s[a + i - 1] /\ a + i - 1 \in 1..Len(s)
             /\ \A x : x \in ToSet(u) <=> \E k \in 1..Len(s) : a <= k /\ k <= b /\ s[k] = x
<1> DEFINE u == SubSeq(s, a, b)
           n == Len(s)
<1>0. n \in Nat /\ (\A k \in 1..n : s[k] \in Slots) /\ n = Len(s)
  BY Positions
<1>1. \A k, m \in 1..n : s[k] = s[m] => k = m
  BY Positions
<1> HIDE DEF n
<1>2. \A i \in a..b : s[i] \in Slots
  BY <1>0
<1>3. /\ u \in Seq(Slots) /\ Len(u) = IF a <= b THEN b - a + 1 ELSE 0
      /\ \A i \in 1..(b - a + 1) : u[i] = s[a + i - 1]
  BY <1>2, SubSeqProperties
<1> HIDE DEF u
<1>4. \A i \in 1..Len(u) : i \in 1..(b - a + 1) /\ a + i - 1 \in 1..n /\ a <= a + i - 1 /\ a + i - 1 <= b
  BY <1>0, <1>3
<1>5. \A i \in 1..Len(u) : u[i] = s[a + i - 1]
  BY <1>3, <1>4
<1>6. \A i, j \in 1..Len(u) : u[i] = u[j] => i = j
  <2> SUFFICES ASSUME NEW i \in 1..Len(u), NEW j \in 1..Len(u), u[i] = u[j] PROVE i = j
    OBVIOUS
  <2>1. a + i - 1 = a + j - 1
    BY <1>1, <1>4, <1>5
  <2>2. i \in Nat /\ j \in Nat
    BY <1>3
  <2> QED
    BY <2>1, <2>2
<1>7. IsInjective(u)
  BY <1>3, <1>6, Positions
<1>8. ASSUME NEW x \in ToSet(u) PROVE \E k \in 1..n : a <= k /\ k <= b /\ s[k] = x
  <2>1. PICK i \in 1..Len(u) : u[i] = x
    BY <1>3, Positions
  <2>2. s[a + i - 1] = x
    BY <1>5, <2>1
  <2> QED
    BY <1>4, <2>2
<1>9. ASSUME NEW k \in 1..n, a <= k, k <= b PROVE s[k] \in ToSet(u)
  <2>1. k - a + 1 \in 1..Len(u) /\ a + (k - a + 1) - 1 = k
    BY <1>0, <1>3, <1>9
  <2>2. u[k - a + 1] = s[k]
    BY <1>5, <2>1
  <2>3. u[k - a + 1] \in ToSet(u)
    BY <1>3, <2>1, Positions
  <2> QED
    BY <2>2, <2>3
<1> QED
  BY <1>0, <1>3, <1>4, <1>5, <1>7, <1>8, <1>9 DEF u

\* The first n slots of a list and the rest of it.
LEMMA Parts ==
  ASSUME NEW s \in Seq(Slots), IsInjective(s), NEW n \in 0..Len(s)
  PROVE  LET w == SubSeq(s, 1, n)
             r == SubSeq(s, n + 1, Len(s))
         IN  /\ w \in Seq(Slots) /\ IsInjective(w) /\ Len(w) = n
             /\ r \in Seq(Slots) /\ IsInjective(r) /\ Len(r) = Len(s) - n
             /\ \A i \in 1..n : i \in 1..Len(s) /\ w[i] = s[i]
             /\ \A i \in 1..Len(r) : n + i \in 1..Len(s) /\ r[i] = s[n + i]
             /\ ToSet(w) \cap ToSet(r) = {} /\ ToSet(w) \cup ToSet(r) = ToSet(s)
             /\ n > 0 => w # << >> /\ First(w) = First(s) /\ Last(w) = s[n]
             /\ r = << >> <=> n = Len(s)
<1> DEFINE w == SubSeq(s, 1, n)
           r == SubSeq(s, n + 1, Len(s))
           l == Len(s)
<1>0. l \in Nat /\ n \in Nat /\ n <= l /\ l = Len(s)
  BY Positions
<1>1. \A k, m \in 1..l : s[k] = s[m] => k = m
  BY Positions
<1>2. /\ w \in Seq(Slots) /\ IsInjective(w) /\ Len(w) = n
      /\ \A i \in 1..Len(w) : w[i] = s[1 + i - 1] /\ 1 + i - 1 \in 1..l
      /\ \A x : x \in ToSet(w) <=> \E k \in 1..l : 1 <= k /\ k <= n /\ s[k] = x
  BY <1>0, Part
<1>3. /\ r \in Seq(Slots) /\ IsInjective(r) /\ Len(r) = IF n + 1 <= l THEN l - (n + 1) + 1 ELSE 0
      /\ \A i \in 1..Len(r) : r[i] = s[(n + 1) + i - 1] /\ (n + 1) + i - 1 \in 1..l
      /\ \A x : x \in ToSet(r) <=> \E k \in 1..l : n + 1 <= k /\ k <= l /\ s[k] = x
  BY <1>0, Part
<1> HIDE DEF w, r, l
<1>4. Len(r) = l - n
  BY <1>0, <1>3
<1>5. \A i \in 1..n : i \in 1..l /\ w[i] = s[i]
  <2> SUFFICES ASSUME NEW i \in 1..n PROVE i \in 1..l /\ w[i] = s[i]
    OBVIOUS
  <2>1. 1 + i - 1 = i /\ i \in 1..Len(w)
    BY <1>0, <1>2
  <2> QED
    BY <1>0, <1>2, <2>1
<1>6. \A i \in 1..Len(r) : n + i \in 1..l /\ r[i] = s[n + i]
  <2> SUFFICES ASSUME NEW i \in 1..Len(r) PROVE n + i \in 1..l /\ r[i] = s[n + i]
    OBVIOUS
  <2>1. (n + 1) + i - 1 = n + i
    BY <1>0, <1>4
  <2> QED
    BY <1>3, <2>1
<1>7. ToSet(w) \cap ToSet(r) = {}
  <2> SUFFICES ASSUME NEW x \in ToSet(w), x \in ToSet(r) PROVE FALSE
    OBVIOUS
  <2>1. PICK k \in 1..l : k <= n /\ s[k] = x
    BY <1>2
  <2>2. PICK m \in 1..l : n + 1 <= m /\ s[m] = x
    BY <1>3
  <2> QED
    BY <1>0, <1>1, <2>1, <2>2
<1>8. ToSet(w) \cup ToSet(r) = ToSet(s)
  <2>1. \A x \in ToSet(s) : \E k \in 1..l : s[k] = x
    BY <1>0, Positions
  <2>2. \A k \in 1..l : s[k] \in ToSet(s)
    BY <1>0, Positions
  <2>3. ASSUME NEW k \in 1..l PROVE s[k] \in ToSet(w) \/ s[k] \in ToSet(r)
    <3>1. (1 <= k /\ k <= n) \/ (n + 1 <= k /\ k <= l)
      BY <1>0
    <3> QED
      BY <1>2, <1>3, <3>1
  <2>4. \A x : x \in ToSet(w) \/ x \in ToSet(r) => \E k \in 1..l : s[k] = x
    BY <1>2, <1>3
  <2> QED
    BY <2>1, <2>2, <2>3, <2>4
<1>9. ASSUME n > 0 PROVE w # << >> /\ First(w) = First(s) /\ Last(w) = s[n]
  <2>1. w # << >> /\ s # << >>
    BY <1>0, <1>2, <1>9, EmptySeq
  <2>2. First(w) = w[1] /\ First(s) = s[1] /\ Last(w) = w[n]
    BY <1>2, <2>1, FirstSlot
  <2>3. 1 \in 1..n /\ n \in 1..n
    BY <1>0, <1>9
  <2> QED
    BY <1>5, <2>1, <2>2, <2>3
<1>10. r = << >> <=> n = l
  BY <1>0, <1>3, <1>4, EmptySeq
<1> QED
  BY <1>0, <1>2, <1>3, <1>4, <1>5, <1>6, <1>7, <1>8, <1>9, <1>10 DEF w, r

\* Two lists that share no slot, one behind the other.
LEMMA Joined ==
  ASSUME NEW a \in Seq(Slots), NEW b \in Seq(Slots), IsInjective(a), IsInjective(b),
         ToSet(a) \cap ToSet(b) = {}
  PROVE  /\ a \o b \in Seq(Slots) /\ IsInjective(a \o b)
         /\ Len(a \o b) = Len(a) + Len(b)
         /\ \A i \in 1..Len(a) : i \in 1..Len(a \o b) /\ (a \o b)[i] = a[i]
         /\ \A i \in 1..Len(b) : Len(a) + i \in 1..Len(a \o b) /\ (a \o b)[Len(a) + i] = b[i]
         /\ ToSet(a \o b) = ToSet(a) \cup ToSet(b)
         /\ a # << >> => a \o b # << >> /\ First(a \o b) = First(a)
         /\ a # << >> => Last(a \o b) = IF b = << >> THEN Last(a) ELSE Last(b)
<1> DEFINE c == a \o b
           m == Len(a)
           n == Len(b)
<1>0. /\ m \in Nat /\ n \in Nat /\ m = Len(a) /\ n = Len(b)
      /\ (\A i \in 1..m : a[i] \in ToSet(a)) /\ (\A i \in 1..n : b[i] \in ToSet(b))
      /\ (\A x \in ToSet(a) : \E i \in 1..m : a[i] = x) /\ (\A x \in ToSet(b) : \E i \in 1..n : b[i] = x)
      /\ (\A i, j \in 1..m : a[i] = a[j] => i = j) /\ (\A i, j \in 1..n : b[i] = b[j] => i = j)
  BY Positions
<1>1. /\ c \in Seq(Slots) /\ Len(c) = m + n
      /\ \A i \in 1..(m + n) : c[i] = IF i <= m THEN a[i] ELSE b[i - m]
  BY ConcatProperties
<1> HIDE DEF c, m, n
<1>2. \A i \in 1..m : i \in 1..Len(c) /\ c[i] = a[i]
  BY <1>0, <1>1
<1>3. ASSUME NEW i \in 1..n PROVE m + i \in 1..Len(c) /\ c[m + i] = b[i]
  <2>1. m + i \in 1..(m + n) /\ ~(m + i <= m) /\ (m + i) - m = i
    BY <1>0
  <2> QED
    BY <1>1, <2>1
<1>4. \A i \in 1..Len(c) : i \in 1..m \/ \E j \in 1..n : i = m + j
  <2> SUFFICES ASSUME NEW i \in 1..Len(c), i \notin 1..m PROVE \E j \in 1..n : i = m + j
    OBVIOUS
  <2>1. i - m \in 1..n /\ i = m + (i - m)
    BY <1>0, <1>1
  <2> QED
    BY <2>1
<1>5. \A i, j \in 1..Len(c) : c[i] = c[j] => i = j
  <2> SUFFICES ASSUME NEW i \in 1..Len(c), NEW j \in 1..Len(c), c[i] = c[j] PROVE i = j
    OBVIOUS
  <2>1. CASE i \in 1..m /\ j \in 1..m
    <3>1. a[i] = a[j]
      BY <1>2, <2>1
    <3> QED
      BY <1>0, <2>1, <3>1, Zenon
  <2>2. CASE i \in 1..m /\ j \notin 1..m
    <3>1. PICK k \in 1..n : j = m + k
      BY <1>4, <2>2
    <3>2. a[i] = b[k]
      BY <1>2, <1>3, <2>2, <3>1
    <3> QED
      BY <1>0, <2>2, <3>2, Zenon
  <2>3. CASE i \notin 1..m /\ j \in 1..m
    <3>1. PICK k \in 1..n : i = m + k
      BY <1>4, <2>3
    <3>2. a[j] = b[k]
      BY <1>2, <1>3, <2>3, <3>1
    <3> QED
      BY <1>0, <2>3, <3>2, Zenon
  <2>4. CASE i \notin 1..m /\ j \notin 1..m
    <3>1. PICK k \in 1..n : i = m + k
      BY <1>4, <2>4
    <3>2. PICK l \in 1..n : j = m + l
      BY <1>4, <2>4
    <3>3. b[k] = b[l]
      BY <1>3, <3>1, <3>2
    <3> QED
      BY <1>0, <3>1, <3>2, <3>3
  <2> QED
    BY <2>1, <2>2, <2>3, <2>4
<1>6. IsInjective(c)
  BY <1>1, <1>5, Positions
<1>7. ToSet(c) = ToSet(a) \cup ToSet(b)
  <2>0. (\A i \in 1..Len(c) : c[i] \in ToSet(c)) /\ (\A x \in ToSet(c) : \E i \in 1..Len(c) : c[i] = x)
    BY <1>1, Positions
  <2>1. ASSUME NEW x \in ToSet(c) PROVE x \in ToSet(a) \cup ToSet(b)
    <3>1. PICK i \in 1..Len(c) : c[i] = x
      BY <2>0
    <3>2. CASE i \in 1..m
      BY <1>0, <1>2, <3>1, <3>2
    <3>3. CASE \E j \in 1..n : i = m + j
      BY <1>0, <1>3, <3>1, <3>3
    <3> QED
      BY <1>4, <3>2, <3>3
  <2>2. ASSUME NEW x \in ToSet(a) PROVE x \in ToSet(c)
    BY <1>0, <1>2, <2>0
  <2>3. ASSUME NEW x \in ToSet(b) PROVE x \in ToSet(c)
    BY <1>0, <1>3, <2>0
  <2> QED
    BY <2>1, <2>2, <2>3
<1>8. ASSUME a # << >> PROVE c # << >> /\ First(c) = First(a)
  <2>1. m # 0
    BY <1>0, <1>8, EmptySeq
  <2>2. c # << >>
    BY <1>0, <1>1, <2>1, EmptySeq
  <2>3. First(c) = c[1] /\ First(a) = a[1]
    BY <1>1, <1>8, <2>2, FirstSlot
  <2> QED
    BY <1>0, <1>2, <2>1, <2>2, <2>3
<1>9. ASSUME a # << >> PROVE Last(c) = IF b = << >> THEN Last(a) ELSE Last(b)
  <2>1. c # << >> /\ m # 0 /\ m \in 1..m
    BY <1>0, <1>8, <1>9, EmptySeq
  <2>2. Last(c) = c[Len(c)] /\ Last(a) = a[m]
    BY <1>0, <1>1, <1>9, <2>1, FirstSlot
  <2>3. CASE b = << >>
    <3>1. n = 0
      BY <1>0, <2>3, EmptySeq
    <3> QED
      BY <1>0, <1>1, <1>2, <2>1, <2>2, <2>3, <3>1
  <2>4. CASE b # << >>
    <3>1. n \in 1..n /\ Last(b) = b[n]
      BY <1>0, <2>4, EmptySeq, FirstSlot
    <3>2. Len(c) = m + n
      BY <1>1
    <3> QED
      BY <1>3, <2>2, <2>4, <3>1, <3>2
  <2> QED
    BY <2>3, <2>4
<1> QED
  BY <1>0, <1>1, <1>2, <1>3, <1>6, <1>7, <1>8, <1>9 DEF c

-----------------------------------------------------------------------------
(* What stores make of the lists that words spell.                         *)

\* A walk of n steps has seen the first n slots, and nothing else.
LEMMA WalkIsPart ==
  ASSUME NEW s \in Seq(Slots), NEW lk, NEW h, Spells(lk, h, s),
         NEW n \in Nat, NEW w \in Walks(lk, h, n)
  PROVE  n \in 0..Len(s) /\ w = SubSeq(s, 1, n) /\ w \in Seq(Slots) /\ Len(w) = n
<1> DEFINE l == Len(s)
           T == {i \in 1..n : ~(i <= l /\ w[i] = s[i])}
<1>0. l \in Nat /\ l = Len(s)
  BY Positions
<1>1. /\ w \in [1..n -> Slots]
      /\ \A i \in 1..n : w[i] = IF i = 1 THEN h ELSE lk[w[i - 1]]
  BY DEF Walks
<1>2. h = First(s) /\ Null \notin Slots
  BY SpellsAt DEF Null, Slots
<1> HIDE DEF l
<1>3. T = {}
  <2> SUFFICES ASSUME T # {} PROVE FALSE
    OBVIOUS
  <2>1. PICK m \in T : \A k \in T : m <= k
    <3>1. T \in SUBSET Nat
      OBVIOUS
    <3> HIDE DEF T
    <3> QED
      BY <3>1, LeastNumber
  <2>2. m \in 1..n /\ ~(m <= l /\ w[m] = s[m])
    OBVIOUS
  <2>3. m # 1
    <3> SUFFICES ASSUME m = 1 PROVE FALSE
      OBVIOUS
    <3>1. w[1] = h /\ h \in Slots
      BY <1>1, <2>2
    <3>2. s # << >> /\ h = s[1]
      BY <1>2, <3>1, FirstSlot
    <3>3. 1 <= l
      BY <1>0, <3>2, EmptySeq
    <3> QED
      BY <2>2, <3>1, <3>2, <3>3
  <2>4. m - 1 \in 1..n /\ m - 1 \notin T
    <3>1. m - 1 \in 1..n /\ ~(m <= m - 1)
      BY <2>2, <2>3
    <3> HIDE DEF T
    <3> QED
      BY <2>1, <3>1
  <2>5. m - 1 <= l /\ w[m - 1] = s[m - 1] /\ m - 1 \in 1..l
    BY <1>0, <2>2, <2>4
  <2>6. w[m] = lk[s[m - 1]] /\ w[m] \in Slots
    BY <1>1, <2>2, <2>3, <2>5
  <2>7. CASE m - 1 < l
    <3>1. lk[s[m - 1]] = s[(m - 1) + 1]
      BY <1>0, <2>5, <2>7, SpellsAt
    <3>2. (m - 1) + 1 = m /\ m <= l
      BY <1>0, <2>2, <2>7
    <3> QED
      BY <2>2, <2>6, <3>1, <3>2
  <2>8. CASE m - 1 = l
    <3>1. s # << >>
      BY <1>0, <2>5, <2>8, EmptySeq
    <3>2. lk[s[l]] = Null
      BY <1>0, <3>1, SpellsAt
    <3> QED
      BY <1>2, <2>6, <2>8, <3>2
  <2> QED
    BY <1>0, <2>2, <2>5, <2>7, <2>8
<1>4. \A i \in 1..n : i <= l /\ w[i] = s[i]
  BY <1>3
<1> HIDE DEF T
<1>5. n <= l
  <2>1. CASE n = 0
    BY <1>0, <2>1
  <2>2. CASE n # 0
    <3>1. n \in 1..n
      BY <2>2
    <3> QED
      BY <1>4, <3>1
  <2> QED
    BY <2>1, <2>2
<1>6. w \in Seq(Slots) /\ Len(w) = n
  BY <1>1
<1>7. /\ SubSeq(s, 1, n) \in Seq(Slots) /\ Len(SubSeq(s, 1, n)) = n
      /\ \A i \in 1..n : SubSeq(s, 1, n)[i] = s[i]
  <2> DEFINE v == SubSeq(s, 1, n)
  <2>1. \A i \in 1..n : s[i] \in Slots
    BY <1>0, <1>5, Positions
  <2>2. /\ v \in Seq(Slots) /\ Len(v) = IF 1 <= n THEN n - 1 + 1 ELSE 0
        /\ \A i \in 1..(n - 1 + 1) : v[i] = s[1 + i - 1]
    BY <2>1, SubSeqProperties
  <2> HIDE DEF v
  <2>3. n - 1 + 1 = n /\ \A i \in 1..n : 1 + i - 1 = i
    OBVIOUS
  <2>4. v \in Seq(Slots) /\ Len(v) = n /\ \A i \in 1..n : v[i] = s[i]
    BY <2>2, <2>3
  <2> QED
    BY <2>4 DEF v
<1>8. w = SubSeq(s, 1, n)
  BY <1>4, <1>6, <1>7, SeqEqual
<1> QED
  BY <1>0, <1>5, <1>6, <1>8

\* After n slots the list goes on with the rest; without what links them to
\* the rest, the first n are a list too.
LEMMA PartsSpell ==
  ASSUME NEW s \in Seq(Slots), IsInjective(s), NEW lk, NEW h, Spells(lk, h, s), NEW n \in 0..Len(s)
  PROVE  LET w == SubSeq(s, 1, n)
             r == SubSeq(s, n + 1, Len(s))
         IN  /\ After(lk, h, w) = First(r)
             /\ Spells(lk, First(r), r)
             /\ \A i \in 1..n : i < n => lk[w[i]] = w[i + 1]
<1> DEFINE w == SubSeq(s, 1, n)
           r == SubSeq(s, n + 1, Len(s))
           l == Len(s)
<1>0. l \in Nat /\ n \in Nat /\ n <= l /\ l = Len(s)
  BY Positions
<1>1. /\ w \in Seq(Slots) /\ Len(w) = n
      /\ r \in Seq(Slots) /\ Len(r) = l - n
      /\ \A i \in 1..n : i \in 1..l /\ w[i] = s[i]
      /\ \A i \in 1..Len(r) : n + i \in 1..l /\ r[i] = s[n + i]
      /\ n > 0 => w # << >> /\ Last(w) = s[n]
      /\ r = << >> <=> n = l
  <2>1. w \in Seq(Slots) /\ Len(w) = n /\ r \in Seq(Slots) /\ Len(r) = Len(s) - n
    BY Parts
  <2>2. \A i \in 1..n : i \in 1..Len(s) /\ w[i] = s[i]
    BY Parts
  <2>3. \A i \in 1..Len(r) : n + i \in 1..Len(s) /\ r[i] = s[n + i]
    BY Parts
  <2>4. (n > 0 => w # << >> /\ Last(w) = s[n]) /\ (r = << >> <=> n = Len(s))
    BY Parts
  <2> HIDE DEF w, r
  <2> QED
    BY <2>1, <2>2, <2>3, <2>4
<1>2. /\ h = First(s)
      /\ \A i \in 1..l : i < l => lk[s[i]] = s[i + 1]
      /\ l # 0 => lk[s[l]] = Null
  BY <1>0, SpellsAt, EmptySeq
<1> HIDE DEF w, r, l
<1>3. r # << >> => First(r) = s[n + 1]
  <2> SUFFICES ASSUME r # << >> PROVE First(r) = s[n + 1]
    OBVIOUS
  <2>1. First(r) = r[1] /\ 1 \in 1..Len(r)
    BY <1>0, <1>1, FirstSlot
  <2> QED
    BY <1>1, <2>1
<1>4. After(lk, h, w) = First(r)
  <2>1. CASE n = 0
    <3>1. w = << >>
      BY <1>1, <2>1, EmptySeq
    <3>2. r = s
      BY <2>1, SubSeqFull DEF r, l
    <3> QED
      BY <1>2, <3>1, <3>2 DEF After
  <2>2. CASE n > 0 /\ n < l
    <3>1. After(lk, h, w) = lk[s[n]]
      BY <1>1, <2>2 DEF After
    <3>2. lk[s[n]] = s[n + 1]
      BY <1>0, <1>2, <2>2
    <3> QED
      BY <1>1, <1>3, <2>2, <3>1, <3>2
  <2>3. CASE n > 0 /\ n = l
    <3>1. After(lk, h, w) = lk[s[n]]
      BY <1>1, <2>3 DEF After
    <3>2. lk[s[n]] = Null
      BY <1>0, <1>2, <2>3
    <3> QED
      BY <1>1, <2>3, <3>1, <3>2 DEF First
  <2> QED
    BY <1>0, <2>1, <2>2, <2>3
<1>5. Spells(lk, First(r), r)
  <2>1. ASSUME NEW i \in 1..Len(r), i < Len(r) PROVE lk[r[i]] = r[i + 1]
    <3>1. i + 1 \in 1..Len(r) /\ n + (i + 1) = (n + i) + 1 /\ n + i < l
      BY <1>0, <1>1, <2>1
    <3>2. n + i \in 1..l /\ r[i] = s[n + i] /\ r[i + 1] = s[n + (i + 1)]
      BY <1>1, <3>1
    <3>3. lk[s[n + i]] = s[(n + i) + 1]
      BY <1>2, <3>1, <3>2
    <3> QED
      BY <3>1, <3>2, <3>3
  <2>2. ASSUME r # << >> PROVE lk[r[Len(r)]] = Null
    <3>1. Len(r) \in 1..Len(r) /\ n + Len(r) = l /\ l # 0
      BY <1>0, <1>1, <2>2
    <3> QED
      BY <1>1, <1>2, <3>1
  <2> QED
    BY <1>1, <2>1, <2>2, SpellsAt
<1>6. \A i \in 1..n : i < n => lk[w[i]] = w[i + 1]
  <2> SUFFICES ASSUME NEW i \in 1..n, i < n PROVE lk[w[i]] = w[i + 1]
    OBVIOUS
  <2>1. i + 1 \in 1..n /\ i < l
    BY <1>0
  <2> QED
    BY <1>1, <1>2, <2>1
<1> QED
  BY <1>4, <1>5, <1>6 DEF w, r, l

\* Slots linked to one another and the last of them to a list: one list.
LEMMA JoinedSpell ==
  ASSUME NEW a \in Seq(Slots), NEW b \in Seq(Slots), IsInjective(a), IsInjective(b),
         ToSet(a) \cap ToSet(b) = {}, a # << >>,
         NEW lk, \A i \in 1..Len(a) : i < Len(a) => lk[a[i]] = a[i + 1],
         lk[Last(a)] = First(b), Spells(lk, First(b), b)
  PROVE  Spells(lk, First(a), a \o b)
<1> DEFINE c == a \o b
           m == Len(a)
           n == Len(b)
<1>0. m \in Nat /\ n \in Nat /\ m # 0 /\ m = Len(a) /\ n = Len(b) /\ Last(a) = a[m]
  BY Positions, EmptySeq, FirstSlot
<1>1. /\ c \in Seq(Slots) /\ Len(c) = m + n
      /\ \A i \in 1..m : i \in 1..Len(c) /\ c[i] = a[i]
      /\ \A i \in 1..n : m + i \in 1..Len(c) /\ c[m + i] = b[i]
      /\ c # << >> /\ First(c) = First(a)
  BY Joined
<1>2. /\ \A i \in 1..n : i < n => lk[b[i]] = b[i + 1]
      /\ n # 0 => lk[b[n]] = Null /\ First(b) = b[1]
      /\ n = 0 => First(b) = Null
  BY SpellsAt, EmptySeq, FirstSlot
<1> HIDE DEF c, m, n
<1>3. ASSUME NEW i \in 1..Len(c), i < Len(c) PROVE lk[c[i]] = c[i + 1]
  <2>1. CASE i < m
    <3>1. i \in 1..m /\ i + 1 \in 1..m
      BY <1>0, <2>1
    <3> QED
      BY <1>0, <1>1, <2>1, <3>1
  <2>2. CASE i = m
    <3>1. 1 \in 1..n /\ m \in 1..m /\ n # 0
      BY <1>0, <1>1, <1>3, <2>2
    <3>2. c[m] = a[m] /\ c[m + 1] = b[1]
      BY <1>1, <3>1
    <3> QED
      BY <1>0, <1>2, <2>2, <3>1, <3>2
  <2>3. CASE i > m
    <3>1. i - m \in 1..n /\ i - m < n /\ (i - m) + 1 \in 1..n
      BY <1>0, <1>1, <1>3, <2>3
    <3>2. m + (i - m) = i /\ m + ((i - m) + 1) = i + 1
      BY <1>0, <1>1
    <3>3. c[m + (i - m)] = b[i - m] /\ c[m + ((i - m) + 1)] = b[(i - m) + 1]
      BY <1>1, <3>1
    <3>4. lk[b[i - m]] = b[(i - m) + 1]
      BY <1>2, <3>1
    <3> QED
      BY <3>2, <3>3, <3>4
  <2> QED
    BY <1>0, <1>1, <2>1, <2>2, <2>3
<1>4. lk[c[Len(c)]] = Null
  <2>1. CASE n = 0
    <3>1. c[m] = a[m] /\ Len(c) = m
      BY <1>0, <1>1, <2>1
    <3> QED
      BY <1>0, <1>2, <2>1, <3>1
  <2>2. CASE n # 0
    <3>1. n \in 1..n
      BY <1>0, <2>2
    <3>2. c[m + n] = b[n]
      BY <1>1, <3>1
    <3> QED
      BY <1>1, <1>2, <2>2, <3>2
  <2> QED
    BY <2>1, <2>2
<1>5. Spells(lk, First(a), c)
  BY <1>1, <1>3, <1>4, SpellsAt
<1> QED
  BY <1>5 DEF c

\* A list loses its first slot.
LEMMA TailSpells ==
  ASSUME NEW s \in Seq(Slots), IsInjective(s), s # << >>, NEW lk, NEW h, Spells(lk, h, s)
  PROVE  /\ Tail(s) \in Seq(Slots) /\ IsInjective(Tail(s)) /\ Len(Tail(s)) = Len(s) - 1
         /\ h \in Slots /\ h \in ToSet(s) /\ ToSet(Tail(s)) = ToSet(s) \ {h}
         /\ lk[h] = First(Tail(s)) /\ Spells(lk, First(Tail(s)), Tail(s))
         /\ Tail(s) # << >> => Last(Tail(s)) = Last(s)
<1> DEFINE r == SubSeq(s, 1 + 1, Len(s))
           w == SubSeq(s, 1, 1)
<1>1. Len(s) \in Nat \ {0} /\ 1 \in 0..Len(s) /\ h = First(s) /\ h = s[1] /\ h \in Slots /\ h \in ToSet(s)
      /\ Last(s) = s[Len(s)]
  BY FirstSlot DEF Spells
<1>2. Tail(s) = r
  BY TailIsSubSeq
<1>3. /\ r \in Seq(Slots) /\ IsInjective(r) /\ Len(r) = Len(s) - 1
      /\ w \in Seq(Slots) /\ Len(w) = 1 /\ w # << >> /\ Last(w) = s[1] /\ First(w) = First(s)
      /\ ToSet(w) \cap ToSet(r) = {} /\ ToSet(w) \cup ToSet(r) = ToSet(s)
  <2>1. /\ r \in Seq(Slots) /\ IsInjective(r) /\ Len(r) = Len(s) - 1
        /\ ToSet(w) \cap ToSet(r) = {} /\ ToSet(w) \cup ToSet(r) = ToSet(s)
    BY <1>1, Parts
  <2>2. w \in Seq(Slots) /\ Len(w) = 1
    BY <1>1, Parts
  <2>3. w # << >> /\ Last(w) = s[1] /\ First(w) = First(s)
    <3>1. \A i \in 1..1 : w[i] = s[i]
      BY <1>1, Parts
    <3>2. w # << >>
      BY <2>2, EmptySeq
    <3>3. w[1] = s[1]
      BY <3>1
    <3> HIDE DEF w
    <3>4. Last(w) = w[Len(w)] /\ First(w) = w[1]
      BY <2>2, <3>2, FirstSlot
    <3>5. First(s) = s[1]
      BY FirstSlot
    <3> QED
      BY <2>2, <3>2, <3>3, <3>4, <3>5
  <2> QED
    BY <2>1, <2>2, <2>3
<1>4. \A i \in 1..Len(r) : 1 + i \in 1..Len(s) /\ r[i] = s[1 + i]
  BY <1>1, Parts
<1>5. After(lk, h, w) = First(r) /\ Spells(lk, First(r), r)
  BY <1>1, PartsSpell
<1> HIDE DEF r, w
<1>6. lk[h] = First(r)
  BY <1>1, <1>3, <1>5 DEF After
<1>7. ToSet(w) = {h}
  <2>1. w[1] = h
    BY <1>1, <1>3, FirstSlot
  <2> QED
    BY <1>3, <2>1, Positions
<1>8. r # << >> => Last(r) = Last(s)
  <2> SUFFICES ASSUME r # << >> PROVE Last(r) = Last(s)
    OBVIOUS
  <2>1. Len(r) \in 1..Len(r) /\ Last(r) = r[Len(r)] /\ 1 + Len(r) = Len(s)
    BY <1>1, <1>3, EmptySeq, FirstSlot
  <2> QED
    BY <1>1, <1>4, <2>1
<1> QED
  BY <1>1, <1>2, <1>3, <1>5, <1>6, <1>7, <1>8

\* A list gets a slot in front.
LEMMA ConsSpells ==
  ASSUME NEW s \in Seq(Slots), IsInjective(s), NEW lk \in [Slots -> Word], NEW h, Spells(lk, h, s),
         NEW x \in Slots, x \notin ToSet(s)
  PROVE  /\ Cons(x, s) \in Seq(Slots) /\ IsInjective(Cons(x, s)) /\ Len(Cons(x, s)) = Len(s) + 1
         /\ ToSet(Cons(x, s)) = ToSet(s) \cup {x}
         /\ Spells([lk EXCEPT ![x] = h], x, Cons(x, s))
         /\ Cons(x, s) # << >>
         /\ Last(Cons(x, s)) = IF s = << >> THEN x ELSE Last(s)
<1> DEFINE a == <<x>>
           lk2 == [lk EXCEPT ![x] = h]
<1>1. /\ a \in Seq(Slots) /\ Len(a) = 1 /\ a[1] = x /\ a # << >>
  OBVIOUS
<1>2. Cons(x, s) = a \o s
  BY DEF Cons
<1>3. h = First(s)
  BY DEF Spells
<1>4. lk2[x] = h /\ \A y \in Slots : y # x => lk2[y] = lk[y]
  OBVIOUS
<1> HIDE DEF a, lk2
<1>5. IsInjective(a) /\ ToSet(a) = {x} /\ First(a) = x /\ Last(a) = x
  BY <1>1, Positions, FirstSlot
<1>6. Spells(lk2, First(s), s)
  <2>1. \A y \in ToSet(s) : lk2[y] = lk[y]
    BY <1>4, Positions
  <2> QED
    BY <1>3, <2>1, SpellsStill
<1>7. Spells(lk2, x, a \o s)
  <2>1. \A i \in 1..Len(a) : i < Len(a) => lk2[a[i]] = a[i + 1]
    BY <1>1
  <2> QED
    BY <1>1, <1>3, <1>4, <1>5, <1>6, <2>1, JoinedSpell
<1>8. /\ a \o s \in Seq(Slots) /\ IsInjective(a \o s) /\ Len(a \o s) = Len(a) + Len(s)
      /\ ToSet(a \o s) = ToSet(a) \cup ToSet(s) /\ a \o s # << >>
      /\ Last(a \o s) = IF s = << >> THEN Last(a) ELSE Last(s)
  BY <1>1, <1>5, Joined
<1>9. Len(a) + Len(s) = Len(s) + 1
  BY <1>1, Positions
<1> QED
  BY <1>2, <1>5, <1>7, <1>8, <1>9 DEF lk2

\* Slots that have been linked are a list; no other word is written.
LEMMA LinkedSpells ==
  ASSUME NEW s \in Seq(Slots), IsInjective(s), NEW lk \in [Slots -> Word]
  PROVE  /\ Linked(lk, s) \in [Slots -> Word]
         /\ Spells(Linked(lk, s), First(s), s)
         /\ \A x \in Slots : x \notin ToSet(s) => Linked(lk, s)[x] = lk[x]
<1> DEFINE At(x) == CHOOSE j \in DOMAIN s : s[j] = x
           lk2 == Linked(lk, s)
           n == Len(s)
<1>0. /\ n \in Nat /\ n = Len(s) /\ DOMAIN s = 1..n
      /\ \A i \in 1..n : s[i] \in Slots /\ s[i] \in ToSet(s)
      /\ \A x \in ToSet(s) : x \in Slots /\ \E i \in 1..n : s[i] = x
      /\ \A i, j \in 1..n : s[i] = s[j] => i = j
  BY Positions
<1>1. \A x \in Slots : lk2[x] = IF x \in ToSet(s)
                                THEN IF At(x) < n THEN s[At(x) + 1] ELSE Null
                                ELSE lk[x]
  BY DEF Linked
<1>2. DOMAIN lk2 = Slots /\ lk2 = [x \in Slots |-> lk2[x]]
  BY DEF Linked
<1> HIDE DEF lk2, n
<1>3. \A x \in ToSet(s) : At(x) \in 1..n /\ s[At(x)] = x
  BY <1>0
<1>4. \A i \in 1..n : At(s[i]) = i
  BY <1>0, <1>3
<1> HIDE DEF At
<1>5. \A i \in 1..n : lk2[s[i]] = IF i < n THEN s[i + 1] ELSE Null
  BY <1>0, <1>1, <1>4
<1>6. Spells(lk2, First(s), s)
  BY <1>0, <1>5 DEF Spells
<1>7. \A x \in Slots : lk2[x] \in Word
  <2> SUFFICES ASSUME NEW x \in Slots PROVE lk2[x] \in Word
    OBVIOUS
  <2>1. CASE x \notin ToSet(s)
    BY <1>1, <2>1
  <2>2. CASE x \in ToSet(s)
    <3>1. PICK i \in 1..n : s[i] = x
      BY <1>0, <2>2
    <3>2. i < n => i + 1 \in 1..n
      BY <1>0
    <3> QED
      BY <1>0, <1>5, <3>1, <3>2 DEF Word
  <2> QED
    BY <2>1, <2>2
<1> QED
  BY <1>1, <1>2, <1>6, <1>7 DEF lk2

-----------------------------------------------------------------------------
(* Slots and regions.                                                      *)

\* The slots of the r-th region, and which region a slot is of.
Region(r) == ((r - 1) * SlotsPerArena + 1)..(r * SlotsPerArena)
IndexOf(s) == ((s - 1) \div SlotsPerArena) + 1

\* What the assumptions on the constants say of the batch and of the cap.
LEMMA Sizes ==
  /\ SlotsPerArena \in Nat \ {0} /\ MaxArenas \in Nat
  /\ kThreadLocalCacheBatchSize \in Nat \ {0} /\ kThreadLocalCacheBatchSize <= SlotsPerArena
  /\ kThreadLocalCacheCap \in Nat /\ kThreadLocalCacheCap = 2 * kThreadLocalCacheBatchSize
BY BatchAssumption, CarvingAssumption DEF kThreadLocalCacheCap

\* The regions before the k-th have k - 1 times as many slots as one.
LEMMA Bounds ==
  ASSUME NEW j \in Nat, NEW k \in Nat, j <= k
  PROVE  /\ SlotsPerArena * j \in Nat /\ SlotsPerArena * k \in Nat
         /\ SlotsPerArena * j <= SlotsPerArena * k
         /\ k * SlotsPerArena = SlotsPerArena * k
         /\ SlotsPerArena * (k + 1) = SlotsPerArena * k + SlotsPerArena
         /\ (k + 1 - 1) * SlotsPerArena = SlotsPerArena * k
         /\ (k + 1) * SlotsPerArena = SlotsPerArena * k + SlotsPerArena
<1> DEFINE L == SlotsPerArena
<1>1. L \in Nat
  BY Sizes
<1> HIDE DEF L
<1>2. k + 1 - 1 = k
  OBVIOUS
<1>3. L * j \in Nat /\ L * k \in Nat /\ L * j <= L * k /\ k * L = L * k
  BY <1>1
<1>4. L * (k + 1) = L * k + L /\ (k + 1) * L = L * k + L
  BY <1>1
<1> QED
  BY <1>2, <1>3, <1>4 DEF L

\* Every slot is of one region, and the first k regions have the first slots.
LEMMA SlotRegion ==
  ASSUME NEW s \in Nat \ {0}
  PROVE  /\ IndexOf(s) \in Nat \ {0} /\ s \in Region(IndexOf(s))
         /\ \A k \in Nat : s \in 1..(SlotsPerArena * k) <=> IndexOf(s) <= k
<1> DEFINE L == SlotsPerArena
           q == (s - 1) \div L
<1>1. L \in Nat \ {0} /\ s - 1 \in Nat
  BY Sizes
<1>2. q \in Nat /\ L * q <= s - 1 /\ s - 1 < L * q + L /\ L * q \in Nat
  BY <1>1
<1>3. IndexOf(s) = q + 1
  BY DEF IndexOf
<1> HIDE DEF q
<1>4. (q + 1 - 1) * L = L * q /\ (q + 1) * L = L * q + L
  BY <1>2, Bounds
<1>5. s \in Region(q + 1)
  BY <1>1, <1>2, <1>4 DEF Region
<1>6. ASSUME NEW k \in Nat PROVE s \in 1..(L * k) <=> q + 1 <= k
  <2>1. CASE q + 1 <= k
    <3>1. L * (q + 1) <= L * k /\ L * (q + 1) = L * q + L /\ L * k \in Nat
      BY <1>2, <2>1, Bounds
    <3> HIDE DEF L
    <3>2. s <= L * k
      BY <1>1, <1>2, <3>1
    <3> QED
      BY <2>1, <3>1, <3>2
  <2>2. CASE ~(q + 1 <= k)
    <3>1. k <= q
      BY <1>2, <2>2
    <3>2. L * k <= L * q /\ L * k \in Nat
      BY <1>2, <3>1, Bounds
    <3> HIDE DEF L
    <3>3. ~(s <= L * k)
      BY <1>1, <1>2, <3>2
    <3> QED
      BY <2>2, <3>2, <3>3
  <2> QED
    BY <2>1, <2>2
<1> QED
  BY <1>2, <1>3, <1>5, <1>6

\* The slots of the next region are behind all that there were.
LEMMA NextRegion ==
  ASSUME NEW k \in Nat
  PROVE  /\ 1..(SlotsPerArena * (k + 1)) = 1..(SlotsPerArena * k) \cup Region(k + 1)
         /\ 1..(SlotsPerArena * k) \cap Region(k + 1) = {}
         /\ \A s \in Region(k + 1) : s \in Nat \ {0} /\ IndexOf(s) = k + 1
         /\ k + 1 <= MaxArenas => Region(k + 1) \subseteq Slots
         /\ Region(k + 1) = (SlotsPerArena * k + 1)..(SlotsPerArena * k + SlotsPerArena)
<1> DEFINE L == SlotsPerArena
<1>0. L \in Nat \ {0} /\ L * k \in Nat
  BY Sizes, Bounds
<1>1. L * (k + 1) = L * k + L /\ (k + 1 - 1) * L = L * k /\ (k + 1) * L = L * k + L
  BY Bounds
<1>2. Region(k + 1) = (L * k + 1)..(L * k + L)
  <2> DEFINE a == (k + 1 - 1) * L
             b == (k + 1) * L
  <2>1. Region(k + 1) = (a + 1)..b
    BY DEF Region
  <2>2. a = L * k /\ b = L * k + L
    BY <1>1
  <2> HIDE DEF a, b, L
  <2> QED
    BY <2>1, <2>2
<1>3. k + 1 <= MaxArenas => L * (k + 1) <= L * MaxArenas /\ L * MaxArenas \in Nat
  BY Sizes, Bounds
<1>4. Slots = 1..(L * MaxArenas)
  BY DEF Slots
<1>8. \A s \in Nat \ {0} : /\ IndexOf(s) \in Nat
                           /\ (s \in 1..(L * (k + 1)) <=> IndexOf(s) <= k + 1)
                           /\ (s \in 1..(L * k) <=> IndexOf(s) <= k)
  BY SlotRegion
<1> HIDE DEF L
<1>5. 1..(L * (k + 1)) = 1..(L * k) \cup Region(k + 1)
  BY <1>0, <1>1, <1>2
<1>6. 1..(L * k) \cap Region(k + 1) = {}
  BY <1>0, <1>2
<1>7. \A s \in Region(k + 1) : s \in Nat \ {0} /\ s \notin 1..(L * k) /\ s \in 1..(L * (k + 1))
  BY <1>0, <1>1, <1>2
<1>9. \A s \in Region(k + 1) : IndexOf(s) = k + 1
  BY <1>7, <1>8
<1>10. k + 1 <= MaxArenas => Region(k + 1) \subseteq Slots
  <2> SUFFICES ASSUME k + 1 <= MaxArenas, NEW s \in Region(k + 1) PROVE s \in 1..(L * MaxArenas)
    BY <1>4
  <2>1. s \in Nat \ {0} /\ s <= L * (k + 1) /\ L * (k + 1) \in Nat
    BY <1>0, <1>1, <1>7
  <2> QED
    BY <1>3, <2>1
<1> QED
  BY <1>2, <1>5, <1>6, <1>7, <1>9, <1>10 DEF L

\* expand() links every slot of its region, once.
LEMMA CarvedSlots ==
  ASSUME NEW k \in Nat, k + 1 <= MaxArenas
  PROVE  /\ Carved(k + 1) \in Seq(Slots) /\ IsInjective(Carved(k + 1))
         /\ Len(Carved(k + 1)) = SlotsPerArena
         /\ ToSet(Carved(k + 1)) = Region(k + 1)
<1> DEFINE L == SlotsPerArena
           c == Carved(k + 1)
           e == (k + 1) * L
<1>0. L \in Nat \ {0} /\ L * k \in Nat /\ e = L * k + L
  BY Sizes, Bounds
<1>1. Region(k + 1) = (L * k + 1)..(L * k + L) /\ Region(k + 1) \subseteq Slots
  BY NextRegion
<1>2. c = [i \in 1..L |-> e + 1 - i]
  BY DEF Carved
<1> HIDE DEF c, e
<1> HIDE DEF L
<1>3. \A i \in 1..L : c[i] = e + 1 - i /\ c[i] \in Region(k + 1)
  BY <1>0, <1>1, <1>2
<1>4. c \in [1..L -> Slots]
  BY <1>1, <1>2, <1>3
<1>5. c \in Seq(Slots) /\ Len(c) = L
  BY <1>0, <1>4
<1>6. \A i, j \in 1..L : c[i] = c[j] => i = j
  BY <1>0, <1>3
<1>7. IsInjective(c)
  BY <1>5, <1>6, Positions
<1>8. ASSUME NEW s \in Region(k + 1) PROVE s \in ToSet(c)
  <2>1. s \in Int /\ e + 1 - s \in 1..L /\ e + 1 - (e + 1 - s) = s
    BY <1>0, <1>1
  <2>2. c[e + 1 - s] = s
    BY <1>3, <2>1
  <2> QED
    BY <1>5, <2>1, <2>2, Positions
<1>9. ASSUME NEW s \in ToSet(c) PROVE s \in Region(k + 1)
  BY <1>3, <1>5, Positions
<1>10. ToSet(c) = Region(k + 1)
  BY <1>8, <1>9
<1> QED
  BY <1>5, <1>7, <1>10 DEF c, L

-----------------------------------------------------------------------------
(* The lists there are.                                                    *)

\* No two lists have one name.
LEMMA PlacesApart ==
  /\ \A p \in Pools : InPool(p) \in Places
  /\ \A t \in Threads, p \in Pools : InCache(t, p) \in Places
  /\ \A t \in Threads : InHand(t) \in Places
  /\ \A p, q \in Pools : InPool(p) = InPool(q) => p = q
  /\ \A t, u \in Threads, p, q \in Pools : InCache(t, p) = InCache(u, q) => t = u /\ p = q
  /\ \A t, u \in Threads : InHand(t) = InHand(u) => t = u
  /\ \A t \in Threads, p, q \in Pools : InPool(p) # InCache(t, q)
  /\ \A t \in Threads, p \in Pools : InPool(p) # InHand(t)
  /\ \A t, u \in Threads, p \in Pools : InCache(t, p) # InHand(u)
  /\ \A l \in Places : \/ \E p \in Pools : l = InPool(p)
                       \/ \E t \in Threads, p \in Pools : l = InCache(t, p)
                       \/ \E t \in Threads : l = InHand(t)
<1>1. /\ \A p \in Pools : InPool(p) \in Places
      /\ \A t \in Threads, p \in Pools : InCache(t, p) \in Places
      /\ \A t \in Threads : InHand(t) \in Places
  BY DEF Places
<1>2. \A l \in Places : \/ \E p \in Pools : l = InPool(p)
                        \/ \E t \in Threads, p \in Pools : l = InCache(t, p)
                        \/ \E t \in Threads : l = InHand(t)
  BY DEF Places
<1>3. /\ \A p, q \in Pools : InPool(p) = InPool(q) => p = q
      /\ \A t, u \in Threads : InHand(t) = InHand(u) => t = u
      /\ \A t \in Threads, p \in Pools : InPool(p) # InHand(t)
  BY DEF InPool, InHand
<1>4. \A t, u \in Threads, p, q \in Pools : InCache(t, p) = InCache(u, q) => t = u /\ p = q
  BY DEF InCache
<1>5. \A t \in Threads, p, q \in Pools : InPool(p) # InCache(t, q)
  BY DEF InPool, InCache
<1>6. \A t, u \in Threads, p \in Pools : InCache(t, p) # InHand(u)
  BY DEF InHand, InCache
<1> QED
  BY <1>1, <1>2, <1>3, <1>4, <1>5, <1>6

\* The pool whose slots a list has.
Owner ==
  [l \in Places |-> CASE l[1] = "pool"  -> l[2]
                     [] l[1] = "cache" -> l[3]
                     [] l[1] = "hand"  -> batch[l[2]].pool]

\* Heads and owners, list by list, before and after a step.
LEMMA HeadsAre ==
  /\ \A p \in Pools : Heads[InPool(p)] = free_head[p] /\ Owner[InPool(p)] = p
  /\ \A t \in Threads, p \in Pools :
       Heads[InCache(t, p)] = tls_caches[t][p].head /\ Owner[InCache(t, p)] = p
  /\ \A t \in Threads : Heads[InHand(t)] = batch[t].head /\ Owner[InHand(t)] = batch[t].pool
  /\ \A p \in Pools : Heads'[InPool(p)] = free_head'[p] /\ Owner'[InPool(p)] = p
  /\ \A t \in Threads, p \in Pools :
       Heads'[InCache(t, p)] = tls_caches'[t][p].head /\ Owner'[InCache(t, p)] = p
  /\ \A t \in Threads : Heads'[InHand(t)] = batch'[t].head /\ Owner'[InHand(t)] = batch'[t].pool
<1>1. \A p \in Pools : InPool(p) \in Places /\ InPool(p)[1] = "pool" /\ InPool(p)[2] = p
  BY PlacesApart DEF InPool
<1>2. \A t \in Threads, p \in Pools :
        /\ InCache(t, p) \in Places
        /\ InCache(t, p)[1] = "cache" /\ InCache(t, p)[2] = t /\ InCache(t, p)[3] = p
  BY PlacesApart DEF InCache
<1>3. \A t \in Threads : InHand(t) \in Places /\ InHand(t)[1] = "hand" /\ InHand(t)[2] = t
  BY PlacesApart DEF InHand
<1>4. \A p \in Pools : /\ Heads[InPool(p)] = free_head[p] /\ Owner[InPool(p)] = p
                       /\ Heads'[InPool(p)] = free_head'[p] /\ Owner'[InPool(p)] = p
  BY <1>1 DEF Heads, Owner
<1>5. \A t \in Threads, p \in Pools :
        /\ Heads[InCache(t, p)] = tls_caches[t][p].head /\ Owner[InCache(t, p)] = p
        /\ Heads'[InCache(t, p)] = tls_caches'[t][p].head /\ Owner'[InCache(t, p)] = p
  BY <1>2 DEF Heads, Owner
<1>6. \A t \in Threads :
        /\ Heads[InHand(t)] = batch[t].head /\ Owner[InHand(t)] = batch[t].pool
        /\ Heads'[InHand(t)] = batch'[t].head /\ Owner'[InHand(t)] = batch'[t].pool
  BY <1>3 DEF Heads, Owner
<1> QED
  BY <1>4, <1>5, <1>6

-----------------------------------------------------------------------------
(* The inductive invariant.                                                *)

\* Where a thread is in a call and what it has in hand: a thread that is in
\* none has no batch, a batch is a pool's, a refill finds its cache as empty
\* as when it went to the pool, and a thread that has ended left no cache.
InOrder ==
  \A t \in Threads :
    /\ pc[t] = "idle" => batch[t] = NoBatch
    /\ pc[t] # "idle" => batch[t].pool \in Pools /\ t \in alive
    /\ pc[t] = "refill" => tls_caches[t][batch[t].pool].head = Null
    /\ t \notin alive => \A p \in Pools : tls_caches[t][p].head = Null
    /\ \A p \in Pools : tls_caches[t][p].count <= kThreadLocalCacheCap

IInv == TypeOK /\ InOrder /\ SlotsInOnePlace /\ CachesCountTheirSlots /\ SlotsStayWithTheirPool

\* What the invariant says of one list.
LEMMA OneList ==
  ASSUME TypeOK, SlotsInOnePlace, NEW l \in Places
  PROVE  /\ list[l] \in Seq(Slots) /\ IsInjective(list[l]) /\ Spells(link, Heads[l], list[l])
         /\ Heads[l] = First(list[l])
         /\ list[l] = << >> <=> Heads[l] = Null
         /\ \A x \in ToSet(list[l]) :
              /\ x \in Slots /\ x \in Acquired /\ x \notin held /\ x \notin stranded
              /\ \A m \in Places : m # l => x \notin ToSet(list[m])
<1>1. /\ list[l] \in Seq(Slots) /\ IsInjective(list[l]) /\ Spells(link, Heads[l], list[l])
  BY DEF TypeOK, SlotsInOnePlace
<1>2. Heads[l] = First(list[l])
  BY <1>1 DEF Spells
<1>3. list[l] = << >> <=> Heads[l] = Null
  BY <1>1, <1>2, FirstSlot
<1>4. ASSUME NEW x \in ToSet(list[l])
      PROVE  /\ x \in Slots /\ x \in Acquired /\ x \notin held /\ x \notin stranded
             /\ \A m \in Places : m # l => x \notin ToSet(list[m])
  <2>1. x \in Slots
    BY <1>1, Positions
  <2>2. x \in Acquired /\ x \notin held /\ x \notin stranded
    BY DEF SlotsInOnePlace
  <2>3. \A m \in Places : m # l => x \notin ToSet(list[m])
    BY DEF SlotsInOnePlace
  <2> QED
    BY <2>1, <2>2, <2>3
<1> QED
  BY <1>1, <1>2, <1>3, <1>4

\* Who has a slot that a region has brought.
LEMMA WhereSlotsAre ==
  ASSUME TypeOK, SlotsInOnePlace
  PROVE  /\ \A s \in Acquired : s \in held \/ s \in stranded \/ \E l \in Places : s \in ToSet(list[l])
         /\ held \subseteq Acquired /\ stranded \subseteq Acquired /\ held \cap stranded = {}
         /\ Acquired \subseteq Slots
         /\ \A s \in Acquired : IndexOf(s) \in 1..Len(home) /\ HomeOf(s) = home[IndexOf(s)] /\ HomeOf(s) \in Pools
<1>1. /\ \A s \in Acquired : s \in held \/ s \in stranded \/ \E l \in Places : s \in ToSet(list[l])
      /\ held \subseteq Acquired /\ stranded \subseteq Acquired /\ held \cap stranded = {}
  <2>1. (UNION {ToSet(list[l]) : l \in Places}) \cup held \cup stranded = Acquired /\ held \cap stranded = {}
    BY DEF SlotsInOnePlace
  <2>2. \A s : s \in UNION {ToSet(list[l]) : l \in Places} <=> \E l \in Places : s \in ToSet(list[l])
    OBVIOUS
  <2> QED
    BY <2>1, <2>2, Zenon
<1>2. home \in Seq(Pools) /\ Len(home) \in Nat /\ Len(home) <= MaxArenas
  BY DEF TypeOK
<1>3. Acquired \subseteq Slots
  <2>1. SlotsPerArena * Len(home) <= SlotsPerArena * MaxArenas /\ SlotsPerArena * Len(home) \in Nat
        /\ SlotsPerArena * MaxArenas \in Nat
    BY <1>2, Sizes, Bounds
  <2> QED
    BY <2>1 DEF Acquired, Slots
<1>4. ASSUME NEW s \in Acquired
      PROVE  IndexOf(s) \in 1..Len(home) /\ HomeOf(s) = home[IndexOf(s)] /\ HomeOf(s) \in Pools
  <2>1. s \in Nat \ {0}
    BY <1>3 DEF Slots
  <2>2. IndexOf(s) \in 1..Len(home)
    BY <1>2, <2>1, SlotRegion DEF Acquired
  <2>3. HomeOf(s) = home[IndexOf(s)]
    BY DEF HomeOf, IndexOf
  <2> QED
    BY <1>2, <2>2, <2>3, Positions
<1> QED
  BY <1>1, <1>3, <1>4

-----------------------------------------------------------------------------
(* Steps that move slots.                                                  *)

\* The slots of M move between the lists of A, callers and what has not been
\* carved yet; nothing else changes.
Moves(A, M) ==
  /\ A \subseteq Places
  /\ \A l \in A : ToSet(list[l]) \subseteq M /\ ToSet(list'[l]) \subseteq M
  /\ \A l \in Places \ A : list'[l] = list[l] /\ Heads'[l] = Heads[l] /\ Owner'[l] = Owner[l]
  /\ M \subseteq Slots /\ M \subseteq Acquired'
  /\ \A s \in M : s \in Acquired => s \in held \/ s \in stranded \/ \E l \in A : s \in ToSet(list[l])
  /\ \A s \in Slots \ M : /\ link'[s] = link[s]
                          /\ s \in Acquired' <=> s \in Acquired
                          /\ s \in held' <=> s \in held
                          /\ s \in stranded' <=> s \in stranded
  /\ \A s \in Acquired : HomeOf(s)' = HomeOf(s)

\* They arrive: the words spell the lists of A again, and each slot of M is in
\* one place.
Arrive(A, M) ==
  /\ \A l \in A : Spells(link', Heads'[l], list'[l]) /\ IsInjective(list'[l])
  /\ \A l, m \in A : l # m => ToSet(list'[l]) \cap ToSet(list'[m]) = {}
  /\ \A l \in A : \A s \in ToSet(list'[l]) : s \notin held' /\ s \notin stranded'
  /\ \A s \in M : s \in held' \/ s \in stranded' \/ \E l \in A : s \in ToSet(list'[l])
  /\ \A s \in M : ~(s \in held' /\ s \in stranded')
  /\ \A s \in M : s \in held' => s \notin held

\* What stays where it is, is still in one place.
LEMMA OnePlaceKept ==
  ASSUME TypeOK, TypeOK', SlotsInOnePlace, NEW A, NEW M, Moves(A, M), Arrive(A, M)
  PROVE  SlotsInOnePlace'
<1>0. /\ held' \subseteq Slots /\ stranded' \subseteq Slots
      /\ \A l \in Places : list'[l] \in Seq(Slots)
  BY DEF TypeOK
<1>1. \A l \in Places \ A : \A s \in ToSet(list[l]) : s \in Slots /\ s \notin M
  <2> SUFFICES ASSUME NEW l \in Places \ A, NEW s \in ToSet(list[l]), s \in M PROVE FALSE
    BY OneList
  <2>1. /\ s \in Slots /\ s \in Acquired /\ s \notin held /\ s \notin stranded
        /\ \A m \in Places : m # l => s \notin ToSet(list[m])
    BY OneList
  <2> QED
    BY <2>1 DEF Moves
<1>2. \A l \in Places : Spells(link', Heads'[l], list'[l]) /\ IsInjective(list'[l])
  <2> SUFFICES ASSUME NEW l \in Places, l \notin A
               PROVE  Spells(link', Heads'[l], list'[l]) /\ IsInjective(list'[l])
    BY DEF Arrive
  <2>1. list[l] \in Seq(Slots) /\ IsInjective(list[l]) /\ Spells(link, Heads[l], list[l])
    BY OneList
  <2>2. \A s \in ToSet(list[l]) : link'[s] = link[s]
    BY <1>1 DEF Moves
  <2>3. Spells(link', Heads[l], list[l])
    BY <2>1, <2>2, SpellsStill
  <2> QED
    BY <2>1, <2>3 DEF Moves
<1>3. \A l, m \in Places : l # m => ToSet(list'[l]) \cap ToSet(list'[m]) = {}
  <2> SUFFICES ASSUME NEW l \in Places, NEW m \in Places, l # m,
                      NEW s \in ToSet(list'[l]), s \in ToSet(list'[m])
               PROVE  FALSE
    OBVIOUS
  <2>1. CASE l \in A /\ m \in A
    BY <2>1 DEF Arrive
  <2>2. CASE l \in A /\ m \notin A
    BY <1>1, <2>2 DEF Moves
  <2>3. CASE l \notin A /\ m \in A
    BY <1>1, <2>3 DEF Moves
  <2>4. CASE l \notin A /\ m \notin A
    <3>1. s \in ToSet(list[l]) /\ s \in ToSet(list[m])
      BY <2>4 DEF Moves
    <3> QED
      BY <3>1, OneList
  <2> QED
    BY <2>1, <2>2, <2>3, <2>4
<1>4. ASSUME NEW l \in Places, NEW s \in ToSet(list'[l]) PROVE s \notin held' /\ s \notin stranded'
  <2>1. CASE l \in A
    BY <2>1 DEF Arrive
  <2>2. CASE l \notin A
    <3>1. s \in ToSet(list[l])
      BY <2>2 DEF Moves
    <3>2. s \in Slots /\ s \notin M /\ s \notin held /\ s \notin stranded
      BY <1>1, <2>2, <3>1, OneList
    <3> QED
      BY <3>2 DEF Moves
  <2> QED
    BY <2>1, <2>2
<1>5. held' \cap stranded' = {}
  <2> SUFFICES ASSUME NEW s \in held', s \in stranded' PROVE FALSE
    OBVIOUS
  <2>1. CASE s \in M
    BY <2>1 DEF Arrive
  <2>2. CASE s \notin M
    <3>1. s \in held /\ s \in stranded
      BY <1>0, <2>2 DEF Moves
    <3> QED
      BY <3>1, WhereSlotsAre
  <2> QED
    BY <2>1, <2>2
<1>6. ASSUME NEW s \in Acquired'
      PROVE  s \in held' \/ s \in stranded' \/ \E l \in Places : s \in ToSet(list'[l])
  <2>1. CASE s \in M
    BY <2>1 DEF Arrive, Moves
  <2>2. CASE s \notin M
    <3>0. s \in Slots
      <4>1. SlotsPerArena * Len(home') <= SlotsPerArena * MaxArenas /\ SlotsPerArena * Len(home') \in Nat
            /\ SlotsPerArena * MaxArenas \in Nat
        <5>1. Len(home') \in Nat /\ Len(home') <= MaxArenas
          BY DEF TypeOK
        <5> QED
          BY <5>1, Sizes, Bounds
      <4> QED
        BY <4>1 DEF Acquired, Slots
    <3>1. s \in Acquired
      BY <2>2, <3>0 DEF Moves
    <3>2. CASE s \in held \/ s \in stranded
      BY <2>2, <3>0, <3>2 DEF Moves
    <3>3. CASE \E l \in Places : s \in ToSet(list[l])
      <4>1. PICK l \in Places : s \in ToSet(list[l])
        BY <3>3
      <4>2. l \notin A
        BY <2>2, <4>1 DEF Moves
      <4> QED
        BY <4>1, <4>2 DEF Moves
    <3> QED
      BY <3>1, <3>2, <3>3, WhereSlotsAre
  <2> QED
    BY <2>1, <2>2
<1>7. ASSUME NEW s, s \in held' \/ s \in stranded' \/ \E l \in Places : s \in ToSet(list'[l])
      PROVE  s \in Acquired'
  <2>1. CASE s \in M
    BY <2>1 DEF Moves
  <2>2. CASE s \notin M
    <3>0. s \in Slots
      BY <1>0, <1>7, Positions
    <3>1. CASE s \in held' \/ s \in stranded'
      BY <2>2, <3>0, <3>1, WhereSlotsAre DEF Moves
    <3>2. CASE \E l \in Places : s \in ToSet(list'[l])
      <4>1. PICK l \in Places : s \in ToSet(list'[l])
        BY <3>2
      <4>2. l \notin A /\ s \in ToSet(list[l])
        BY <2>2, <4>1 DEF Moves
      <4>3. s \in Acquired
        BY <4>2, OneList
      <4> QED
        BY <2>2, <3>0, <4>3 DEF Moves
    <3> QED
      BY <1>7, <3>1, <3>2
  <2> QED
    BY <2>1, <2>2
<1>8. (UNION {ToSet(list'[l]) : l \in Places}) \cup held' \cup stranded' = Acquired'
  <2>1. \A s : s \in UNION {ToSet(list'[l]) : l \in Places} <=> \E l \in Places : s \in ToSet(list'[l])
    OBVIOUS
  <2> QED
    BY <1>6, <1>7, <2>1, Zenon
<1>9. \A l \in Places : ToSet(list'[l]) \cap (held' \cup stranded') = {}
  BY <1>4
<1> QED
  BY <1>2, <1>3, <1>5, <1>8, <1>9 DEF SlotsInOnePlace

\* Slots of the lists that a step leaves alone keep their pool, and the words
\* in front of payloads that stay allocated keep naming it.
LEMMA HomesKept ==
  ASSUME TypeOK, TypeOK', SlotsInOnePlace, SlotsStayWithTheirPool, NEW A, NEW M, Moves(A, M),
         \A l \in A : \A s \in ToSet(list'[l]) : HomeOf(s)' = Owner'[l],
         \A s \in held' : s \in M => link'[s] = HomeOf(s)'
  PROVE  SlotsStayWithTheirPool'
<1>1. ASSUME NEW s \in held' PROVE link'[s] = HomeOf(s)'
  <2>1. CASE s \notin M
    <3>1. s \in Slots /\ s \in held /\ link'[s] = link[s]
      BY <2>1 DEF Moves, TypeOK
    <3>2. s \in Acquired
      BY <3>1, WhereSlotsAre
    <3>3. link[s] = HomeOf(s) /\ HomeOf(s)' = HomeOf(s)
      BY <3>1, <3>2 DEF Moves, SlotsStayWithTheirPool
    <3> QED
      BY <3>1, <3>3
  <2> QED
    BY <2>1
<1>2. ASSUME NEW l \in Places, NEW s \in ToSet(list'[l]) PROVE HomeOf(s)' = Owner'[l]
  <2>1. CASE l \notin A
    <3>1. s \in ToSet(list[l]) /\ Owner'[l] = Owner[l]
      BY <2>1 DEF Moves
    <3>2. HomeOf(s)' = HomeOf(s)
      BY <3>1, OneList DEF Moves
    <3>3. HomeOf(s) = Owner[l]
      <4>1. CASE \E p \in Pools : l = InPool(p)
        BY <3>1, <4>1, HeadsAre DEF SlotsStayWithTheirPool
      <4>2. CASE \E t \in Threads, p \in Pools : l = InCache(t, p)
        BY <3>1, <4>2, HeadsAre DEF SlotsStayWithTheirPool
      <4>3. CASE \E t \in Threads : l = InHand(t)
        BY <3>1, <4>3, HeadsAre DEF SlotsStayWithTheirPool
      <4> QED
        BY <4>1, <4>2, <4>3, PlacesApart
    <3> QED
      BY <3>1, <3>2, <3>3
  <2> QED
    BY <2>1
<1>3. ASSUME NEW p \in Pools
      PROVE  /\ \A s \in ToSet(list'[InPool(p)]) : HomeOf(s)' = p
             /\ \A t \in Threads : \A s \in ToSet(list'[InCache(t, p)]) : HomeOf(s)' = p
  <2>1. \A s \in ToSet(list'[InPool(p)]) : HomeOf(s)' = p
    BY <1>2, HeadsAre, PlacesApart
  <2>2. \A t \in Threads : \A s \in ToSet(list'[InCache(t, p)]) : HomeOf(s)' = p
    <3> SUFFICES ASSUME NEW t \in Threads, NEW s \in ToSet(list'[InCache(t, p)]) PROVE HomeOf(s)' = p
      OBVIOUS
    <3>1. InCache(t, p) \in Places /\ Owner'[InCache(t, p)] = p
      BY HeadsAre, PlacesApart
    <3> QED
      BY <1>2, <3>1
  <2> QED
    BY <2>1, <2>2
<1>4. \A t \in Threads : \A s \in ToSet(list'[InHand(t)]) : HomeOf(s)' = batch'[t].pool
  BY <1>2, HeadsAre, PlacesApart
<1> QED
  BY <1>1, <1>3, <1>4 DEF SlotsStayWithTheirPool

\* What a step may not do to a payload that stays allocated.
TagsKept == \A s \in held \cap held' : link'[s] = link[s]

\* A step that only moves slots from place to place leaves the words of the slots
\* that callers keep.
LEMMA TagsStay ==
  ASSUME TypeOK, NEW A, NEW M, Moves(A, M), Arrive(A, M)
  PROVE  TagsKept
BY DEF TypeOK, Moves, Arrive, TagsKept

-----------------------------------------------------------------------------
(* What a pool hands out.                                                  *)

\* Slots of p's list and all of a region that p has just acquired, or of no
\* region: some are handed out, the first ones, and the list has the others.
Handed(p, n, b, new) ==
  /\ b.got \in Seq(Slots) /\ IsInjective(b.got) /\ b.got # << >> /\ Len(b.got) <= n
  /\ b.left \in Seq(Slots) /\ IsInjective(b.left)
  /\ ToSet(b.got) \cap ToSet(b.left) = {}
  /\ ToSet(b.got) \cup ToSet(b.left) = ToSet(list[InPool(p)]) \cup new
  /\ b.lk \in [Slots -> Word] /\ Spells(b.lk, b.head, b.left)
  /\ b.head \in Slots \cup {Null}
  /\ \A s \in Slots : s \notin new => b.lk[s] = link[s]
  /\ b.home \in Seq(Pools) /\ Len(b.home) <= MaxArenas
  /\ new \subseteq Slots /\ new \cap Acquired = {}
  /\ 1..(SlotsPerArena * Len(b.home)) = Acquired \cup new
  /\ \A s \in Acquired : b.home[IndexOf(s)] = home[IndexOf(s)]
  /\ \A s \in new : b.home[IndexOf(s)] = p

\* The slots that are there, when no region is needed or none is to be had.
LEMMA HandedFromList ==
  ASSUME TypeOK, SlotsInOnePlace, NEW p \in Pools, NEW n \in Nat \ {0}, NEW b \in FromList(p, n)
  PROVE  Handed(p, n, b, {})
<1> DEFINE s == list[InPool(p)]
<1>1. /\ s \in Seq(Slots) /\ IsInjective(s) /\ Spells(link, free_head[p], s)
      /\ \A x \in ToSet(s) : x \in Slots
  BY OneList, PlacesApart, HeadsAre
<1>2. PICK w \in Gathered(p, n) \ {<< >>} :
        b = [got |-> w, lk |-> link, home |-> home, head |-> After(link, free_head[p], w),
             left |-> SubSeq(s, Len(w) + 1, Len(s))]
  BY DEF FromList
<1>3. PICK m \in 0..n : w \in Walks(link, free_head[p], m)
  BY <1>2 DEF Gathered
<1> HIDE DEF s
<1>4. m \in 0..Len(s) /\ w = SubSeq(s, 1, m) /\ w \in Seq(Slots) /\ Len(w) = m
  BY <1>1, <1>3, WalkIsPart
<1> DEFINE r == SubSeq(s, m + 1, Len(s))
<1>5. /\ w \in Seq(Slots) /\ IsInjective(w) /\ w # << >> /\ Len(w) <= n
      /\ r \in Seq(Slots) /\ IsInjective(r)
      /\ ToSet(w) \cap ToSet(r) = {} /\ ToSet(w) \cup ToSet(r) = ToSet(s)
  <2>1. w # << >> /\ Len(w) <= n
    <3>1. w # << >>
      BY <1>2
    <3>2. m <= n
      BY <1>3
    <3> QED
      BY <1>4, <3>1, <3>2
  <2>2. /\ w \in Seq(Slots) /\ IsInjective(w) /\ r \in Seq(Slots) /\ IsInjective(r)
        /\ ToSet(w) \cap ToSet(r) = {} /\ ToSet(w) \cup ToSet(r) = ToSet(s)
    BY <1>1, <1>4, Parts
  <2> QED
    BY <2>1, <2>2
<1>6. After(link, free_head[p], w) = First(r) /\ Spells(link, First(r), r)
  BY <1>1, <1>4, PartsSpell
<1> HIDE DEF r
<1>7. First(r) \in Slots \cup {Null}
  BY <1>5, FirstSlot
<1>8. b.got = w /\ b.lk = link /\ b.home = home /\ b.head = First(r) /\ b.left = r
  BY <1>2, <1>4, <1>6 DEF r
<1>9. home \in Seq(Pools) /\ Len(home) <= MaxArenas /\ link \in [Slots -> Word]
  BY DEF TypeOK
<1> QED
  BY <1>5, <1>6, <1>7, <1>8, <1>9 DEF Handed, Acquired, s

\* What expand() adds is behind all that was carved before, and whole.
LEMMA HandedFromRegion ==
  ASSUME TypeOK, SlotsInOnePlace, NEW p \in Pools, NEW n \in Nat \ {0}, n <= SlotsPerArena,
         NEW b \in FromRegion(p, n)
  PROVE  Len(home) < MaxArenas /\ Handed(p, n, b, Region(Len(home) + 1))
<1> DEFINE s == list[InPool(p)]
           k == Len(home)
           r == Carved(k + 1)
           Fresh(w) == SubSeq(r, 1, n - Len(w))
           Left(w) == SubSeq(r, n - Len(w) + 1, Len(r))
<1>1. /\ s \in Seq(Slots) /\ IsInjective(s) /\ Spells(link, free_head[p], s)
      /\ \A x \in ToSet(s) : x \in Slots /\ x \in Acquired
  BY OneList, PlacesApart, HeadsAre
<1>2. PICK w \in Gathered(p, n) :
        /\ Len(w) < n /\ k < MaxArenas
        /\ b = [got |-> w \o Fresh(w), lk |-> Linked(link, r), home |-> Append(home, p),
                head |-> First(Left(w)), left |-> Left(w)]
  BY DEF FromRegion
<1>3. PICK m \in 0..n : w \in Walks(link, free_head[p], m) /\ After(link, free_head[p], w) = Null
  BY <1>2 DEF Gathered
<1>4. home \in Seq(Pools) /\ k \in Nat /\ k + 1 <= MaxArenas /\ link \in [Slots -> Word]
  BY <1>2, Sizes DEF TypeOK
<1> HIDE DEF s
\* The whole list goes out.
<1>5. w = s /\ m = Len(w) /\ m < n
  <2>1. m \in 0..Len(s) /\ w = SubSeq(s, 1, m) /\ Len(w) = m
    BY <1>1, <1>3, WalkIsPart
  <2>2. First(SubSeq(s, m + 1, Len(s))) = Null
    BY <1>1, <1>3, <2>1, PartsSpell
  <2>3. SubSeq(s, m + 1, Len(s)) \in Seq(Slots) /\ (SubSeq(s, m + 1, Len(s)) = << >> <=> m = Len(s))
    BY <1>1, <2>1, Parts
  <2>4. m = Len(s)
    BY <2>2, <2>3, FirstSlot
  <2> QED
    BY <1>1, <1>2, <2>1, <2>4, SubSeqFull
<1>6. /\ r \in Seq(Slots) /\ IsInjective(r) /\ Len(r) = SlotsPerArena /\ ToSet(r) = Region(k + 1)
      /\ Region(k + 1) \subseteq Slots
  BY <1>4, CarvedSlots, NextRegion
<1> DEFINE j == n - m
           f == SubSeq(r, 1, j)
           g == SubSeq(r, j + 1, Len(r))
<1>7. j \in 1..Len(r) /\ j = n - Len(w)
  BY <1>5, <1>6, Sizes
<1>8. /\ b.got = s \o f /\ b.left = g /\ b.head = First(g)
      /\ b.lk = Linked(link, r) /\ b.home = Append(home, p)
  BY <1>2, <1>5
<1> HIDE DEF r
<1> HIDE DEF j
<1>9. /\ f \in Seq(Slots) /\ IsInjective(f) /\ Len(f) = j /\ f # << >>
      /\ g \in Seq(Slots) /\ IsInjective(g)
      /\ ToSet(f) \cap ToSet(g) = {} /\ ToSet(f) \cup ToSet(g) = Region(k + 1)
  <2>1. j \in 0..Len(r) /\ j > 0 /\ j \in Nat
    BY <1>7
  <2>2. /\ f \in Seq(Slots) /\ IsInjective(f) /\ Len(f) = j
        /\ g \in Seq(Slots) /\ IsInjective(g)
        /\ ToSet(f) \cap ToSet(g) = {} /\ ToSet(f) \cup ToSet(g) = ToSet(r)
    BY <1>6, <2>1, Parts
  <2>3. f # << >>
    BY <2>1, <2>2, EmptySeq
  <2> QED
    BY <1>6, <2>2, <2>3
<1>10. /\ Linked(link, r) \in [Slots -> Word] /\ Spells(Linked(link, r), First(r), r)
       /\ \A x \in Slots : x \notin Region(k + 1) => Linked(link, r)[x] = link[x]
  BY <1>4, <1>6, LinkedSpells
<1>11. Spells(Linked(link, r), First(g), g)
  BY <1>6, <1>7, <1>10, PartsSpell
<1>12. /\ 1..(SlotsPerArena * (k + 1)) = Acquired \cup Region(k + 1)
       /\ Acquired \cap Region(k + 1) = {}
       /\ \A x \in Region(k + 1) : IndexOf(x) = k + 1
  BY <1>4, NextRegion DEF Acquired
<1> HIDE DEF f, g
<1>13. /\ s \o f \in Seq(Slots) /\ IsInjective(s \o f) /\ Len(s \o f) = Len(s) + Len(f)
       /\ ToSet(s \o f) = ToSet(s) \cup ToSet(f)
  <2>1. ToSet(s) \cap ToSet(f) = {}
    BY <1>1, <1>9, <1>12
  <2> QED
    BY <1>1, <1>9, <2>1, Joined
<1>14. s \o f # << >> /\ Len(s \o f) <= n
  <2>1. Len(s \o f) = n
    BY <1>5, <1>7, <1>9, <1>13
  <2> QED
    BY <1>13, <2>1, EmptySeq
<1>15. ToSet(s \o f) \cap ToSet(g) = {} /\ ToSet(s \o f) \cup ToSet(g) = ToSet(s) \cup Region(k + 1)
  BY <1>1, <1>9, <1>12, <1>13
<1>16. /\ Append(home, p) \in Seq(Pools) /\ Len(Append(home, p)) = k + 1
       /\ \A i \in 1..k : Append(home, p)[i] = home[i]
       /\ Append(home, p)[k + 1] = p
  BY <1>4, AppendProperties
<1>17. \A x \in Acquired : Append(home, p)[IndexOf(x)] = home[IndexOf(x)]
  BY <1>16, WhereSlotsAre
<1>18. First(g) \in Slots \cup {Null}
  BY <1>9, FirstSlot
<1>19. /\ b.got \in Seq(Slots) /\ IsInjective(b.got) /\ b.got # << >> /\ Len(b.got) <= n
       /\ b.left \in Seq(Slots) /\ IsInjective(b.left)
       /\ ToSet(b.got) \cap ToSet(b.left) = {}
       /\ ToSet(b.got) \cup ToSet(b.left) = ToSet(list[InPool(p)]) \cup Region(k + 1)
  BY <1>8, <1>9, <1>13, <1>14, <1>15 DEF s
<1>20. /\ b.lk \in [Slots -> Word] /\ Spells(b.lk, b.head, b.left)
       /\ b.head \in Slots \cup {Null}
       /\ \A x \in Slots : x \notin Region(k + 1) => b.lk[x] = link[x]
  BY <1>8, <1>10, <1>11, <1>18
<1>21. /\ b.home \in Seq(Pools) /\ Len(b.home) <= MaxArenas
       /\ Region(k + 1) \subseteq Slots /\ Region(k + 1) \cap Acquired = {}
       /\ 1..(SlotsPerArena * Len(b.home)) = Acquired \cup Region(k + 1)
       /\ \A x \in Acquired : b.home[IndexOf(x)] = home[IndexOf(x)]
       /\ \A x \in Region(k + 1) : b.home[IndexOf(x)] = p
  BY <1>4, <1>6, <1>8, <1>12, <1>16, <1>17
<1>22. Handed(p, n, b, Region(k + 1))
  BY <1>19, <1>20, <1>21 DEF Handed
<1> QED
  BY <1>2, <1>22

\* Every outcome of allocate() and allocate_batch().
LEMMA WhatIsHanded ==
  ASSUME TypeOK, SlotsInOnePlace, NEW p \in Pools, NEW n \in Nat \ {0}, n <= SlotsPerArena,
         NEW b \in allocate_batch(p, n)
  PROVE  \E new : /\ Handed(p, n, b, new)
                  /\ new = {} \/ (Len(home) < MaxArenas /\ new = Region(Len(home) + 1))
BY HandedFromList, HandedFromRegion DEF allocate_batch

\* What allocate() and allocate_batch() mean for the pool.
LEMMA TakenOut ==
  ASSUME IInv, NEW p \in Pools, NEW n, NEW b, NEW new, Handed(p, n, b, new), TakeOut(p, b)
  PROVE  /\ home' \in Seq(Pools) /\ Len(home') <= MaxArenas
         /\ free_head' \in [Pools -> Slots \cup {Null}]
         /\ free_head'[p] = b.head /\ \A q \in Pools : q # p => free_head'[q] = free_head[q]
         /\ Acquired' = Acquired \cup new
         /\ \A s \in Acquired : HomeOf(s)' = HomeOf(s)
         /\ \A s : s \in ToSet(b.got) \/ s \in ToSet(b.left) <=> s \in ToSet(list[InPool(p)]) \cup new
         /\ \A s \in ToSet(list[InPool(p)]) \cup new :
              /\ s \in Slots /\ s \in Acquired' /\ HomeOf(s)' = p /\ s \notin held /\ s \notin stranded
              /\ s \in Acquired => s \in ToSet(list[InPool(p)])
         /\ \A s \in ToSet(b.got) : s \notin ToSet(b.left)
<1>1. /\ home' = b.home /\ free_head' = [free_head EXCEPT ![p] = b.head]
      /\ b.home \in Seq(Pools) /\ Len(b.home) <= MaxArenas /\ b.head \in Slots \cup {Null}
      /\ new \subseteq Slots /\ new \cap Acquired = {}
      /\ 1..(SlotsPerArena * Len(b.home)) = Acquired \cup new
      /\ \A s \in Acquired : b.home[IndexOf(s)] = home[IndexOf(s)]
      /\ \A s \in new : b.home[IndexOf(s)] = p
      /\ ToSet(b.got) \cap ToSet(b.left) = {}
      /\ ToSet(b.got) \cup ToSet(b.left) = ToSet(list[InPool(p)]) \cup new
  BY DEF Handed, TakeOut
<1>2. TypeOK /\ SlotsInOnePlace /\ SlotsStayWithTheirPool
  BY DEF IInv
<1>3. /\ free_head' \in [Pools -> Slots \cup {Null}] /\ free_head'[p] = b.head
      /\ \A q \in Pools : q # p => free_head'[q] = free_head[q]
  BY <1>1, <1>2 DEF TypeOK
<1>4. Acquired' = Acquired \cup new
  BY <1>1 DEF Acquired
<1>5. \A s : HomeOf(s) = home[IndexOf(s)] /\ HomeOf(s)' = b.home[IndexOf(s)]
  BY <1>1 DEF HomeOf, IndexOf
<1>6. ASSUME NEW s \in ToSet(list[InPool(p)])
      PROVE  /\ s \in Slots /\ s \in Acquired' /\ HomeOf(s)' = p /\ s \notin held /\ s \notin stranded
  <2>1. s \in Slots /\ s \in Acquired /\ s \notin held /\ s \notin stranded
    BY <1>2, OneList, PlacesApart
  <2>2. HomeOf(s) = p
    BY <1>2 DEF SlotsStayWithTheirPool
  <2> QED
    BY <1>1, <1>4, <1>5, <2>1, <2>2
<1>7. ASSUME NEW s \in new
      PROVE  /\ s \in Slots /\ s \in Acquired' /\ HomeOf(s)' = p /\ s \notin held /\ s \notin stranded
             /\ s \notin Acquired
  BY <1>1, <1>2, <1>4, <1>5, WhereSlotsAre
<1> QED
  BY <1>1, <1>3, <1>4, <1>5, <1>6, <1>7

\* Where the slots of a pool's list and of a new region are, and that they may
\* go to lists that were empty.
LEMMA PoolMoves ==
  ASSUME IInv, TypeOK', NEW p \in Pools, NEW n, NEW b, NEW new, Handed(p, n, b, new), TakeOut(p, b),
         NEW A \in SUBSET Places, InPool(p) \in A,
         NEW M, M = ToSet(list[InPool(p)]) \cup new,
         \A l \in A : l # InPool(p) => list[l] = << >>,
         \A l \in A : ToSet(list'[l]) \subseteq M,
         \A l \in Places \ A : list'[l] = list[l] /\ Heads'[l] = Heads[l] /\ Owner'[l] = Owner[l],
         \A s \in Slots : s \notin M => link'[s] = link[s] /\ (s \in held' <=> s \in held),
         stranded' = stranded
  PROVE  Moves(A, M)
<1>1. \A l \in A : ToSet(list[l]) \subseteq M
  <2> SUFFICES ASSUME NEW l \in A, l # InPool(p) PROVE ToSet(list[l]) = {}
    OBVIOUS
  <2> QED
    BY DEF ToSet
<1>2. M \subseteq Slots /\ M \subseteq Acquired'
  BY TakenOut
<1>3. \A s \in M : s \in Acquired => \E l \in A : s \in ToSet(list[l])
  BY TakenOut
<1>4. \A s \in Slots \ M : s \in Acquired' <=> s \in Acquired
  BY TakenOut
<1>5. \A s \in Acquired : HomeOf(s)' = HomeOf(s)
  BY TakenOut
<1> QED
  BY <1>1, <1>2, <1>3, <1>4, <1>5 DEF Moves

\* What each step has to show.
LEMMA StepKept ==
  ASSUME IInv, TypeOK', InOrder', CachesCountTheirSlots', NEW A, NEW M, Moves(A, M), Arrive(A, M),
         \A l \in A : \A s \in ToSet(list'[l]) : HomeOf(s)' = Owner'[l],
         \A s \in held' : s \in M => link'[s] = HomeOf(s)'
  PROVE  IInv' /\ TagsKept
<1>1. SlotsInOnePlace'
  BY OnePlaceKept DEF IInv
<1>2. SlotsStayWithTheirPool'
  BY HomesKept DEF IInv
<1>3. TagsKept
  BY TagsStay DEF IInv
<1> QED
  BY <1>1, <1>2, <1>3 DEF IInv

\* allocate() and the caller's slot.
LEMMA PooledMallocKept ==
  ASSUME IInv, NEW t \in Threads, NEW p \in Pools, PooledMalloc(t, p)
  PROVE  IInv' /\ TagsKept
<1> DEFINE here == InPool(p)
           A == {here}
<1>0. TypeOK /\ InOrder /\ SlotsInOnePlace /\ CachesCountTheirSlots /\ SlotsStayWithTheirPool
  BY DEF IInv
<1>1. PICK b \in allocate_batch(p, 1) :
        /\ TakeOut(p, b)
        /\ link' = Tagged(b.lk, Head(b.got), p)
        /\ held' = held \cup {Head(b.got)}
        /\ list' = [list EXCEPT ![here] = b.left]
  BY DEF PooledMalloc
<1>2. UNCHANGED <<tls_caches, pc, batch, alive, stranded>>
  BY DEF PooledMalloc, threads
<1>3. PICK new : Handed(p, 1, b, new)
  BY <1>0, Sizes, WhatIsHanded
<1> DEFINE x == Head(b.got)
           M == ToSet(list[here]) \cup new
<1>4. /\ x \in Slots /\ ToSet(b.got) = {x}
      /\ b.left \in Seq(Slots) /\ IsInjective(b.left) /\ b.lk \in [Slots -> Word]
      /\ Spells(b.lk, b.head, b.left) /\ b.head \in Slots \cup {Null}
      /\ \A s \in Slots : s \notin new => b.lk[s] = link[s]
  <2>1. b.got \in Seq(Slots) /\ b.got # << >> /\ Len(b.got) <= 1
    BY <1>3 DEF Handed
  <2>2. Len(b.got) = 1 /\ x = b.got[1] /\ x \in Slots
    <3>1. Len(b.got) \in Nat \ {0} /\ First(b.got) = b.got[1] /\ First(b.got) = x /\ First(b.got) \in Slots
      BY <2>1, FirstSlot
    <3> DEFINE m == Len(b.got)
    <3>2. m \in Nat \ {0} /\ m <= 1
      BY <2>1, <3>1
    <3> HIDE DEF x, m
    <3>3. m = 1
      BY <3>2
    <3> QED
      BY <3>1, <3>3 DEF m
  <2>3. ToSet(b.got) = {x}
    BY <2>1, <2>2, Positions
  <2> QED
    BY <1>3, <2>2, <2>3 DEF Handed
<1> HIDE DEF x, M
<1>5. link' = [b.lk EXCEPT ![x] = p]
  BY <1>1 DEF Tagged, x
<1>6. /\ home' \in Seq(Pools) /\ Len(home') <= MaxArenas
      /\ free_head' \in [Pools -> Slots \cup {Null}]
      /\ free_head'[p] = b.head /\ \A q \in Pools : q # p => free_head'[q] = free_head[q]
  BY <1>1, <1>3, TakenOut
<1>19. \A s : s \in M <=> s = x \/ s \in ToSet(b.left)
  BY <1>1, <1>3, <1>4, TakenOut DEF M
<1>20. x \notin ToSet(b.left)
  BY <1>1, <1>3, <1>4, TakenOut
<1>21. \A s \in M : s \in Slots /\ s \in Acquired' /\ HomeOf(s)' = p /\ s \notin held /\ s \notin stranded
  BY <1>1, <1>3, TakenOut DEF M
<1>7. here \in Places /\ list'[here] = b.left /\ \A l \in Places : l # here => list'[l] = list[l]
  BY <1>0, <1>1, PlacesApart DEF TypeOK
<1>8. TypeOK'
  <2>1. link' \in [Slots -> Word]
    BY <1>4, <1>5 DEF Word
  <2>2. held' \subseteq Slots
    BY <1>0, <1>1, <1>4 DEF TypeOK, x
  <2>3. list' \in [Places -> Seq(Slots)]
    BY <1>0, <1>1, <1>4 DEF TypeOK
  <2> QED
    BY <1>0, <1>2, <1>6, <2>1, <2>2, <2>3 DEF TypeOK
<1>9. InOrder'
  BY <1>0, <1>2 DEF InOrder
<1>10. CachesCountTheirSlots'
  BY <1>0, <1>2, <1>7, PlacesApart DEF CachesCountTheirSlots
<1>11. \A l \in Places \ A : list'[l] = list[l] /\ Heads'[l] = Heads[l] /\ Owner'[l] = Owner[l]
  BY <1>2, <1>6, <1>7, HeadsAre, PlacesApart
<1>12. \A s \in Slots : s \notin M => link'[s] = link[s] /\ (s \in held' <=> s \in held)
  <2>1. \A s \in Slots : s \notin M => b.lk[s] = link[s]
    BY <1>4 DEF M
  <2>2. \A s \in Slots : s \notin M => s # x
    BY <1>19
  <2>3. held' = held \cup {x}
    BY <1>1 DEF x
  <2> QED
    BY <1>4, <1>5, <2>1, <2>2, <2>3
<1>13. Moves(A, M)
  <2>1. A \in SUBSET Places /\ InPool(p) \in A /\ \A l \in A : l # InPool(p) => list[l] = << >>
    BY <1>7
  <2>2. \A l \in A : ToSet(list'[l]) \subseteq M
    BY <1>7, <1>19
  <2>3. M = ToSet(list[InPool(p)]) \cup new
    BY DEF M
  <2>4. TakeOut(p, b) /\ stranded' = stranded
    BY <1>1, <1>2
  <2> HIDE DEF A
  <2> QED
    BY <1>3, <1>8, <1>11, <1>12, <2>1, <2>2, <2>3, <2>4, PoolMoves
<1>14. Spells(link', Heads'[here], b.left)
  <2>1. \A s \in ToSet(b.left) : s \in Slots /\ link'[s] = b.lk[s]
    BY <1>4, <1>5, <1>19, <1>20, <1>21
  <2>2. Heads'[here] = b.head
    BY <1>6, HeadsAre
  <2> QED
    BY <1>4, <2>1, <2>2, SpellsStill
<1>15. Arrive(A, M)
  <2>1. held' = held \cup {x} /\ stranded' = stranded
    BY <1>1, <1>2 DEF x
  <2> QED
    BY <1>4, <1>7, <1>14, <1>19, <1>20, <1>21, <2>1 DEF Arrive
<1>16. \A l \in A : \A s \in ToSet(list'[l]) : HomeOf(s)' = Owner'[l]
  BY <1>7, <1>19, <1>21, HeadsAre
<1>17. \A s \in held' : s \in M => link'[s] = HomeOf(s)'
  BY <1>1, <1>4, <1>5, <1>19, <1>21 DEF x
<1> QED
  BY <1>8, <1>9, <1>10, <1>13, <1>15, <1>16, <1>17, StepKept

\* A slot that my_free() sends to pool p.
LEMMA RoutedSlot ==
  ASSUME IInv, NEW s, NEW p, Routed(s, p)
  PROVE  /\ p \in Pools /\ s \in held /\ s \in Slots /\ s \in Acquired /\ s \notin stranded
         /\ HomeOf(s) = p /\ \A l \in Places : s \notin ToSet(list[l])
<1>1. p \in Pools /\ s \in held /\ link[s] = p
  BY DEF Routed
<1>2. TypeOK /\ SlotsInOnePlace /\ link[s] = HomeOf(s)
  BY <1>1 DEF IInv, SlotsStayWithTheirPool
<1>3. s \in Slots /\ s \in Acquired /\ s \notin stranded
  BY <1>1, <1>2, WhereSlotsAre
<1>4. \A l \in Places : s \notin ToSet(list[l])
  BY <1>1, <1>2, OneList
<1> QED
  BY <1>1, <1>2, <1>3, <1>4

\* Steps for which no region is needed.
LEMMA OwnMoves ==
  ASSUME IInv, home' = home, NEW A \in SUBSET Places, NEW M,
         \A l \in A : ToSet(list[l]) \subseteq M,
         \A l \in A : ToSet(list'[l]) \subseteq M,
         \A s \in M : s \in held \/ \E l \in A : s \in ToSet(list[l]),
         \A l \in Places \ A : list'[l] = list[l] /\ Heads'[l] = Heads[l] /\ Owner'[l] = Owner[l],
         \A s \in Slots : s \notin M => /\ link'[s] = link[s]
                                        /\ s \in held' <=> s \in held
                                        /\ s \in stranded' <=> s \in stranded
  PROVE  Moves(A, M) /\ (\A s \in M : s \in Slots /\ s \in Acquired) /\ \A s : HomeOf(s)' = HomeOf(s)
<1>1. Acquired' = Acquired /\ \A s : HomeOf(s)' = HomeOf(s)
  BY DEF Acquired, HomeOf
<1>2. TypeOK /\ SlotsInOnePlace
  BY DEF IInv
<1>3. ASSUME NEW s \in M PROVE s \in Slots /\ s \in Acquired
  <2>1. CASE s \in held
    BY <1>2, <2>1, WhereSlotsAre
  <2>2. CASE \E l \in A : s \in ToSet(list[l])
    BY <1>2, <2>2, OneList
  <2> QED
    BY <2>1, <2>2
<1> QED
  BY <1>1, <1>3 DEF Moves

\* deallocate(): the caller's slot is the first of the pool's list again.
LEMMA PooledFreeKept ==
  ASSUME IInv, NEW t \in Threads, NEW s \in held, NEW p \in Pools, PooledFree(t, s, p)
  PROVE  IInv' /\ TagsKept
<1> DEFINE here == InPool(p)
           now == list[here]
           A == {here}
           M == ToSet(now) \cup {s}
<1>0. TypeOK /\ InOrder /\ SlotsInOnePlace /\ CachesCountTheirSlots /\ SlotsStayWithTheirPool
  BY DEF IInv
<1>1. /\ Routed(s, p)
      /\ link' = [link EXCEPT ![s] = free_head[p]] /\ free_head' = [free_head EXCEPT ![p] = s]
      /\ held' = held \ {s} /\ list' = [list EXCEPT ![here] = Cons(s, now)]
      /\ home' = home /\ UNCHANGED <<tls_caches, pc, batch, alive, stranded>>
  BY DEF PooledFree, threads
<1>2. /\ s \in Slots /\ s \notin stranded /\ HomeOf(s) = p /\ \A l \in Places : s \notin ToSet(list[l])
  BY <1>1, RoutedSlot
<1>3. here \in Places
  BY PlacesApart
<1>4. now \in Seq(Slots) /\ IsInjective(now) /\ Spells(link, free_head[p], now)
  BY <1>0, <1>3, OneList, HeadsAre
<1>5. link \in [Slots -> Word] /\ free_head[p] \in Slots \cup {Null}
  BY <1>0 DEF TypeOK
<1>6. /\ Cons(s, now) \in Seq(Slots) /\ IsInjective(Cons(s, now))
      /\ ToSet(Cons(s, now)) = M /\ Spells(link', s, Cons(s, now))
  BY <1>1, <1>2, <1>3, <1>4, <1>5, ConsSpells
<1>7. /\ list'[here] = Cons(s, now) /\ \A l \in Places : l # here => list'[l] = list[l]
      /\ free_head'[p] = s /\ \A q \in Pools : q # p => free_head'[q] = free_head[q]
      /\ link'[s] = free_head[p] /\ \A x \in Slots : x # s => link'[x] = link[x]
  BY <1>0, <1>1, <1>2, <1>3, <1>5 DEF TypeOK
<1>8. TypeOK'
  <2>1. link' \in [Slots -> Word] /\ free_head' \in [Pools -> Slots \cup {Null}] /\ held' \subseteq Slots
    BY <1>0, <1>1, <1>2, <1>5 DEF TypeOK, Word
  <2>2. list' \in [Places -> Seq(Slots)]
    BY <1>0, <1>1, <1>6 DEF TypeOK
  <2> QED
    BY <1>0, <1>1, <2>1, <2>2 DEF TypeOK
<1>9. InOrder'
  BY <1>0, <1>1 DEF InOrder
<1>10. CachesCountTheirSlots'
  BY <1>0, <1>1, <1>7, PlacesApart DEF CachesCountTheirSlots
<1>11. \A l \in Places \ A : list'[l] = list[l] /\ Heads'[l] = Heads[l] /\ Owner'[l] = Owner[l]
  BY <1>1, <1>7, HeadsAre, PlacesApart
<1> HIDE DEF now
<1>12. Moves(A, M) /\ (\A x \in M : x \in Slots /\ x \in Acquired) /\ \A x : HomeOf(x)' = HomeOf(x)
  <2>1. /\ A \in SUBSET Places
        /\ \A l \in A : ToSet(list[l]) \subseteq M
        /\ \A l \in A : ToSet(list'[l]) \subseteq M
        /\ \A x \in M : x \in held \/ \E l \in A : x \in ToSet(list[l])
    BY <1>3, <1>6, <1>7 DEF now
  <2>2. \A x \in Slots : x \notin M => /\ link'[x] = link[x]
                                       /\ x \in held' <=> x \in held
                                       /\ x \in stranded' <=> x \in stranded
    BY <1>1, <1>7
  <2>3. home' = home
    BY <1>1
  <2> HIDE DEF A, M
  <2> QED
    BY <1>11, <2>1, <2>2, <2>3, OwnMoves
<1>13. Arrive(A, M)
  <2>1. Spells(link', Heads'[here], list'[here]) /\ IsInjective(list'[here])
    BY <1>6, <1>7, HeadsAre
  <2>2. \A x \in M : x \notin held' /\ x \notin stranded'
    BY <1>0, <1>1, <1>2, <1>3, OneList DEF now
  <2> QED
    BY <1>6, <1>7, <2>1, <2>2 DEF Arrive
<1>14. \A l \in A : \A x \in ToSet(list'[l]) : HomeOf(x)' = Owner'[l]
  BY <1>0, <1>2, <1>6, <1>7, <1>12, HeadsAre DEF SlotsStayWithTheirPool, now
<1>15. \A x \in held' : x \in M => link'[x] = HomeOf(x)'
  BY <1>0, <1>1, <1>3, OneList DEF now
<1> QED
  BY <1>8, <1>9, <1>10, <1>12, <1>13, <1>14, <1>15, StepKept

-----------------------------------------------------------------------------
(* A thread and its own caches.                                            *)

\* What the invariant says of one cache.
LEMMA OneCache ==
  ASSUME IInv, NEW t \in Threads, NEW p \in Pools
  PROVE  LET c == tls_caches[t][p]
             now == list[InCache(t, p)]
         IN  /\ c \in Cache /\ c.count <= kThreadLocalCacheCap /\ c.count = Len(now)
             /\ c.head = First(now) /\ c.tail = IF now = << >> THEN Null ELSE Last(now)
             /\ now \in Seq(Slots) /\ IsInjective(now) /\ Spells(link, c.head, now)
             /\ \A s \in ToSet(now) : HomeOf(s) = p
<1>0. TypeOK /\ InOrder /\ SlotsInOnePlace /\ CachesCountTheirSlots /\ SlotsStayWithTheirPool
  BY DEF IInv
<1> DEFINE c == tls_caches[t][p]
           now == list[InCache(t, p)]
<1>1. c \in Cache /\ c.count <= kThreadLocalCacheCap
  BY <1>0 DEF TypeOK, InOrder
<1>2. c.count = Len(now) /\ c.tail = IF now = << >> THEN Null ELSE Last(now)
  BY <1>0 DEF CachesCountTheirSlots
<1>3. InCache(t, p) \in Places /\ Heads[InCache(t, p)] = c.head
  BY PlacesApart, HeadsAre
<1>4. now \in Seq(Slots) /\ IsInjective(now) /\ Spells(link, c.head, now) /\ c.head = First(now)
  BY <1>0, <1>3, OneList
<1>5. \A s \in ToSet(now) : HomeOf(s) = p
  BY <1>0 DEF SlotsStayWithTheirPool
<1> QED
  BY <1>1, <1>2, <1>4, <1>5

\* A cache is written; the others are not.
NowCached(t, p, c) == tls_caches' = [tls_caches EXCEPT ![t][p] = c]

LEMMA CacheWritten ==
  ASSUME TypeOK, NEW t \in Threads, NEW p \in Pools, NEW c \in Cache, NowCached(t, p, c)
  PROVE  /\ tls_caches' \in [Threads -> [Pools -> Cache]]
         /\ tls_caches'[t][p] = c
         /\ \A u \in Threads, q \in Pools : u # t \/ q # p => tls_caches'[u][q] = tls_caches[u][q]
<1> DEFINE row == [tls_caches[t] EXCEPT ![p] = c]
<1>1. tls_caches \in [Threads -> [Pools -> Cache]]
  BY DEF TypeOK
<1>2. row \in [Pools -> Cache] /\ row[p] = c /\ \A q \in Pools : q # p => row[q] = tls_caches[t][q]
  BY <1>1
<1>3. tls_caches' = [tls_caches EXCEPT ![t] = row]
  BY DEF NowCached
<1> HIDE DEF row
<1> QED
  BY <1>1, <1>2, <1>3

\* Where threads are in their calls, when t has written one of its caches at
\* most, and what it has in hand.
LEMMA OrderKept ==
  ASSUME InOrder, NEW t \in Threads, t \in alive, alive' = alive, NEW p \in Pools,
         \A u \in Threads, q \in Pools : u # t \/ q # p => tls_caches'[u][q] = tls_caches[u][q],
         tls_caches'[t][p].count <= kThreadLocalCacheCap,
         \A u \in Threads : u # t => pc'[u] = pc[u] /\ batch'[u] = batch[u],
         pc'[t] = "idle" => batch'[t] = NoBatch,
         pc'[t] # "idle" => batch'[t].pool = p,
         pc'[t] = "refill" => tls_caches'[t][p].head = Null
  PROVE  InOrder'
<1> SUFFICES ASSUME NEW u \in Threads
             PROVE  /\ pc'[u] = "idle" => batch'[u] = NoBatch
                    /\ pc'[u] # "idle" => batch'[u].pool \in Pools /\ u \in alive
                    /\ pc'[u] = "refill" => tls_caches'[u][batch'[u].pool].head = Null
                    /\ u \notin alive => \A q \in Pools : tls_caches'[u][q].head = Null
                    /\ \A q \in Pools : tls_caches'[u][q].count <= kThreadLocalCacheCap
  BY DEF InOrder
<1>1. CASE u = t
  <2>1. \A q \in Pools : tls_caches'[t][q].count <= kThreadLocalCacheCap
    BY DEF InOrder
  <2> QED
    BY <1>1, <2>1
<1>2. CASE u # t
  BY <1>2 DEF InOrder
<1> QED
  BY <1>1, <1>2

\* The same for what caches and batches say of their lists.
LEMMA CountsKept ==
  ASSUME CachesCountTheirSlots, NEW t \in Threads, NEW p \in Pools,
         \A u \in Threads, q \in Pools : u # t \/ q # p => tls_caches'[u][q] = tls_caches[u][q],
         \A u \in Threads, q \in Pools :
           u # t \/ q # p => list'[InCache(u, q)] = list[InCache(u, q)],
         NEW s, list'[InCache(t, p)] = s, tls_caches'[t][p].count = Len(s),
         tls_caches'[t][p].tail = IF s = << >> THEN Null ELSE Last(s),
         \A u \in Threads : u # t => /\ pc'[u] = pc[u] /\ batch'[u] = batch[u]
                                     /\ list'[InHand(u)] = list[InHand(u)],
         NEW w, list'[InHand(t)] = w,
         pc'[t] # "idle" => w # << >> /\ batch'[t].count = Len(w) /\ batch'[t].tail = Last(w)
  PROVE  CachesCountTheirSlots'
<1>1. ASSUME NEW u \in Threads, NEW q \in Pools
      PROVE  LET d == tls_caches'[u][q]
                 slots == list'[InCache(u, q)]
             IN  d.count = Len(slots) /\ d.tail = IF slots = << >> THEN Null ELSE Last(slots)
  <2>1. CASE u = t /\ q = p
    BY <2>1
  <2>2. CASE u # t \/ q # p
    <3>1. tls_caches'[u][q] = tls_caches[u][q] /\ list'[InCache(u, q)] = list[InCache(u, q)]
      BY <2>2
    <3> QED
      BY <3>1 DEF CachesCountTheirSlots
  <2> QED
    BY <2>1, <2>2
<1>2. ASSUME NEW u \in Threads, pc'[u] # "idle"
      PROVE  LET slots == list'[InHand(u)]
             IN  slots # << >> /\ batch'[u].count = Len(slots) /\ batch'[u].tail = Last(slots)
  <2>1. CASE u = t
    BY <1>2, <2>1
  <2>2. CASE u # t
    BY <1>2, <2>2 DEF CachesCountTheirSlots
  <2> QED
    BY <2>1, <2>2
<1> QED
  BY <1>1, <1>2 DEF CachesCountTheirSlots

\* The caller's slot goes in front of the list of a cache.
CachedNow(t, p) == list[InCache(t, p)]
PushedList(t, p, s) == Cons(s, CachedNow(t, p))
PushedWords(t, p, s) == [link EXCEPT ![s] = tls_caches[t][p].head]

\* tls_push(): the cache that results is the slot in front of what was there.
LEMMA PushedCache ==
  ASSUME IInv, NEW t \in Threads, NEW s, NEW p \in Pools, Routed(s, p)
  PROVE  /\ Pushed(t, p, s) \in Cache /\ Pushed(t, p, s).head = s
         /\ Pushed(t, p, s).count = Len(PushedList(t, p, s))
         /\ Pushed(t, p, s).tail = Last(PushedList(t, p, s)) /\ PushedList(t, p, s) # << >>
         /\ PushedList(t, p, s) \in Seq(Slots) /\ IsInjective(PushedList(t, p, s))
         /\ ToSet(PushedList(t, p, s)) = ToSet(CachedNow(t, p)) \cup {s}
         /\ Spells(PushedWords(t, p, s), s, PushedList(t, p, s))
         /\ PushedWords(t, p, s) \in [Slots -> Word]
         /\ \A x \in Slots : x # s => PushedWords(t, p, s)[x] = link[x]
<1> DEFINE d == tls_caches[t][p]
           now == list[InCache(t, p)]
           lk == [link EXCEPT ![s] = d.head]
           c == Pushed(t, p, s)
<1>1. s \in Slots /\ \A l \in Places : s \notin ToSet(list[l])
  BY RoutedSlot
<1>2. /\ d \in Cache /\ d.count <= kThreadLocalCacheCap /\ d.count = Len(now)
      /\ d.head = First(now) /\ d.tail = IF now = << >> THEN Null ELSE Last(now)
      /\ now \in Seq(Slots) /\ IsInjective(now) /\ Spells(link, d.head, now)
  BY OneCache
<1>3. s \notin ToSet(now) /\ link \in [Slots -> Word]
  BY <1>1, PlacesApart DEF IInv, TypeOK
<1>4. d.head \in Slots \cup {Null} /\ d.tail \in Slots \cup {Null} /\ d.count \in Nat
  BY <1>2, Sizes DEF Cache, Count
<1>5. c = [head |-> s, tail |-> IF d.head = Null THEN s ELSE d.tail, count |-> d.count + 1]
  BY DEF Pushed
<1> HIDE DEF d, now
<1>6. /\ Cons(s, now) \in Seq(Slots) /\ IsInjective(Cons(s, now)) /\ Len(Cons(s, now)) = Len(now) + 1
      /\ ToSet(Cons(s, now)) = ToSet(now) \cup {s} /\ Spells(lk, s, Cons(s, now))
      /\ Cons(s, now) # << >> /\ Last(Cons(s, now)) = IF now = << >> THEN s ELSE Last(now)
  BY <1>1, <1>2, <1>3, ConsSpells
<1>7. lk \in [Slots -> Word] /\ \A x \in Slots : x # s => lk[x] = link[x]
  BY <1>3, <1>4 DEF Word
<1>8. d.count + 1 \in Count
  BY <1>2, <1>4, Sizes DEF Count
<1>9. d.head = Null <=> now = << >>
  BY <1>2, FirstSlot
<1>10. c \in Cache /\ c.head = s /\ c.count = Len(Cons(s, now)) /\ c.tail = Last(Cons(s, now))
  <2>1. c.head = s /\ c.count = d.count + 1 /\ c.tail = IF d.head = Null THEN s ELSE d.tail
    BY <1>5
  <2>2. c.tail = Last(Cons(s, now))
    BY <1>2, <1>6, <1>9, <2>1
  <2>3. c.count = Len(Cons(s, now))
    BY <1>2, <1>6, <2>1
  <2>4. c \in Cache
    <3>1. d.count + 1 \in Count /\ s \in Slots \cup {Null}
          /\ (IF d.head = Null THEN s ELSE d.tail) \in Slots \cup {Null}
      BY <1>1, <1>4, <1>8
    <3> QED
      BY <1>5, <3>1 DEF Cache
  <2> QED
    BY <2>1, <2>2, <2>3, <2>4
<1> QED
  BY <1>6, <1>7, <1>10 DEF CachedNow, PushedList, PushedWords, d, now

\* my_free(): the caller's slot goes to the thread's own cache.
LEMMA FreeToCacheKept ==
  ASSUME IInv, NEW t \in Threads, NEW s \in held, NEW p \in Pools, FreeToCache(t, s, p)
  PROVE  IInv' /\ TagsKept
<1> DEFINE here == InCache(t, p)
           now == list[here]
           c == Pushed(t, p, s)
           A == {here}
           M == ToSet(now) \cup {s}
<1>0. TypeOK /\ InOrder /\ SlotsInOnePlace /\ CachesCountTheirSlots /\ SlotsStayWithTheirPool
  BY DEF IInv
<1>1. /\ Routed(s, p) /\ t \in alive /\ pc[t] = "idle" /\ ~OverCap(c)
      /\ tls_caches' = [tls_caches EXCEPT ![t][p] = c]
      /\ link' = [link EXCEPT ![s] = tls_caches[t][p].head]
      /\ held' = held \ {s} /\ list' = [list EXCEPT ![here] = Cons(s, now)]
      /\ UNCHANGED <<home, free_head, pc, batch, alive, stranded>>
  BY DEF FreeToCache, Idle, threads
<1>2. /\ s \in Slots /\ s \notin stranded /\ HomeOf(s) = p /\ \A l \in Places : s \notin ToSet(list[l])
  BY <1>1, RoutedSlot
<1>3. here \in Places
  BY PlacesApart
<1>4. /\ c \in Cache /\ c.head = s /\ c.count = Len(Cons(s, now))
      /\ c.tail = Last(Cons(s, now)) /\ Cons(s, now) # << >>
      /\ Cons(s, now) \in Seq(Slots) /\ IsInjective(Cons(s, now))
      /\ ToSet(Cons(s, now)) = M /\ Spells(link', s, Cons(s, now))
      /\ link' \in [Slots -> Word] /\ \A x \in Slots : x # s => link'[x] = link[x]
  <2>1. Routed(s, p) /\ link' = PushedWords(t, p, s)
    BY <1>1 DEF PushedWords
  <2>2. now = CachedNow(t, p) /\ Cons(s, now) = PushedList(t, p, s)
    BY DEF CachedNow, PushedList
  <2> HIDE DEF now
  <2> QED
    BY <2>1, <2>2, PushedCache
<1>5. c.count <= kThreadLocalCacheCap
  BY <1>1, <1>4, Sizes DEF OverCap, Cache, Count
<1>6. \A x \in ToSet(now) : HomeOf(x) = p
  BY OneCache
<1> HIDE DEF c
<1>7. /\ tls_caches' \in [Threads -> [Pools -> Cache]] /\ tls_caches'[t][p] = c
      /\ \A u \in Threads, q \in Pools : u # t \/ q # p => tls_caches'[u][q] = tls_caches[u][q]
  <2>1. c \in Cache /\ NowCached(t, p, c)
    BY <1>1, <1>4 DEF NowCached
  <2> QED
    BY <1>0, <2>1, CacheWritten
<1>8. list'[here] = Cons(s, now) /\ \A l \in Places : l # here => list'[l] = list[l]
  BY <1>0, <1>1, <1>3 DEF TypeOK
<1>9. TypeOK'
  <2>1. list' \in [Places -> Seq(Slots)] /\ held' \subseteq Slots
    BY <1>0, <1>1, <1>4 DEF TypeOK
  <2> QED
    BY <1>0, <1>1, <1>4, <1>7, <2>1 DEF TypeOK
<1>10. InOrder'
  <2>1. pc' = pc /\ batch' = batch /\ alive' = alive /\ t \in alive /\ pc[t] = "idle" /\ batch[t] = NoBatch
    BY <1>0, <1>1 DEF InOrder
  <2> QED
    BY <1>0, <1>5, <1>7, <2>1, OrderKept
<1>11. CachesCountTheirSlots'
  <2>1. pc' = pc /\ batch' = batch /\ pc[t] = "idle"
    BY <1>1
  <2>2. \A u \in Threads : list'[InHand(u)] = list[InHand(u)]
    BY <1>8, PlacesApart
  <2>3. \A u \in Threads, q \in Pools : u # t \/ q # p => list'[InCache(u, q)] = list[InCache(u, q)]
    BY <1>8, PlacesApart
  <2>4. c.count = Len(Cons(s, now)) /\ c.tail = IF Cons(s, now) = << >> THEN Null ELSE Last(Cons(s, now))
    BY <1>4
  <2> QED
    BY <1>0, <1>7, <1>8, <2>1, <2>2, <2>3, <2>4, CountsKept
<1>12. \A l \in Places \ A : list'[l] = list[l] /\ Heads'[l] = Heads[l] /\ Owner'[l] = Owner[l]
  <2>1. \A u \in Threads, q \in Pools : InCache(u, q) \notin A => u # t \/ q # p
    OBVIOUS
  <2> QED
    BY <1>1, <1>7, <1>8, <2>1, HeadsAre, PlacesApart
<1> HIDE DEF now
<1>13. Moves(A, M) /\ (\A x \in M : x \in Slots /\ x \in Acquired) /\ \A x : HomeOf(x)' = HomeOf(x)
  <2>1. /\ A \in SUBSET Places
        /\ \A l \in A : ToSet(list[l]) \subseteq M
        /\ \A l \in A : ToSet(list'[l]) \subseteq M
        /\ \A x \in M : x \in held \/ \E l \in A : x \in ToSet(list[l])
    BY <1>3, <1>4, <1>8 DEF now
  <2>2. \A x \in Slots : x \notin M => /\ link'[x] = link[x]
                                       /\ x \in held' <=> x \in held
                                       /\ x \in stranded' <=> x \in stranded
    BY <1>1, <1>4
  <2>3. home' = home
    BY <1>1
  <2> HIDE DEF A, M
  <2> QED
    BY <1>12, <2>1, <2>2, <2>3, OwnMoves
<1>14. Arrive(A, M)
  <2>1. Spells(link', Heads'[here], list'[here]) /\ IsInjective(list'[here])
    BY <1>4, <1>7, <1>8, HeadsAre
  <2>2. \A x \in M : x \notin held' /\ x \notin stranded'
    BY <1>0, <1>1, <1>2, <1>3, OneList DEF now
  <2> QED
    BY <1>4, <1>8, <2>1, <2>2 DEF Arrive
<1>15. \A l \in A : \A x \in ToSet(list'[l]) : HomeOf(x)' = Owner'[l]
  BY <1>2, <1>4, <1>6, <1>8, <1>13, HeadsAre
<1>16. \A x \in held' : x \in M => link'[x] = HomeOf(x)'
  BY <1>0, <1>1, <1>3, OneList DEF now
<1> QED
  BY <1>9, <1>10, <1>11, <1>13, <1>14, <1>15, <1>16, StepKept

\* pop_from_cache(): the first slot of a list goes to the caller.
LEMMA PoppedList ==
  ASSUME link \in [Slots -> Word], NEW c \in Cache, NEW p \in Pools,
         NEW s \in Seq(Slots), IsInjective(s), s # << >>,
         Spells(link, c.head, s), c.count = Len(s), c.tail = Last(s)
  PROVE  /\ c.head \in Slots /\ c.head \in ToSet(s)
         /\ Popped(c) \in Cache /\ Popped(c).head = First(Tail(s))
         /\ Popped(c).count = Len(Tail(s)) /\ Popped(c).count <= kThreadLocalCacheCap
         /\ Popped(c).tail = IF Tail(s) = << >> THEN Null ELSE Last(Tail(s))
         /\ Tail(s) \in Seq(Slots) /\ IsInjective(Tail(s)) /\ ToSet(Tail(s)) = ToSet(s) \ {c.head}
         /\ Spells(Tagged(link, c.head, p), First(Tail(s)), Tail(s))
         /\ Tagged(link, c.head, p) \in [Slots -> Word] /\ Tagged(link, c.head, p)[c.head] = p
         /\ \A x \in Slots : x # c.head => Tagged(link, c.head, p)[x] = link[x]
<1> DEFINE h == c.head
           r == Tail(s)
           lk == Tagged(link, h, p)
<1>1. /\ r \in Seq(Slots) /\ IsInjective(r) /\ Len(r) = Len(s) - 1
      /\ h \in Slots /\ h \in ToSet(s) /\ ToSet(r) = ToSet(s) \ {h}
      /\ link[h] = First(r) /\ Spells(link, First(r), r)
      /\ r # << >> => Last(r) = Last(s)
  BY TailSpells
<1>2. lk \in [Slots -> Word] /\ lk[h] = p /\ \A x \in Slots : x # h => lk[x] = link[x]
  BY <1>1 DEF Tagged, Word
<1>3. Spells(lk, First(r), r)
  <2>1. \A x \in ToSet(r) : lk[x] = link[x]
    BY <1>1, <1>2, Positions
  <2> HIDE DEF lk
  <2> QED
    BY <1>1, <2>1, SpellsStill
<1>4. /\ Popped(c) = [head |-> First(r), tail |-> IF First(r) = Null THEN Null ELSE c.tail,
                      count |-> c.count - 1]
  BY <1>1 DEF Popped
<1>5. First(r) \in Slots \cup {Null} /\ (r = << >> <=> First(r) = Null)
  BY <1>1, FirstSlot
<1>6. /\ c.tail \in Slots \cup {Null} /\ c.count \in 0..(kThreadLocalCacheCap + 1)
      /\ kThreadLocalCacheCap \in Nat /\ Len(r) \in Nat
  BY <1>1, Sizes DEF Cache, Count
<1> HIDE DEF r, h
<1>7. c.count - 1 = Len(r) /\ c.count - 1 \in Count /\ c.count - 1 <= kThreadLocalCacheCap
  <2> DEFINE n == c.count
             m == Len(r)
             cap == kThreadLocalCacheCap
  <2>1. n \in 0..(cap + 1) /\ cap \in Nat /\ m \in Nat /\ m = n - 1
    BY <1>1, <1>6
  <2> HIDE DEF n, m, cap
  <2>2. n - 1 = m /\ n - 1 \in 0..(cap + 1) /\ n - 1 <= cap
    BY <2>1
  <2> QED
    BY <2>2 DEF n, m, cap, Count
<1>8. Popped(c) \in Cache
  <2>1. (IF First(r) = Null THEN Null ELSE c.tail) \in Slots \cup {Null}
    BY <1>6
  <2> QED
    BY <1>4, <1>5, <1>7, <2>1 DEF Cache
<1>9. Popped(c).head = First(r) /\ Popped(c).count = c.count - 1
      /\ Popped(c).tail = IF First(r) = Null THEN Null ELSE c.tail
  BY <1>4
<1>10. Popped(c).tail = IF r = << >> THEN Null ELSE Last(r)
  BY <1>1, <1>5, <1>9
<1> QED
  BY <1>1, <1>2, <1>3, <1>7, <1>8, <1>9, <1>10 DEF r, h

\* my_malloc() with a cache that has a slot.
LEMMA MallocHitKept ==
  ASSUME IInv, NEW t \in Threads, NEW p \in Pools, MallocHit(t, p)
  PROVE  IInv' /\ TagsKept
<1> DEFINE here == InCache(t, p)
           now == list[here]
           c == tls_caches[t][p]
           x == c.head
           A == {here}
           M == ToSet(now)
<1>0. TypeOK /\ InOrder /\ SlotsInOnePlace /\ CachesCountTheirSlots /\ SlotsStayWithTheirPool
  BY DEF IInv
<1>1. /\ t \in alive /\ pc[t] = "idle" /\ x # Null
      /\ tls_caches' = [tls_caches EXCEPT ![t][p] = Popped(c)]
      /\ link' = Tagged(link, x, p) /\ held' = held \cup {x}
      /\ list' = [list EXCEPT ![here] = Tail(now)]
      /\ UNCHANGED <<home, free_head, pc, batch, alive, stranded>>
  BY DEF MallocHit, pop_from_cache, Idle, threads
<1>2. /\ c \in Cache /\ c.count = Len(now)
      /\ now \in Seq(Slots) /\ IsInjective(now) /\ Spells(link, c.head, now)
      /\ now # << >> /\ c.tail = Last(now)
      /\ \A s \in ToSet(now) : HomeOf(s) = p
  <2>1. /\ c \in Cache /\ c.count = Len(now) /\ c.head = First(now)
        /\ c.tail = IF now = << >> THEN Null ELSE Last(now)
        /\ now \in Seq(Slots) /\ IsInjective(now) /\ Spells(link, c.head, now)
        /\ \A s \in ToSet(now) : HomeOf(s) = p
    BY OneCache
  <2> HIDE DEF now, c
  <2> QED
    BY <1>1, <2>1, FirstSlot
<1>3. here \in Places
  BY PlacesApart
<1>4. link \in [Slots -> Word]
  BY <1>0 DEF TypeOK
<1> HIDE DEF now, c
<1>5. /\ x \in Slots /\ x \in M /\ Popped(c) \in Cache /\ Popped(c).head = First(Tail(now))
      /\ Popped(c).count = Len(Tail(now)) /\ Popped(c).count <= kThreadLocalCacheCap
      /\ Popped(c).tail = IF Tail(now) = << >> THEN Null ELSE Last(Tail(now))
      /\ Tail(now) \in Seq(Slots) /\ IsInjective(Tail(now)) /\ ToSet(Tail(now)) = M \ {x}
      /\ Spells(link', First(Tail(now)), Tail(now))
      /\ link' \in [Slots -> Word] /\ link'[x] = p /\ \A s \in Slots : s # x => link'[s] = link[s]
  BY <1>1, <1>2, <1>4, PoppedList
<1>6. /\ tls_caches' \in [Threads -> [Pools -> Cache]] /\ tls_caches'[t][p] = Popped(c)
      /\ \A u \in Threads, q \in Pools : u # t \/ q # p => tls_caches'[u][q] = tls_caches[u][q]
  <2>1. Popped(c) \in Cache /\ NowCached(t, p, Popped(c))
    BY <1>1, <1>5 DEF NowCached
  <2> QED
    BY <1>0, <2>1, CacheWritten
<1>7. list'[here] = Tail(now) /\ \A l \in Places : l # here => list'[l] = list[l]
  BY <1>0, <1>1, <1>3 DEF TypeOK
<1>8. TypeOK'
  <2>1. list' \in [Places -> Seq(Slots)] /\ held' \subseteq Slots
    BY <1>0, <1>1, <1>5 DEF TypeOK
  <2> QED
    BY <1>0, <1>1, <1>5, <1>6, <2>1 DEF TypeOK
<1>9. InOrder'
  <2>1. pc' = pc /\ batch' = batch /\ alive' = alive /\ t \in alive /\ pc[t] = "idle" /\ batch[t] = NoBatch
    BY <1>0, <1>1 DEF InOrder
  <2> QED
    BY <1>0, <1>5, <1>6, <2>1, OrderKept
<1>10. CachesCountTheirSlots'
  <2>1. pc' = pc /\ batch' = batch /\ pc[t] = "idle"
    BY <1>1
  <2>2. \A u \in Threads : list'[InHand(u)] = list[InHand(u)]
    BY <1>7, PlacesApart
  <2>3. \A u \in Threads, q \in Pools : u # t \/ q # p => list'[InCache(u, q)] = list[InCache(u, q)]
    BY <1>7, PlacesApart
  <2>4. /\ list'[InCache(t, p)] = Tail(now) /\ tls_caches'[t][p].count = Len(Tail(now))
        /\ tls_caches'[t][p].tail = IF Tail(now) = << >> THEN Null ELSE Last(Tail(now))
    BY <1>3, <1>5, <1>6, <1>7
  <2> QED
    BY <1>0, <1>6, <2>1, <2>2, <2>3, <2>4, CountsKept
<1>11. \A l \in Places \ A : list'[l] = list[l] /\ Heads'[l] = Heads[l] /\ Owner'[l] = Owner[l]
  <2>1. \A u \in Threads, q \in Pools : InCache(u, q) \notin A => u # t \/ q # p
    OBVIOUS
  <2> QED
    BY <1>1, <1>6, <1>7, <2>1, HeadsAre, PlacesApart
<1>12. Moves(A, M) /\ (\A s \in M : s \in Slots /\ s \in Acquired) /\ \A s : HomeOf(s)' = HomeOf(s)
  <2>1. /\ A \in SUBSET Places
        /\ \A l \in A : ToSet(list[l]) \subseteq M
        /\ \A l \in A : ToSet(list'[l]) \subseteq M
        /\ \A s \in M : s \in held \/ \E l \in A : s \in ToSet(list[l])
    BY <1>3, <1>5, <1>7 DEF now
  <2>2. \A s \in Slots : s \notin M => /\ link'[s] = link[s]
                                       /\ s \in held' <=> s \in held
                                       /\ s \in stranded' <=> s \in stranded
    BY <1>1, <1>5
  <2>3. home' = home
    BY <1>1
  <2> HIDE DEF A, M
  <2> QED
    BY <1>11, <2>1, <2>2, <2>3, OwnMoves
<1>13. \A s \in M : s \notin held /\ s \notin stranded
  BY <1>0, <1>3, OneList DEF now
<1>14. Arrive(A, M)
  <2>1. Spells(link', Heads'[here], list'[here]) /\ IsInjective(list'[here])
    BY <1>5, <1>6, <1>7, HeadsAre
  <2>2. held' = held \cup {x} /\ stranded' = stranded
    BY <1>1
  <2> QED
    BY <1>5, <1>7, <1>13, <2>1, <2>2 DEF Arrive
<1>15. \A l \in A : \A s \in ToSet(list'[l]) : HomeOf(s)' = Owner'[l]
  <2>1. \A s \in M : HomeOf(s)' = p
    BY <1>2, <1>12
  <2>2. ToSet(list'[here]) \subseteq M
    BY <1>5, <1>7
  <2>3. Owner'[here] = p
    BY HeadsAre
  <2> HIDE DEF here, M
  <2> QED
    BY <2>1, <2>2, <2>3
<1>16. \A s \in held' : s \in M => link'[s] = HomeOf(s)'
  <2>1. \A s \in held' : s \in M => s = x
    BY <1>1, <1>13
  <2> QED
    BY <1>2, <1>5, <1>12, <2>1
<1> QED
  BY <1>8, <1>9, <1>10, <1>12, <1>14, <1>15, <1>16, StepKept

-----------------------------------------------------------------------------
(* Batches.                                                                *)

\* What the invariant says of a batch in hand.
LEMMA OneHand ==
  ASSUME IInv, NEW t \in Threads, pc[t] # "idle"
  PROVE  LET b == batch[t]
             now == list[InHand(t)]
         IN  /\ b.pool \in Pools /\ t \in alive
             /\ b.head \in Slots \cup {Null} /\ b.tail \in Slots \cup {Null} /\ b.count \in Count
             /\ now \in Seq(Slots) /\ IsInjective(now) /\ now # << >> /\ Spells(link, b.head, now)
             /\ b.head = First(now) /\ b.count = Len(now) /\ b.tail = Last(now)
             /\ \A s \in ToSet(now) : HomeOf(s) = b.pool
<1>0. TypeOK /\ InOrder /\ SlotsInOnePlace /\ CachesCountTheirSlots /\ SlotsStayWithTheirPool
  BY DEF IInv
<1>1. batch[t].pool \in Pools /\ t \in alive
  BY <1>0 DEF InOrder
<1>2. batch[t].head \in Slots \cup {Null} /\ batch[t].tail \in Slots \cup {Null} /\ batch[t].count \in Count
  BY <1>0 DEF TypeOK
<1>3. InHand(t) \in Places /\ Heads[InHand(t)] = batch[t].head
  BY PlacesApart, HeadsAre
<1>4. /\ list[InHand(t)] \in Seq(Slots) /\ IsInjective(list[InHand(t)])
      /\ Spells(link, batch[t].head, list[InHand(t)]) /\ batch[t].head = First(list[InHand(t)])
  BY <1>0, <1>3, OneList
<1>5. /\ list[InHand(t)] # << >> /\ batch[t].count = Len(list[InHand(t)])
      /\ batch[t].tail = Last(list[InHand(t)])
  BY <1>0 DEF CachesCountTheirSlots
<1>6. \A s \in ToSet(list[InHand(t)]) : HomeOf(s) = batch[t].pool
  BY <1>0 DEF SlotsStayWithTheirPool
<1> QED
  BY <1>1, <1>2, <1>4, <1>5, <1>6

\* A thread that is in no call has nothing in hand.
LEMMA NoHand ==
  ASSUME IInv, NEW t \in Threads, pc[t] = "idle"
  PROVE  list[InHand(t)] = << >> /\ batch[t] = NoBatch
<1>1. TypeOK /\ InOrder /\ SlotsInOnePlace
  BY DEF IInv
<1>2. batch[t] = NoBatch
  BY <1>1 DEF InOrder
<1>3. InHand(t) \in Places /\ Heads[InHand(t)] = Null
  BY <1>2, PlacesApart, HeadsAre DEF NoBatch
<1> QED
  BY <1>1, <1>2, <1>3, OneList

\* A batch is written; the others are not.
LEMMA BatchWritten ==
  ASSUME TypeOK, NEW t \in Threads, NEW r \in {"idle", "refill", "flush"},
         NEW b \in [pool : Pools \cup {Null}, head : Slots \cup {Null},
                    tail : Slots \cup {Null}, count : Count],
         pc' = [pc EXCEPT ![t] = r], batch' = [batch EXCEPT ![t] = b]
  PROVE  /\ pc' \in [Threads -> {"idle", "refill", "flush"}]
         /\ batch' \in [Threads -> [pool : Pools \cup {Null}, head : Slots \cup {Null},
                                    tail : Slots \cup {Null}, count : Count]]
         /\ pc'[t] = r /\ batch'[t] = b
         /\ \A u \in Threads : u # t => pc'[u] = pc[u] /\ batch'[u] = batch[u]
BY DEF TypeOK

\* A thread outside a batch operation has a batch of the right type.
LEMMA NoBatchType ==
  NoBatch \in [pool : Pools \cup {Null}, head : Slots \cup {Null},
               tail : Slots \cup {Null}, count : Count]
BY Sizes DEF NoBatch, Count

\* After the refill: the batch is the cache, without its first slot.
LEMMA MallocRefilledKept ==
  ASSUME IInv, NEW t \in Threads, MallocRefilled(t)
  PROVE  IInv' /\ TagsKept
<1> DEFINE b == batch[t]
           p == b.pool
           mine == InCache(t, p)
           hand == InHand(t)
           now == list[hand]
           c == [head |-> b.head, tail |-> b.tail, count |-> b.count]
           x == c.head
           A == {mine, hand}
           M == ToSet(now)
<1>0. TypeOK /\ InOrder /\ SlotsInOnePlace /\ CachesCountTheirSlots /\ SlotsStayWithTheirPool
  BY DEF IInv
<1>1. /\ t \in alive /\ pc[t] = "refill"
      /\ tls_caches' = [tls_caches EXCEPT ![t][p] = Popped(c)]
      /\ link' = Tagged(link, x, p) /\ held' = held \cup {x}
      /\ list' = [list EXCEPT ![mine] = Tail(now), ![hand] = << >>]
      /\ pc' = [pc EXCEPT ![t] = "idle"] /\ batch' = [batch EXCEPT ![t] = NoBatch]
      /\ UNCHANGED <<home, free_head, alive, stranded>>
  BY DEF MallocRefilled, pop_from_cache, threads
<1>2. /\ p \in Pools /\ c \in Cache /\ c.count = Len(now)
      /\ now \in Seq(Slots) /\ IsInjective(now) /\ Spells(link, c.head, now)
      /\ now # << >> /\ c.tail = Last(now)
      /\ \A s \in ToSet(now) : HomeOf(s) = p
  <2>1. /\ b.head \in Slots \cup {Null} /\ b.tail \in Slots \cup {Null} /\ b.count \in Count
        /\ p \in Pools /\ now \in Seq(Slots) /\ IsInjective(now) /\ now # << >> /\ Spells(link, b.head, now)
        /\ b.count = Len(now) /\ b.tail = Last(now)
        /\ \A s \in ToSet(now) : HomeOf(s) = p
    BY <1>1, OneHand
  <2> HIDE DEF now, b
  <2>2. c \in Cache
    BY <2>1 DEF Cache
  <2> QED
    BY <2>1, <2>2
<1>3. mine \in Places /\ hand \in Places /\ mine # hand
  BY <1>2, PlacesApart
\* The cache is as empty as when the thread went to the pool.
<1>4. list[mine] = << >>
  <2>1. tls_caches[t][p].head = Null
    BY <1>0, <1>1 DEF InOrder
  <2>2. Heads[mine] = Null
    BY <1>2, <2>1, HeadsAre
  <2> QED
    BY <1>0, <1>3, <2>2, OneList
<1>5. link \in [Slots -> Word]
  BY <1>0 DEF TypeOK
<1> HIDE DEF now, c, p
<1>6. /\ x \in Slots /\ x \in M /\ Popped(c) \in Cache /\ Popped(c).head = First(Tail(now))
      /\ Popped(c).count = Len(Tail(now)) /\ Popped(c).count <= kThreadLocalCacheCap
      /\ Popped(c).tail = IF Tail(now) = << >> THEN Null ELSE Last(Tail(now))
      /\ Tail(now) \in Seq(Slots) /\ IsInjective(Tail(now)) /\ ToSet(Tail(now)) = M \ {x}
      /\ Spells(link', First(Tail(now)), Tail(now))
      /\ link' \in [Slots -> Word] /\ link'[x] = p /\ \A s \in Slots : s # x => link'[s] = link[s]
  BY <1>1, <1>2, <1>5, PoppedList
<1>7. /\ tls_caches' \in [Threads -> [Pools -> Cache]] /\ tls_caches'[t][p] = Popped(c)
      /\ \A u \in Threads, q \in Pools : u # t \/ q # p => tls_caches'[u][q] = tls_caches[u][q]
  <2>1. Popped(c) \in Cache /\ NowCached(t, p, Popped(c)) /\ p \in Pools
    BY <1>1, <1>2, <1>6 DEF NowCached
  <2> QED
    BY <1>0, <2>1, CacheWritten
<1>8. /\ pc' \in [Threads -> {"idle", "refill", "flush"}]
      /\ batch' \in [Threads -> [pool : Pools \cup {Null}, head : Slots \cup {Null},
                                 tail : Slots \cup {Null}, count : Count]]
      /\ pc'[t] = "idle" /\ batch'[t] = NoBatch
      /\ \A u \in Threads : u # t => pc'[u] = pc[u] /\ batch'[u] = batch[u]
  BY <1>0, <1>1, BatchWritten, NoBatchType
<1>9. /\ list'[mine] = Tail(now) /\ list'[hand] = << >>
      /\ \A l \in Places : l # mine /\ l # hand => list'[l] = list[l]
      /\ list' \in [Places -> Seq(Slots)]
  <2>1. list \in [Places -> Seq(Slots)] /\ << >> \in Seq(Slots)
    BY <1>0 DEF TypeOK
  <2>2. list' = [list EXCEPT ![mine] = Tail(now), ![hand] = << >>] /\ Tail(now) \in Seq(Slots)
    BY <1>1, <1>6
  <2> HIDE DEF mine, hand
  <2> QED
    BY <1>3, <2>1, <2>2
<1>10. TypeOK'
  <2>1. held' \subseteq Slots
    BY <1>0, <1>1, <1>6 DEF TypeOK
  <2> QED
    BY <1>0, <1>1, <1>6, <1>7, <1>8, <1>9, <2>1 DEF TypeOK
<1>11. InOrder'
  <2>1. alive' = alive /\ t \in alive
    BY <1>1
  <2> QED
    BY <1>0, <1>2, <1>6, <1>7, <1>8, <2>1, OrderKept
<1>12. CachesCountTheirSlots'
  <2>1. \A u \in Threads : u # t => /\ pc'[u] = pc[u] /\ batch'[u] = batch[u]
                                     /\ list'[InHand(u)] = list[InHand(u)]
    BY <1>2, <1>8, <1>9, PlacesApart
  <2>2. \A u \in Threads, q \in Pools : u # t \/ q # p => list'[InCache(u, q)] = list[InCache(u, q)]
    BY <1>2, <1>9, PlacesApart
  <2>3. /\ list'[InCache(t, p)] = Tail(now) /\ tls_caches'[t][p].count = Len(Tail(now))
        /\ tls_caches'[t][p].tail = IF Tail(now) = << >> THEN Null ELSE Last(Tail(now))
    BY <1>3, <1>6, <1>7, <1>9
  <2>4. list'[InHand(t)] = << >> /\ pc'[t] = "idle" /\ p \in Pools
    BY <1>2, <1>8, <1>9
  <2> HIDE DEF p, now
  <2> QED
    BY <1>0, <1>7, <2>1, <2>2, <2>3, <2>4, CountsKept
<1>13. \A l \in Places \ A : list'[l] = list[l] /\ Heads'[l] = Heads[l] /\ Owner'[l] = Owner[l]
  <2>1. \A u \in Threads, q \in Pools : InCache(u, q) \notin A => u # t \/ q # p
    OBVIOUS
  <2>2. \A u \in Threads : InHand(u) \notin A => u # t
    OBVIOUS
  <2> SUFFICES ASSUME NEW l \in Places, l \notin A
               PROVE  list'[l] = list[l] /\ Heads'[l] = Heads[l] /\ Owner'[l] = Owner[l]
    OBVIOUS
  <2>3. list'[l] = list[l]
    BY <1>9
  <2>4. CASE \E q \in Pools : l = InPool(q)
    BY <1>1, <2>3, <2>4, HeadsAre
  <2>5. CASE \E u \in Threads, q \in Pools : l = InCache(u, q)
    BY <1>7, <2>1, <2>3, <2>5, HeadsAre
  <2>6. CASE \E u \in Threads : l = InHand(u)
    BY <1>8, <2>2, <2>3, <2>6, HeadsAre
  <2> QED
    BY <2>4, <2>5, <2>6, PlacesApart
<1>14. Moves(A, M) /\ (\A s \in M : s \in Slots /\ s \in Acquired) /\ \A s : HomeOf(s)' = HomeOf(s)
  <2>1. ToSet(<< >>) = {}
    BY DEF ToSet
  <2>2. /\ A \in SUBSET Places
        /\ \A l \in A : ToSet(list[l]) \subseteq M
        /\ \A l \in A : ToSet(list'[l]) \subseteq M
        /\ \A s \in M : s \in held \/ \E l \in A : s \in ToSet(list[l])
    BY <1>3, <1>4, <1>6, <1>9, <2>1 DEF now
  <2>3. \A s \in Slots : s \notin M => /\ link'[s] = link[s]
                                       /\ s \in held' <=> s \in held
                                       /\ s \in stranded' <=> s \in stranded
    BY <1>1, <1>6
  <2>4. home' = home
    BY <1>1
  <2> HIDE DEF A, M
  <2> QED
    BY <1>13, <2>2, <2>3, <2>4, OwnMoves
<1>15. \A s \in M : s \notin held /\ s \notin stranded
  BY <1>0, <1>3, OneList DEF now
<1>16. Arrive(A, M)
  <2>1. Spells(link', Heads'[mine], list'[mine]) /\ IsInjective(list'[mine])
    BY <1>2, <1>6, <1>7, <1>9, HeadsAre
  <2>2. Spells(link', Heads'[hand], list'[hand]) /\ IsInjective(list'[hand]) /\ ToSet(list'[hand]) = {}
    <3>1. Heads'[hand] = Null
      BY <1>8, HeadsAre DEF NoBatch
    <3> QED
      BY <1>9, <3>1 DEF Spells, First, IsInjective, ToSet
  <2>3. held' = held \cup {x} /\ stranded' = stranded
    BY <1>1
  <2>4. ToSet(list'[mine]) = M \ {x}
    BY <1>6, <1>9
  <2> HIDE DEF mine, hand
  <2> QED
    BY <1>15, <2>1, <2>2, <2>3, <2>4 DEF Arrive
<1>17. \A l \in A : \A s \in ToSet(list'[l]) : HomeOf(s)' = Owner'[l]
  <2>1. \A s \in M : HomeOf(s)' = p
    BY <1>2, <1>14
  <2>2. ToSet(list'[mine]) \subseteq M /\ ToSet(list'[hand]) = {}
    BY <1>6, <1>9 DEF ToSet
  <2>3. Owner'[mine] = p
    BY <1>2, HeadsAre
  <2> HIDE DEF mine, hand, M
  <2> QED
    BY <2>1, <2>2, <2>3
<1>18. \A s \in held' : s \in M => link'[s] = HomeOf(s)'
  <2>1. \A s \in held' : s \in M => s = x
    BY <1>1, <1>15
  <2> QED
    BY <1>2, <1>6, <1>14, <2>1
<1> QED
  BY <1>10, <1>11, <1>12, <1>14, <1>16, <1>17, <1>18, StepKept

\* deallocate_batch(): the words of a batch and of the pool's list, once the
\* last slot of the batch points to the first of the list.
LEMMA SplicedSpells ==
  ASSUME link \in [Slots -> Word],
         NEW a \in Seq(Slots), NEW b \in Seq(Slots), IsInjective(a), IsInjective(b),
         ToSet(a) \cap ToSet(b) = {}, a # << >>,
         Spells(link, First(a), a), Spells(link, First(b), b),
         NEW lk, lk = [link EXCEPT ![Last(a)] = First(b)]
  PROVE  /\ lk \in [Slots -> Word] /\ Spells(lk, First(a), a \o b)
         /\ \A x \in Slots : x \notin ToSet(a) => lk[x] = link[x]
<1>1. Last(a) = a[Len(a)] /\ Last(a) \in Slots /\ Last(a) \in ToSet(a) /\ First(b) \in Slots \cup {Null}
  BY FirstSlot
<1>2. /\ lk \in [Slots -> Word] /\ lk[Last(a)] = First(b)
      /\ \A x \in Slots : x # Last(a) => lk[x] = link[x]
  BY <1>1 DEF Word
<1>3. ASSUME NEW i \in 1..Len(a), i < Len(a) PROVE lk[a[i]] = a[i + 1]
  <2>1. link[a[i]] = a[i + 1]
    BY <1>3, SpellsAt
  <2>2. Len(a) \in 1..Len(a) /\ i # Len(a)
    BY <1>3
  <2>3. a[i] # Last(a) /\ a[i] \in Slots
    BY <1>1, <2>2, Positions
  <2> QED
    BY <1>2, <2>1, <2>3
<1>4. \A x \in ToSet(b) : lk[x] = link[x]
  BY <1>1, <1>2, Positions
<1>5. Spells(lk, First(b), b)
  BY <1>4, SpellsStill
<1>6. Spells(lk, First(a), a \o b)
  BY <1>2, <1>3, <1>5, JoinedSpell
<1> QED
  BY <1>1, <1>2, <1>6

\* The flushed batch goes in front of the pool's list.
LEMMA FlushSpliceKept ==
  ASSUME IInv, NEW t \in Threads, FlushSplice(t)
  PROVE  IInv' /\ TagsKept
<1> DEFINE b == batch[t]
           p == b.pool
           ours == InPool(p)
           hand == InHand(t)
           now == list[ours]
           w == list[hand]
           A == {ours, hand}
           M == ToSet(w) \cup ToSet(now)
<1>0. TypeOK /\ InOrder /\ SlotsInOnePlace /\ CachesCountTheirSlots /\ SlotsStayWithTheirPool
  BY DEF IInv
<1>1. /\ t \in alive /\ pc[t] = "flush"
      /\ link' = [link EXCEPT ![b.tail] = free_head[p]]
      /\ free_head' = [free_head EXCEPT ![p] = b.head]
      /\ list' = [list EXCEPT ![ours] = w \o now, ![hand] = << >>]
      /\ pc' = [pc EXCEPT ![t] = "idle"] /\ batch' = [batch EXCEPT ![t] = NoBatch]
      /\ UNCHANGED <<home, tls_caches, held, alive, stranded>>
  BY DEF FlushSplice, Spliced, threads
<1>2. /\ p \in Pools /\ b.head \in Slots \cup {Null}
      /\ w \in Seq(Slots) /\ IsInjective(w) /\ w # << >> /\ Spells(link, First(w), w)
      /\ b.head = First(w) /\ b.tail = Last(w)
      /\ \A s \in ToSet(w) : HomeOf(s) = p
  BY <1>1, OneHand
<1>3. ours \in Places /\ hand \in Places /\ ours # hand
  BY <1>2, PlacesApart
<1>4. /\ now \in Seq(Slots) /\ IsInjective(now) /\ Spells(link, First(now), now)
      /\ free_head[p] = First(now)
  BY <1>0, <1>2, <1>3, OneList, HeadsAre
<1>5. \A s \in ToSet(now) : HomeOf(s) = p
  BY <1>0, <1>2 DEF SlotsStayWithTheirPool
<1>6. link \in [Slots -> Word]
  BY <1>0 DEF TypeOK
<1>7. ToSet(w) \cap ToSet(now) = {}
  BY <1>0, <1>3 DEF SlotsInOnePlace
<1> HIDE DEF now, w, p
<1>8. /\ link' \in [Slots -> Word] /\ Spells(link', First(w), w \o now)
      /\ \A x \in Slots : x \notin ToSet(w) => link'[x] = link[x]
  BY <1>1, <1>2, <1>4, <1>6, <1>7, SplicedSpells
<1>9. w \o now \in Seq(Slots) /\ IsInjective(w \o now) /\ ToSet(w \o now) = M
  BY <1>2, <1>4, <1>7, Joined
<1>10. /\ pc' \in [Threads -> {"idle", "refill", "flush"}]
       /\ batch' \in [Threads -> [pool : Pools \cup {Null}, head : Slots \cup {Null},
                                  tail : Slots \cup {Null}, count : Count]]
       /\ pc'[t] = "idle" /\ batch'[t] = NoBatch
       /\ \A u \in Threads : u # t => pc'[u] = pc[u] /\ batch'[u] = batch[u]
  BY <1>0, <1>1, BatchWritten, NoBatchType
<1>11. /\ list'[ours] = w \o now /\ list'[hand] = << >>
       /\ \A l \in Places : l # ours /\ l # hand => list'[l] = list[l]
       /\ list' \in [Places -> Seq(Slots)]
  <2>1. list \in [Places -> Seq(Slots)] /\ << >> \in Seq(Slots)
    BY <1>0 DEF TypeOK
  <2>2. list' = [list EXCEPT ![ours] = w \o now, ![hand] = << >>] /\ w \o now \in Seq(Slots)
    BY <1>1, <1>9
  <2> HIDE DEF ours, hand
  <2> QED
    BY <1>3, <2>1, <2>2
<1>12. /\ free_head' \in [Pools -> Slots \cup {Null}] /\ free_head'[p] = First(w)
       /\ \A q \in Pools : q # p => free_head'[q] = free_head[q]
  BY <1>0, <1>1, <1>2 DEF TypeOK
<1>13. TypeOK'
  BY <1>0, <1>1, <1>8, <1>10, <1>11, <1>12 DEF TypeOK
<1>14. InOrder'
  <2>1. alive' = alive /\ tls_caches' = tls_caches /\ t \in alive
    BY <1>1
  <2>2. tls_caches[t][p].count <= kThreadLocalCacheCap
    BY <1>0, <1>2 DEF InOrder
  <2> QED
    BY <1>0, <1>2, <1>10, <2>1, <2>2, OrderKept
<1>15. CachesCountTheirSlots'
  <2>1. \A u \in Threads : u # t => /\ pc'[u] = pc[u] /\ batch'[u] = batch[u]
                                     /\ list'[InHand(u)] = list[InHand(u)]
    BY <1>2, <1>10, <1>11, PlacesApart
  <2>2. \A u \in Threads, q \in Pools :
          tls_caches'[u][q] = tls_caches[u][q] /\ list'[InCache(u, q)] = list[InCache(u, q)]
    BY <1>1, <1>2, <1>11, PlacesApart
  <2>3. pc'[t] = "idle"
    BY <1>10
  <2> QED
    BY <1>0, <2>1, <2>2, <2>3 DEF CachesCountTheirSlots
<1>16. \A l \in Places \ A : list'[l] = list[l] /\ Heads'[l] = Heads[l] /\ Owner'[l] = Owner[l]
  <2>1. \A q \in Pools : InPool(q) \notin A => q # p
    OBVIOUS
  <2>2. \A u \in Threads : InHand(u) \notin A => u # t
    OBVIOUS
  <2> SUFFICES ASSUME NEW l \in Places, l \notin A
               PROVE  list'[l] = list[l] /\ Heads'[l] = Heads[l] /\ Owner'[l] = Owner[l]
    OBVIOUS
  <2>3. list'[l] = list[l]
    BY <1>11
  <2>4. CASE \E q \in Pools : l = InPool(q)
    BY <1>12, <2>1, <2>3, <2>4, HeadsAre
  <2>5. CASE \E u \in Threads, q \in Pools : l = InCache(u, q)
    BY <1>1, <2>3, <2>5, HeadsAre
  <2>6. CASE \E u \in Threads : l = InHand(u)
    BY <1>10, <2>2, <2>3, <2>6, HeadsAre
  <2> QED
    BY <2>4, <2>5, <2>6, PlacesApart
<1>17. Moves(A, M) /\ (\A s \in M : s \in Slots /\ s \in Acquired) /\ \A s : HomeOf(s)' = HomeOf(s)
  <2>1. ToSet(<< >>) = {}
    BY DEF ToSet
  <2>2. /\ A \in SUBSET Places
        /\ \A l \in A : ToSet(list[l]) \subseteq M
        /\ \A l \in A : ToSet(list'[l]) \subseteq M
        /\ \A s \in M : s \in held \/ \E l \in A : s \in ToSet(list[l])
    BY <1>3, <1>9, <1>11, <2>1 DEF now, w
  <2>3. \A s \in Slots : s \notin M => /\ link'[s] = link[s]
                                       /\ s \in held' <=> s \in held
                                       /\ s \in stranded' <=> s \in stranded
    BY <1>1, <1>8
  <2>4. home' = home
    BY <1>1
  <2> HIDE DEF A, M
  <2> QED
    BY <1>16, <2>2, <2>3, <2>4, OwnMoves
<1>18. \A s \in M : s \notin held' /\ s \notin stranded'
  <2>1. \A s \in M : s \notin held /\ s \notin stranded
    BY <1>0, <1>3, OneList DEF now, w
  <2> QED
    BY <1>1, <2>1
<1>19. Arrive(A, M)
  <2>1. Spells(link', Heads'[ours], list'[ours]) /\ IsInjective(list'[ours])
    BY <1>2, <1>8, <1>9, <1>11, <1>12, HeadsAre
  <2>2. Spells(link', Heads'[hand], list'[hand]) /\ IsInjective(list'[hand]) /\ ToSet(list'[hand]) = {}
    <3>1. Heads'[hand] = Null
      BY <1>10, HeadsAre DEF NoBatch
    <3> QED
      BY <1>11, <3>1 DEF Spells, First, IsInjective, ToSet
  <2>3. ToSet(list'[ours]) = M
    BY <1>9, <1>11
  <2> HIDE DEF ours, hand, M
  <2> QED
    BY <1>18, <2>1, <2>2, <2>3 DEF Arrive
<1>20. \A l \in A : \A s \in ToSet(list'[l]) : HomeOf(s)' = Owner'[l]
  <2>1. \A s \in M : HomeOf(s)' = p
    BY <1>2, <1>5, <1>17
  <2>2. ToSet(list'[ours]) = M
    BY <1>9, <1>11
  <2>3. ToSet(list'[hand]) = {}
    BY <1>11 DEF ToSet
  <2>4. Owner'[ours] = p
    BY <1>2, HeadsAre
  <2> HIDE DEF ours, hand, M
  <2> QED
    BY <2>1, <2>2, <2>3, <2>4
<1>21. \A s \in held' : s \in M => link'[s] = HomeOf(s)'
  BY <1>18
<1> QED
  BY <1>13, <1>14, <1>15, <1>17, <1>19, <1>20, <1>21, StepKept

\* flush_batch_to_pool(): a list is cut behind its n-th slot.
FirstPart(s, n) == SubSeq(s, 1, n)
RestPart(s, n) == SubSeq(s, n + 1, Len(s))
CutWords(lk, s, n) == [lk EXCEPT ![Last(FirstPart(s, n))] = Null]

\* w and r are the two parts of the list s, and cut the words after that.
IsCut(lk, s, h, n, w, r, cut) ==
  /\ w \in Seq(Slots) /\ IsInjective(w) /\ Len(w) = n /\ w # << >>
  /\ r \in Seq(Slots) /\ IsInjective(r) /\ Len(r) = Len(s) - n
  /\ ToSet(w) \cap ToSet(r) = {} /\ ToSet(w) \cup ToSet(r) = ToSet(s)
  /\ h = First(w) /\ lk[Last(w)] = First(r) /\ Last(w) \in Slots
  /\ Spells(cut, h, w) /\ Spells(cut, First(r), r) /\ cut \in [Slots -> Word]
  /\ \A x \in Slots : x \notin ToSet(w) => cut[x] = lk[x]
  /\ r # << >> => Last(r) = Last(s)

\* The slots behind the cut keep their order.
LEMMA RestAt ==
  ASSUME NEW s \in Seq(Slots), IsInjective(s), NEW n \in 0..Len(s)
  PROVE  \A i \in 1..Len(RestPart(s, n)) : n + i \in 1..Len(s) /\ RestPart(s, n)[i] = s[n + i]
BY Parts DEF RestPart

\* Both parts are lists again.
LEMMA CutSpells ==
  ASSUME NEW lk \in [Slots -> Word], NEW s \in Seq(Slots), IsInjective(s), NEW h, Spells(lk, h, s),
         NEW n \in 1..Len(s)
  PROVE  IsCut(lk, s, h, n, FirstPart(s, n), RestPart(s, n), CutWords(lk, s, n))
<1> DEFINE w == FirstPart(s, n)
           r == RestPart(s, n)
           cut == CutWords(lk, s, n)
<1>0. n \in 0..Len(s) /\ n > 0 /\ n \in Nat /\ Len(s) \in Nat
  OBVIOUS
<1>1. /\ w \in Seq(Slots) /\ IsInjective(w) /\ Len(w) = n
      /\ r \in Seq(Slots) /\ IsInjective(r) /\ Len(r) = Len(s) - n
      /\ ToSet(w) \cap ToSet(r) = {} /\ ToSet(w) \cup ToSet(r) = ToSet(s)
  <2> DEFINE u == SubSeq(s, 1, n)
             v == SubSeq(s, n + 1, Len(s))
  <2>1. u = w /\ v = r
    BY DEF FirstPart, RestPart
  <2>2. /\ u \in Seq(Slots) /\ IsInjective(u) /\ Len(u) = n
        /\ v \in Seq(Slots) /\ IsInjective(v) /\ Len(v) = Len(s) - n
        /\ ToSet(u) \cap ToSet(v) = {} /\ ToSet(u) \cup ToSet(v) = ToSet(s)
    BY <1>0, Parts
  <2> QED
    BY <2>1, <2>2
<1>2. \A i \in 1..Len(r) : n + i \in 1..Len(s) /\ r[i] = s[n + i]
  BY <1>0, RestAt
<1>3. w # << >> /\ First(w) = First(s)
  BY <1>0, Parts DEF FirstPart
<1>4. After(lk, h, w) = First(r) /\ Spells(lk, First(r), r) /\ \A i \in 1..n : i < n => lk[w[i]] = w[i + 1]
  BY <1>0, PartsSpell DEF FirstPart, RestPart
<1> HIDE DEF w, r
<1>5. h = First(w) /\ lk[Last(w)] = First(r)
  BY <1>3, <1>4 DEF Spells, After
<1>6. Last(w) = w[n] /\ Last(w) \in Slots /\ Last(w) \in ToSet(w)
  BY <1>1, <1>3, FirstSlot
<1>7. /\ cut \in [Slots -> Word] /\ cut[Last(w)] = Null
      /\ \A x \in Slots : x # Last(w) => cut[x] = lk[x]
  BY <1>6 DEF Word, CutWords, w
<1> HIDE DEF cut
<1>8. Spells(cut, First(r), r)
  <2>1. \A x \in ToSet(r) : cut[x] = lk[x]
    BY <1>1, <1>6, <1>7, Positions
  <2> QED
    BY <1>1, <1>4, <2>1, SpellsStill
<1>9. Spells(cut, h, w)
  <2>1. ASSUME NEW i \in 1..n, i < n PROVE cut[w[i]] = w[i + 1]
    <3>1. lk[w[i]] = w[i + 1]
      BY <1>4, <2>1
    <3>2. n \in 1..n /\ i # n
      BY <2>1, <1>0
    <3>4. i \in 1..Len(w) /\ n \in 1..Len(w)
      BY <1>1, <2>1, <3>2
    <3>5. \A k, m \in 1..Len(w) : w[k] = w[m] => k = m
      BY <1>1, Positions
    <3>6. w[i] \in Slots
      BY <1>1, <3>4, Positions
    <3>3. w[i] # Last(w) /\ w[i] \in Slots
      BY <1>6, <3>2, <3>4, <3>5, <3>6
    <3> QED
      BY <1>7, <3>1, <3>3
  <2> QED
    BY <1>1, <1>5, <1>6, <1>7, <2>1, SpellsAt
<1>10. r # << >> => Last(r) = Last(s)
  <2> SUFFICES ASSUME r # << >> PROVE Last(r) = Last(s)
    OBVIOUS
  <2>1. s # << >>
    BY <1>0, EmptySeq
  <2>2. Last(r) = r[Len(r)] /\ Len(r) \in Nat \ {0} /\ Last(s) = s[Len(s)]
    BY <1>1, <2>1, FirstSlot
  <2>3. Len(r) \in 1..Len(r) /\ n + Len(r) = Len(s)
    BY <1>0, <1>1, <2>2
  <2> QED
    BY <1>2, <2>2, <2>3
<1> QED
  BY <1>1, <1>3, <1>5, <1>6, <1>7, <1>8, <1>9, <1>10 DEF IsCut, w, r, cut

\* my_free() over the cap: the caller's slot goes to the cache, and a batch
\* leaves it.
LEMMA FreeOverCapKept ==
  ASSUME IInv, NEW t \in Threads, NEW s \in held, NEW p \in Pools, FreeOverCap(t, s, p)
  PROVE  IInv' /\ TagsKept
<1> DEFINE mine == InCache(t, p)
           hand == InHand(t)
           now == list[mine]
           c == Pushed(t, p, s)
           pushed == PushedWords(t, p, s)
           cached == PushedList(t, p, s)
           A == {mine, hand}
           M == ToSet(now) \cup {s}
<1>0. TypeOK /\ InOrder /\ SlotsInOnePlace /\ CachesCountTheirSlots /\ SlotsStayWithTheirPool
  BY DEF IInv
<1>1. /\ t \in alive /\ pc[t] = "idle" /\ Routed(s, p)
      /\ pc' = [pc EXCEPT ![t] = "flush"] /\ held' = held \ {s}
      /\ UNCHANGED <<home, free_head, alive, stranded>>
  BY DEF FreeOverCap, Idle, threads
<1> DEFINE Cuts(n, w) ==
             LET d == Last(w)
             IN  /\ tls_caches' = [tls_caches EXCEPT ![t][p] = Detached(c, d, pushed[d], n)]
                 /\ link' = [pushed EXCEPT ![d] = Null]
                 /\ batch' = [batch EXCEPT ![t] = [pool |-> p, head |-> s, tail |-> d, count |-> n]]
                 /\ list' = [list EXCEPT ![mine] = SubSeq(cached, n + 1, Len(cached)), ![hand] = w]
<1>29. \E n \in 1..kThreadLocalCacheBatchSize : \E w \in Walks(pushed, s, n) : Cuts(n, w)
  BY DEF FreeOverCap, PushedWords, PushedList, CachedNow
<1>30. PICK n \in 1..kThreadLocalCacheBatchSize : \E w \in Walks(pushed, s, n) : Cuts(n, w)
  BY <1>29
<1>2. PICK w \in Walks(pushed, s, n) : Cuts(n, w)
  BY <1>30
<1> DEFINE r == SubSeq(cached, n + 1, Len(cached))
           d == Last(w)
           e == Detached(c, d, pushed[d], n)
           f == [pool |-> p, head |-> s, tail |-> d, count |-> n]
<1>3. /\ tls_caches' = [tls_caches EXCEPT ![t][p] = e]
      /\ link' = [pushed EXCEPT ![Last(w)] = Null]
      /\ batch' = [batch EXCEPT ![t] = f]
      /\ list' = [list EXCEPT ![mine] = r, ![hand] = w]
  BY <1>2
<1>4. /\ s \in Slots /\ s \notin stranded /\ HomeOf(s) = p /\ \A l \in Places : s \notin ToSet(list[l])
  BY <1>1, RoutedSlot
<1>5. mine \in Places /\ hand \in Places /\ mine # hand
  BY PlacesApart
<1>6. /\ c \in Cache /\ c.count = Len(cached) /\ c.tail = Last(cached)
      /\ cached \in Seq(Slots) /\ IsInjective(cached)
      /\ ToSet(cached) = M /\ Spells(pushed, s, cached) /\ pushed \in [Slots -> Word]
      /\ \A x \in Slots : x # s => pushed[x] = link[x]
  BY <1>1, PushedCache DEF CachedNow
<1>7. n \in 1..Len(cached) /\ w = SubSeq(cached, 1, n)
  <2>1. n \in 0..Len(cached) /\ w = SubSeq(cached, 1, n)
    BY <1>6, WalkIsPart
  <2> QED
    BY <2>1
<1> HIDE DEF c, pushed, cached
<1>8. /\ w \in Seq(Slots) /\ IsInjective(w) /\ Len(w) = n /\ w # << >>
      /\ r \in Seq(Slots) /\ IsInjective(r) /\ Len(r) = Len(cached) - n
      /\ ToSet(w) \cap ToSet(r) = {} /\ ToSet(w) \cup ToSet(r) = M
      /\ s = First(w) /\ pushed[d] = First(r) /\ d \in Slots
      /\ Spells(link', s, w) /\ Spells(link', First(r), r) /\ link' \in [Slots -> Word]
      /\ \A x \in Slots : x \notin ToSet(w) => link'[x] = pushed[x]
      /\ r # << >> => Last(r) = Last(cached)
  <2>1. w = FirstPart(cached, n) /\ r = RestPart(cached, n)
    BY <1>7 DEF FirstPart, RestPart
  <2>2. link' = CutWords(pushed, cached, n)
    BY <1>3, <2>1 DEF CutWords
  <2> DEFINE w1 == FirstPart(cached, n)
             r1 == RestPart(cached, n)
             cut == CutWords(pushed, cached, n)
  <2>3. /\ w1 \in Seq(Slots) /\ IsInjective(w1) /\ Len(w1) = n /\ w1 # << >>
        /\ r1 \in Seq(Slots) /\ IsInjective(r1) /\ Len(r1) = Len(cached) - n
        /\ ToSet(w1) \cap ToSet(r1) = {} /\ ToSet(w1) \cup ToSet(r1) = ToSet(cached)
        /\ s = First(w1) /\ pushed[Last(w1)] = First(r1) /\ Last(w1) \in Slots
        /\ Spells(cut, s, w1) /\ Spells(cut, First(r1), r1) /\ cut \in [Slots -> Word]
        /\ \A x \in Slots : x \notin ToSet(w1) => cut[x] = pushed[x]
        /\ r1 # << >> => Last(r1) = Last(cached)
    <3>1. IsCut(pushed, cached, s, n, w1, r1, cut)
      BY <1>6, <1>7, CutSpells
    <3> HIDE DEF w1, r1, cut
    <3> QED
      BY <1>6, <3>1 DEF IsCut
  <2>4. w1 = w /\ r1 = r /\ cut = link'
    BY <2>1, <2>2
  <2> HIDE DEF r, w1, r1, cut
  <2> QED
    BY <1>6, <2>3, <2>4
<1>9. e = [head |-> First(r), tail |-> IF First(r) = Null THEN Null ELSE c.tail, count |-> c.count - n]
  BY <1>8 DEF Detached
<1>10. First(r) \in Slots \cup {Null} /\ (r = << >> <=> First(r) = Null)
  BY <1>8, FirstSlot
<1>11. c.tail \in Slots \cup {Null} /\ c.count \in 0..(kThreadLocalCacheCap + 1)
  BY <1>6 DEF Cache, Count
<1> HIDE DEF r, d
<1>12. c.count - n \in Count /\ c.count - n <= kThreadLocalCacheCap /\ n \in Count
  <2> DEFINE k == c.count
             cap == kThreadLocalCacheCap
             m == kThreadLocalCacheBatchSize
  <2>1. k \in 0..(cap + 1) /\ n <= k /\ n \in 1..m /\ cap = 2 * m /\ m \in Nat
    BY <1>6, <1>7, <1>11, Sizes
  <2> HIDE DEF k, cap, m
  <2>2. k - n \in 0..(cap + 1) /\ k - n <= cap /\ n \in 0..(cap + 1)
    BY <2>1
  <2> QED
    BY <2>2 DEF k, cap, Count
<1>13. /\ e \in Cache /\ e.head = First(r) /\ e.count = Len(r) /\ e.count <= kThreadLocalCacheCap
       /\ e.tail = IF r = << >> THEN Null ELSE Last(r)
  <2>1. (IF First(r) = Null THEN Null ELSE c.tail) \in Slots \cup {Null}
    BY <1>11
  <2>2. e \in Cache
    BY <1>9, <1>10, <1>12, <2>1 DEF Cache
  <2>3. e.head = First(r) /\ e.count = c.count - n /\ e.tail = IF First(r) = Null THEN Null ELSE c.tail
    BY <1>9
  <2> HIDE DEF e
  <2>4. e.tail = IF r = << >> THEN Null ELSE Last(r)
    BY <1>6, <1>8, <1>10, <2>3
  <2> QED
    BY <1>6, <1>8, <1>12, <2>2, <2>3, <2>4
<1>14. /\ f \in [pool : Pools \cup {Null}, head : Slots \cup {Null}, tail : Slots \cup {Null}, count : Count]
       /\ f.pool = p /\ f.head = s /\ f.tail = Last(w) /\ f.count = Len(w)
  BY <1>4, <1>8, <1>12 DEF d
<1> HIDE DEF e, f
<1>15. /\ tls_caches' \in [Threads -> [Pools -> Cache]] /\ tls_caches'[t][p] = e
       /\ \A u \in Threads, q \in Pools : u # t \/ q # p => tls_caches'[u][q] = tls_caches[u][q]
  <2>1. e \in Cache /\ NowCached(t, p, e)
    BY <1>3, <1>13 DEF NowCached
  <2> QED
    BY <1>0, <2>1, CacheWritten
<1>16. /\ pc' \in [Threads -> {"idle", "refill", "flush"}]
       /\ batch' \in [Threads -> [pool : Pools \cup {Null}, head : Slots \cup {Null},
                                  tail : Slots \cup {Null}, count : Count]]
       /\ pc'[t] = "flush" /\ batch'[t] = f
       /\ \A u \in Threads : u # t => pc'[u] = pc[u] /\ batch'[u] = batch[u]
  BY <1>0, <1>1, <1>3, <1>14, BatchWritten
<1>17. /\ list'[mine] = r /\ list'[hand] = w
       /\ \A l \in Places : l # mine /\ l # hand => list'[l] = list[l]
       /\ list' \in [Places -> Seq(Slots)]
  <2>1. list \in [Places -> Seq(Slots)]
    BY <1>0 DEF TypeOK
  <2>2. list' = [list EXCEPT ![mine] = r, ![hand] = w] /\ r \in Seq(Slots) /\ w \in Seq(Slots)
    BY <1>3, <1>8
  <2> HIDE DEF mine, hand
  <2> QED
    BY <1>5, <2>1, <2>2
<1>18. TypeOK'
  <2>1. held' \subseteq Slots
    BY <1>0, <1>1 DEF TypeOK
  <2> QED
    BY <1>0, <1>1, <1>8, <1>15, <1>16, <1>17, <2>1 DEF TypeOK
<1>19. InOrder'
  <2>1. alive' = alive /\ t \in alive
    BY <1>1
  <2>2. tls_caches'[t][p].count <= kThreadLocalCacheCap /\ batch'[t].pool = p /\ pc'[t] = "flush"
    BY <1>13, <1>14, <1>15, <1>16
  <2> QED
    BY <1>0, <1>15, <1>16, <2>1, <2>2, OrderKept
<1>20. CachesCountTheirSlots'
  <2>1. \A u \in Threads : u # t => /\ pc'[u] = pc[u] /\ batch'[u] = batch[u]
                                     /\ list'[InHand(u)] = list[InHand(u)]
    BY <1>16, <1>17, PlacesApart
  <2>2. \A u \in Threads, q \in Pools : u # t \/ q # p => list'[InCache(u, q)] = list[InCache(u, q)]
    BY <1>17, PlacesApart
  <2>3. /\ list'[InCache(t, p)] = r /\ tls_caches'[t][p].count = Len(r)
        /\ tls_caches'[t][p].tail = IF r = << >> THEN Null ELSE Last(r)
    BY <1>13, <1>15, <1>17
  <2>4. list'[InHand(t)] = w /\ w # << >> /\ batch'[t].count = Len(w) /\ batch'[t].tail = Last(w)
    BY <1>8, <1>14, <1>16, <1>17
  <2> QED
    BY <1>0, <1>15, <2>1, <2>2, <2>3, <2>4, CountsKept
<1>21. \A l \in Places \ A : list'[l] = list[l] /\ Heads'[l] = Heads[l] /\ Owner'[l] = Owner[l]
  <2>1. \A u \in Threads, q \in Pools : InCache(u, q) \notin A => u # t \/ q # p
    OBVIOUS
  <2>2. \A u \in Threads : InHand(u) \notin A => u # t
    OBVIOUS
  <2> SUFFICES ASSUME NEW l \in Places, l \notin A
               PROVE  list'[l] = list[l] /\ Heads'[l] = Heads[l] /\ Owner'[l] = Owner[l]
    OBVIOUS
  <2>3. list'[l] = list[l]
    BY <1>17
  <2>4. CASE \E q \in Pools : l = InPool(q)
    BY <1>1, <2>3, <2>4, HeadsAre
  <2>5. CASE \E u \in Threads, q \in Pools : l = InCache(u, q)
    BY <1>15, <2>1, <2>3, <2>5, HeadsAre
  <2>6. CASE \E u \in Threads : l = InHand(u)
    BY <1>16, <2>2, <2>3, <2>6, HeadsAre
  <2> QED
    BY <2>4, <2>5, <2>6, PlacesApart
<1>22. list[hand] = << >>
  BY <1>1, NoHand
<1>23. \A x \in ToSet(now) : HomeOf(x) = p
  BY OneCache
<1>24. Moves(A, M) /\ (\A x \in M : x \in Slots /\ x \in Acquired) /\ \A x : HomeOf(x)' = HomeOf(x)
  <2>1. ToSet(<< >>) = {}
    BY DEF ToSet
  <2>2. /\ A \in SUBSET Places
        /\ \A l \in A : ToSet(list[l]) \subseteq M
        /\ \A l \in A : ToSet(list'[l]) \subseteq M
        /\ \A x \in M : x \in held \/ \E l \in A : x \in ToSet(list[l])
    <3>1. ToSet(list[hand]) = {}
      BY <1>22, <2>1
    <3>2. ToSet(list'[mine]) \subseteq M /\ ToSet(list'[hand]) \subseteq M
      BY <1>8, <1>17
    <3> QED
      BY <1>5, <3>1, <3>2
  <2>3. \A x \in Slots : x \notin M => /\ link'[x] = link[x]
                                       /\ x \in held' <=> x \in held
                                       /\ x \in stranded' <=> x \in stranded
    BY <1>1, <1>6, <1>8
  <2>4. home' = home
    BY <1>1
  <2> HIDE DEF A, M
  <2> QED
    BY <1>21, <2>2, <2>3, <2>4, OwnMoves
<1>25. \A x \in M : x \notin held' /\ x \notin stranded'
  <2>1. \A x \in ToSet(now) : x \notin held /\ x \notin stranded
    BY <1>0, <1>5, OneList
  <2> QED
    BY <1>1, <1>4, <2>1
<1> HIDE DEF now
<1>26. Arrive(A, M)
  <2>1. Spells(link', Heads'[mine], list'[mine]) /\ IsInjective(list'[mine]) /\ list'[mine] = r
    BY <1>8, <1>13, <1>15, <1>17, HeadsAre
  <2>2. Spells(link', Heads'[hand], list'[hand]) /\ IsInjective(list'[hand]) /\ list'[hand] = w
    BY <1>8, <1>14, <1>16, <1>17, HeadsAre
  <2>3. ToSet(w) \cap ToSet(r) = {} /\ ToSet(w) \cup ToSet(r) = M
    BY <1>8
  <2> HIDE DEF mine, hand, M
  <2> QED
    BY <1>25, <2>1, <2>2, <2>3 DEF Arrive
<1>27. \A l \in A : \A x \in ToSet(list'[l]) : HomeOf(x)' = Owner'[l]
  <2>1. \A x \in M : HomeOf(x)' = p
    BY <1>4, <1>23, <1>24
  <2>2. ToSet(list'[mine]) \subseteq M /\ ToSet(list'[hand]) \subseteq M
    BY <1>8, <1>17
  <2>3. Owner'[mine] = p
    BY HeadsAre
  <2>4. Owner'[hand] = p
    BY <1>14, <1>16, HeadsAre
  <2> HIDE DEF mine, hand, M
  <2> QED
    BY <2>1, <2>2, <2>3, <2>4
<1>28. \A x \in held' : x \in M => link'[x] = HomeOf(x)'
  BY <1>25
<1> QED
  BY <1>18, <1>19, <1>20, <1>24, <1>26, <1>27, <1>28, StepKept

\* allocate_batch(): what the pool hands out is in the thread's hand.
LEMMA MallocRefillKept ==
  ASSUME IInv, NEW t \in Threads, NEW p \in Pools, MallocRefill(t, p)
  PROVE  IInv' /\ TagsKept
<1> DEFINE n == kThreadLocalCacheBatchSize
           ours == InPool(p)
           hand == InHand(t)
           A == {ours, hand}
<1>0. TypeOK /\ InOrder /\ SlotsInOnePlace /\ CachesCountTheirSlots /\ SlotsStayWithTheirPool
  BY DEF IInv
<1>1. PICK b \in allocate_batch(p, n) :
        /\ TakeOut(p, b)
        /\ link' = Linked(b.lk, b.got)
        /\ batch' = [batch EXCEPT ![t] = [pool |-> p, head |-> Head(b.got),
                                          tail |-> Last(b.got), count |-> Len(b.got)]]
        /\ list' = [list EXCEPT ![ours] = b.left, ![hand] = b.got]
  BY DEF MallocRefill
<1>2. /\ t \in alive /\ pc[t] = "idle" /\ tls_caches[t][p].head = Null
      /\ pc' = [pc EXCEPT ![t] = "refill"]
      /\ UNCHANGED <<tls_caches, held, alive, stranded>>
  BY DEF MallocRefill, Idle, threads
<1>3. PICK new : Handed(p, n, b, new)
  BY <1>0, Sizes, WhatIsHanded
<1> DEFINE got == b.got
           left == b.left
           f == [pool |-> p, head |-> Head(got), tail |-> Last(got), count |-> Len(got)]
           M == ToSet(list[ours]) \cup new
<1>4. /\ got \in Seq(Slots) /\ IsInjective(got) /\ got # << >> /\ Len(got) <= n
      /\ left \in Seq(Slots) /\ IsInjective(left) /\ b.lk \in [Slots -> Word]
      /\ Spells(b.lk, b.head, left)
      /\ \A s \in Slots : s \notin new => b.lk[s] = link[s]
      /\ ToSet(got) \cap ToSet(left) = {} /\ ToSet(got) \cup ToSet(left) = M
  BY <1>3 DEF Handed
<1>5. /\ home' \in Seq(Pools) /\ Len(home') <= MaxArenas
      /\ free_head' \in [Pools -> Slots \cup {Null}]
      /\ free_head'[p] = b.head /\ \A q \in Pools : q # p => free_head'[q] = free_head[q]
  BY <1>1, <1>3, TakenOut
<1>6. \A s \in M : s \in Slots /\ s \in Acquired' /\ HomeOf(s)' = p /\ s \notin held /\ s \notin stranded
  BY <1>1, <1>3, TakenOut
<1>7. ours \in Places /\ hand \in Places /\ ours # hand
  BY PlacesApart
<1>8. list[hand] = << >>
  BY <1>2, NoHand
<1>9. link' = Linked(b.lk, got) /\ batch' = [batch EXCEPT ![t] = f]
      /\ list' = [list EXCEPT ![ours] = left, ![hand] = got]
  BY <1>1
<1> HIDE DEF got, left, M
<1>10. /\ First(got) = Head(got) /\ First(got) \in Slots /\ Last(got) \in Slots /\ Len(got) \in Nat
  BY <1>4, FirstSlot
<1>11. /\ f \in [pool : Pools \cup {Null}, head : Slots \cup {Null}, tail : Slots \cup {Null}, count : Count]
       /\ f.pool = p /\ f.head = First(got) /\ f.tail = Last(got) /\ f.count = Len(got)
  <2>1. Len(got) \in Count
    <3> DEFINE k == Len(got)
    <3>1. k \in Nat /\ k <= n /\ n \in Nat /\ kThreadLocalCacheCap = 2 * n
      BY <1>4, <1>10, Sizes
    <3> HIDE DEF k, n
    <3>2. k \in 0..(2 * n + 1)
      BY <3>1
    <3> QED
      BY <3>1, <3>2 DEF k, Count
  <2> QED
    BY <1>10, <2>1
<1>12. /\ link' \in [Slots -> Word] /\ Spells(link', First(got), got)
       /\ \A s \in Slots : s \notin ToSet(got) => link'[s] = b.lk[s]
  BY <1>4, <1>9, LinkedSpells
<1>13. Spells(link', b.head, left)
  <2>1. \A s \in ToSet(left) : link'[s] = b.lk[s]
    BY <1>4, <1>6, <1>12
  <2> QED
    BY <1>4, <2>1, SpellsStill
<1> HIDE DEF f
<1>14. /\ pc' \in [Threads -> {"idle", "refill", "flush"}]
       /\ batch' \in [Threads -> [pool : Pools \cup {Null}, head : Slots \cup {Null},
                                  tail : Slots \cup {Null}, count : Count]]
       /\ pc'[t] = "refill" /\ batch'[t] = f
       /\ \A u \in Threads : u # t => pc'[u] = pc[u] /\ batch'[u] = batch[u]
  BY <1>0, <1>2, <1>9, <1>11, BatchWritten
<1>15. /\ list'[ours] = left /\ list'[hand] = got
       /\ \A l \in Places : l # ours /\ l # hand => list'[l] = list[l]
       /\ list' \in [Places -> Seq(Slots)]
  <2>1. list \in [Places -> Seq(Slots)]
    BY <1>0 DEF TypeOK
  <2> HIDE DEF ours, hand
  <2> QED
    BY <1>4, <1>7, <1>9, <2>1
<1>16. TypeOK'
  BY <1>0, <1>2, <1>5, <1>12, <1>14, <1>15 DEF TypeOK
<1>17. InOrder'
  <2>1. alive' = alive /\ t \in alive /\ tls_caches' = tls_caches
    BY <1>2
  <2>2. tls_caches[t][p].count <= kThreadLocalCacheCap
    BY <1>0 DEF InOrder
  <2>3. batch'[t].pool = p /\ pc'[t] = "refill" /\ tls_caches'[t][p].head = Null
    BY <1>2, <1>11, <1>14
  <2> QED
    BY <1>0, <1>14, <2>1, <2>2, <2>3, OrderKept
<1>18. CachesCountTheirSlots'
  <2>1. \A u \in Threads : u # t => /\ pc'[u] = pc[u] /\ batch'[u] = batch[u]
                                     /\ list'[InHand(u)] = list[InHand(u)]
    BY <1>14, <1>15, PlacesApart
  <2>2. \A u \in Threads, q \in Pools :
          tls_caches'[u][q] = tls_caches[u][q] /\ list'[InCache(u, q)] = list[InCache(u, q)]
    BY <1>2, <1>15, PlacesApart
  <2>3. /\ list'[InHand(t)] = got /\ got # << >>
        /\ batch'[t].count = Len(got) /\ batch'[t].tail = Last(got)
    BY <1>4, <1>11, <1>14, <1>15
  <2> QED
    BY <1>0, <2>1, <2>2, <2>3 DEF CachesCountTheirSlots
<1>19. \A l \in Places \ A : list'[l] = list[l] /\ Heads'[l] = Heads[l] /\ Owner'[l] = Owner[l]
  <2>1. \A q \in Pools : InPool(q) \notin A => q # p
    OBVIOUS
  <2>2. \A u \in Threads : InHand(u) \notin A => u # t
    OBVIOUS
  <2> SUFFICES ASSUME NEW l \in Places, l \notin A
               PROVE  list'[l] = list[l] /\ Heads'[l] = Heads[l] /\ Owner'[l] = Owner[l]
    OBVIOUS
  <2>3. list'[l] = list[l]
    BY <1>15
  <2>4. CASE \E q \in Pools : l = InPool(q)
    BY <1>5, <2>1, <2>3, <2>4, HeadsAre
  <2>5. CASE \E u \in Threads, q \in Pools : l = InCache(u, q)
    BY <1>2, <2>3, <2>5, HeadsAre
  <2>6. CASE \E u \in Threads : l = InHand(u)
    BY <1>14, <2>2, <2>3, <2>6, HeadsAre
  <2> QED
    BY <2>4, <2>5, <2>6, PlacesApart
<1>20. \A s \in Slots : s \notin M => link'[s] = link[s] /\ (s \in held' <=> s \in held)
  <2>1. \A s \in Slots : s \notin M => b.lk[s] = link[s]
    BY <1>4 DEF M
  <2>2. \A s \in Slots : s \notin M => s \notin ToSet(got)
    BY <1>4
  <2> QED
    BY <1>2, <1>12, <2>1, <2>2
<1>21. Moves(A, M)
  <2>1. A \in SUBSET Places /\ InPool(p) \in A /\ \A l \in A : l # InPool(p) => list[l] = << >>
    BY <1>7, <1>8
  <2>2. \A l \in A : ToSet(list'[l]) \subseteq M
    BY <1>4, <1>15
  <2>3. M = ToSet(list[InPool(p)]) \cup new
    BY DEF M
  <2>4. TakeOut(p, b) /\ stranded' = stranded
    BY <1>1, <1>2
  <2> HIDE DEF A
  <2> QED
    BY <1>3, <1>16, <1>19, <1>20, <2>1, <2>2, <2>3, <2>4, PoolMoves
<1>22. Arrive(A, M)
  <2>1. Spells(link', Heads'[ours], list'[ours]) /\ IsInjective(list'[ours]) /\ list'[ours] = left
    BY <1>4, <1>5, <1>13, <1>15, HeadsAre
  <2>2. Spells(link', Heads'[hand], list'[hand]) /\ IsInjective(list'[hand]) /\ list'[hand] = got
    BY <1>4, <1>11, <1>12, <1>14, <1>15, HeadsAre
  <2>3. held' = held /\ stranded' = stranded
    BY <1>2
  <2> HIDE DEF ours, hand
  <2> QED
    BY <1>4, <1>6, <2>1, <2>2, <2>3 DEF Arrive
<1>23. \A l \in A : \A x \in ToSet(list'[l]) : HomeOf(x)' = Owner'[l]
  <2>1. ToSet(list'[ours]) \subseteq M /\ ToSet(list'[hand]) \subseteq M
    BY <1>4, <1>15
  <2>2. Owner'[ours] = p
    BY HeadsAre
  <2>3. Owner'[hand] = p
    BY <1>11, <1>14, HeadsAre
  <2> HIDE DEF ours, hand
  <2> QED
    BY <1>6, <2>1, <2>2, <2>3
<1>24. \A x \in held' : x \in M => link'[x] = HomeOf(x)'
  BY <1>2, <1>6
<1> QED
  BY <1>16, <1>17, <1>18, <1>21, <1>22, <1>23, <1>24, StepKept

-----------------------------------------------------------------------------
(* Threads and shutdown.                                                   *)

\* A thread starts with the caches it has: none.
LEMMA StartKept ==
  ASSUME IInv, NEW t \in Threads, Start(t)
  PROVE  IInv' /\ TagsKept
<1>0. TypeOK /\ InOrder /\ SlotsInOnePlace /\ CachesCountTheirSlots /\ SlotsStayWithTheirPool
  BY DEF IInv
<1>1. /\ alive' = alive \cup {t}
      /\ UNCHANGED <<home, link, free_head, tls_caches, pc, batch, held, stranded, list>>
  BY DEF Start, memory
<1>2. TypeOK'
  BY <1>0, <1>1 DEF TypeOK
<1>3. InOrder'
  BY <1>0, <1>1 DEF InOrder
<1>4. SlotsInOnePlace'
  BY <1>0, <1>1 DEF SlotsInOnePlace, Acquired, Heads
<1>5. CachesCountTheirSlots'
  BY <1>0, <1>1 DEF CachesCountTheirSlots
<1>6. SlotsStayWithTheirPool'
  BY <1>0, <1>1 DEF SlotsStayWithTheirPool, HomeOf
<1> QED
  BY <1>1, <1>2, <1>3, <1>4, <1>5, <1>6 DEF IInv, TagsKept

\* A thread ends: what its caches had is in no list.
LEMMA ExitKept ==
  ASSUME IInv, NEW t \in Threads, Exit(t)
  PROVE  IInv' /\ TagsKept
<1> DEFINE A == {InCache(t, p) : p \in Pools}
           M == UNION {ToSet(list[InCache(t, p)]) : p \in Pools}
<1>0. TypeOK /\ InOrder /\ SlotsInOnePlace /\ CachesCountTheirSlots /\ SlotsStayWithTheirPool
  BY DEF IInv
<1>1. /\ t \in alive /\ pc[t] = "idle" /\ alive' = alive \ {t} /\ stranded' = stranded \cup M
      /\ tls_caches' = [tls_caches EXCEPT ![t] = [p \in Pools |-> EmptyCache]]
      /\ list' = [l \in Places |-> IF \E p \in Pools : l = InCache(t, p) THEN << >> ELSE list[l]]
      /\ UNCHANGED <<home, link, free_head, pc, batch, held>>
  BY DEF Exit, memory
<1>2. EmptyCache \in Cache /\ EmptyCache.head = Null /\ EmptyCache.tail = Null /\ EmptyCache.count = 0
  BY Sizes DEF EmptyCache, Cache, Count
<1>3. /\ tls_caches' \in [Threads -> [Pools -> Cache]]
      /\ \A p \in Pools : tls_caches'[t][p] = EmptyCache
      /\ \A u \in Threads : u # t => tls_caches'[u] = tls_caches[u]
  BY <1>0, <1>1, <1>2 DEF TypeOK
<1>4. A \subseteq Places /\ (\A l \in A : list'[l] = << >>) /\ \A l \in Places \ A : list'[l] = list[l]
  BY <1>1, PlacesApart
<1>5. \A s : s \in M <=> \E l \in A : s \in ToSet(list[l])
  OBVIOUS
<1>6. ToSet(<< >>) = {} /\ Len(<< >>) = 0 /\ << >> \in Seq(Slots)
  BY DEF ToSet
<1>7. \A s \in M : s \in Slots /\ s \notin held /\ s \notin stranded
  BY <1>0, <1>4, <1>5, OneList
<1>8. TypeOK'
  <2>1. list' \in [Places -> Seq(Slots)]
    BY <1>0, <1>1, <1>6 DEF TypeOK
  <2>2. stranded' \subseteq Slots /\ alive' \subseteq Threads
    BY <1>0, <1>1, <1>7 DEF TypeOK
  <2> QED
    BY <1>0, <1>1, <1>3, <2>1, <2>2 DEF TypeOK
<1>9. InOrder'
  <2> SUFFICES ASSUME NEW u \in Threads
               PROVE  /\ pc[u] = "idle" => batch[u] = NoBatch
                      /\ pc[u] # "idle" => batch[u].pool \in Pools /\ u \in alive'
                      /\ pc[u] = "refill" => tls_caches'[u][batch[u].pool].head = Null
                      /\ u \notin alive' => \A q \in Pools : tls_caches'[u][q].head = Null
                      /\ \A q \in Pools : tls_caches'[u][q].count <= kThreadLocalCacheCap
    BY <1>1 DEF InOrder
  <2>1. CASE u = t
    BY <1>0, <1>1, <1>2, <1>3, <2>1, Sizes DEF InOrder
  <2>2. CASE u # t
    BY <1>0, <1>1, <1>3, <2>2 DEF InOrder
  <2> QED
    BY <2>1, <2>2
<1>10. CachesCountTheirSlots'
  <2>1. ASSUME NEW u \in Threads, NEW q \in Pools
        PROVE  LET d == tls_caches'[u][q]
                   slots == list'[InCache(u, q)]
               IN  d.count = Len(slots) /\ d.tail = IF slots = << >> THEN Null ELSE Last(slots)
    <3>1. CASE u = t
      <4>1. list'[InCache(u, q)] = << >> /\ tls_caches'[u][q] = EmptyCache
        BY <1>3, <1>4, <3>1
      <4> QED
        BY <1>2, <1>6, <4>1
    <3>2. CASE u # t
      <4>1. InCache(u, q) \in Places \ A
        BY <3>2, PlacesApart
      <4>2. tls_caches'[u][q] = tls_caches[u][q] /\ list'[InCache(u, q)] = list[InCache(u, q)]
        BY <1>3, <1>4, <3>2, <4>1
      <4> QED
        BY <1>0, <4>2 DEF CachesCountTheirSlots
    <3> QED
      BY <3>1, <3>2
  <2>2. \A u \in Threads : list'[InHand(u)] = list[InHand(u)]
    BY <1>4, PlacesApart
  <2> QED
    BY <1>0, <1>1, <2>1, <2>2 DEF CachesCountTheirSlots
<1>11. \A l \in Places \ A : list'[l] = list[l] /\ Heads'[l] = Heads[l] /\ Owner'[l] = Owner[l]
  <2>1. \A u \in Threads, q \in Pools : InCache(u, q) \notin A => u # t
    OBVIOUS
  <2> SUFFICES ASSUME NEW l \in Places, l \notin A
               PROVE  list'[l] = list[l] /\ Heads'[l] = Heads[l] /\ Owner'[l] = Owner[l]
    OBVIOUS
  <2>3. list'[l] = list[l]
    BY <1>4
  <2>4. CASE \E q \in Pools : l = InPool(q)
    BY <1>1, <2>3, <2>4, HeadsAre
  <2>5. CASE \E u \in Threads, q \in Pools : l = InCache(u, q)
    <3>1. PICK u \in Threads, q \in Pools : l = InCache(u, q)
      BY <2>5
    <3>2. tls_caches'[u][q].head = tls_caches[u][q].head
      BY <1>3, <2>1, <3>1
    <3> QED
      BY <2>3, <3>1, <3>2, HeadsAre
  <2>6. CASE \E u \in Threads : l = InHand(u)
    BY <1>1, <2>3, <2>6, HeadsAre
  <2> QED
    BY <2>4, <2>5, <2>6, PlacesApart
<1>12. Moves(A, M) /\ (\A x \in M : x \in Slots /\ x \in Acquired) /\ \A x : HomeOf(x)' = HomeOf(x)
  <2>1. /\ A \in SUBSET Places
        /\ \A l \in A : ToSet(list[l]) \subseteq M
        /\ \A l \in A : ToSet(list'[l]) \subseteq M
        /\ \A x \in M : x \in held \/ \E l \in A : x \in ToSet(list[l])
    BY <1>4, <1>5, <1>6
  <2>2. \A x \in Slots : x \notin M => /\ link'[x] = link[x]
                                       /\ x \in held' <=> x \in held
                                       /\ x \in stranded' <=> x \in stranded
    BY <1>1
  <2>3. home' = home
    BY <1>1
  <2> HIDE DEF A, M
  <2> QED
    BY <1>11, <2>1, <2>2, <2>3, OwnMoves
<1>13. Arrive(A, M)
  <2>1. \A l \in A : Heads'[l] = Null
    BY <1>2, <1>3, HeadsAre
  <2>2. \A l \in A : Spells(link', Heads'[l], list'[l]) /\ IsInjective(list'[l]) /\ ToSet(list'[l]) = {}
    BY <1>4, <2>1 DEF Spells, First, IsInjective, ToSet
  <2>3. \A x \in M : x \in stranded' /\ x \notin held'
    BY <1>1, <1>7
  <2> HIDE DEF A, M
  <2> QED
    BY <2>2, <2>3 DEF Arrive
<1>14. \A l \in A : \A x \in ToSet(list'[l]) : HomeOf(x)' = Owner'[l]
  BY <1>4, <1>6
<1>15. \A x \in held' : x \in M => link'[x] = HomeOf(x)'
  BY <1>1, <1>7
<1> HIDE DEF A, M
<1> QED
  BY <1>8, <1>9, <1>10, <1>12, <1>13, <1>14, <1>15, StepKept

\* Nothing has been acquired, or all of it was given back.
Nothing ==
  /\ TypeOK /\ home = << >> /\ held = {} /\ stranded = {}
  /\ \A p \in Pools : free_head[p] = Null
  /\ \A l \in Places : list[l] = << >>
  /\ \A t \in Threads : /\ pc[t] = "idle" /\ batch[t] = NoBatch
                        /\ \A p \in Pools : tls_caches[t][p] = EmptyCache

\* With no region and no slot anywhere, the invariant holds.
LEMMA NothingIInv == Nothing => IInv
<1> SUFFICES ASSUME Nothing PROVE IInv
  OBVIOUS
<1>1. /\ EmptyCache.head = Null /\ EmptyCache.tail = Null /\ EmptyCache.count = 0
      /\ NoBatch.head = Null /\ kThreadLocalCacheCap \in Nat
  BY Sizes DEF EmptyCache, NoBatch
<1>2. ToSet(<< >>) = {} /\ Len(<< >>) = 0 /\ IsInjective(<< >>) /\ \A lk : Spells(lk, Null, << >>)
  BY DEF ToSet, IsInjective, Spells, First
<1>3. InOrder
  BY <1>1, Sizes DEF Nothing, InOrder
<1>4. \A l \in Places : Heads[l] = Null /\ ToSet(list[l]) = {}
  <2> SUFFICES ASSUME NEW l \in Places PROVE Heads[l] = Null
    BY <1>2 DEF Nothing
  <2>1. CASE \E p \in Pools : l = InPool(p)
    BY <2>1, HeadsAre DEF Nothing
  <2>2. CASE \E t \in Threads, p \in Pools : l = InCache(t, p)
    BY <1>1, <2>2, HeadsAre DEF Nothing
  <2>3. CASE \E t \in Threads : l = InHand(t)
    BY <1>1, <2>3, HeadsAre DEF Nothing
  <2> QED
    BY <2>1, <2>2, <2>3, PlacesApart
<1>5. Acquired = {}
  <2>1. SlotsPerArena * Len(home) = 0
    BY <1>2, Sizes DEF Nothing
  <2> QED
    BY <2>1 DEF Acquired
<1>6. SlotsInOnePlace
  <2>1. UNION {ToSet(list[l]) : l \in Places} = {}
    BY <1>4
  <2>2. \A l \in Places : Spells(link, Heads[l], list[l]) /\ IsInjective(list[l])
    BY <1>2, <1>4 DEF Nothing
  <2> QED
    BY <1>4, <1>5, <2>1, <2>2 DEF Nothing, SlotsInOnePlace
<1>7. CachesCountTheirSlots
  BY <1>1, <1>2, PlacesApart DEF Nothing, CachesCountTheirSlots
<1>8. SlotsStayWithTheirPool
  BY <1>2, PlacesApart DEF Nothing, SlotsStayWithTheirPool
<1> QED
  BY <1>3, <1>6, <1>7, <1>8 DEF Nothing, IInv

\* The inductive invariant holds when the program starts,
LEMMA InitIInv == Init => IInv
<1> SUFFICES ASSUME Init PROVE Nothing
  BY NothingIInv
<1>1. EmptyCache \in Cache
  BY Sizes DEF EmptyCache, Cache, Count
<1>2. TypeOK
  BY <1>1, NoBatchType, Sizes DEF Init, TypeOK, Word
<1> QED
  BY <1>2 DEF Init, Nothing

\* and after a shutdown, for which the other threads have ended.
LEMMA ShutdownKept ==
  ASSUME IInv, NEW t \in Threads, Shutdown(t)
  PROVE  IInv' /\ TagsKept
<1>0. TypeOK /\ InOrder /\ SlotsInOnePlace /\ CachesCountTheirSlots
  BY DEF IInv
<1>1. /\ alive = {t} /\ pc[t] = "idle" /\ home' = << >>
      /\ link' = [s \in Slots |-> Null] /\ free_head' = [p \in Pools |-> Null]
      /\ tls_caches' = [tls_caches EXCEPT ![t] = [p \in Pools |-> EmptyCache]]
      /\ held' = {} /\ stranded' = {} /\ list' = [l \in Places |-> << >>]
      /\ UNCHANGED <<pc, batch, alive>>
  BY DEF Shutdown
<1>2. EmptyCache \in Cache
  BY Sizes DEF EmptyCache, Cache, Count
<1>3. /\ tls_caches' \in [Threads -> [Pools -> Cache]]
      /\ \A p \in Pools : tls_caches'[t][p] = EmptyCache
      /\ \A u \in Threads : u # t => tls_caches'[u] = tls_caches[u]
  BY <1>0, <1>1, <1>2 DEF TypeOK
<1>4. \A u \in Threads : pc[u] = "idle" /\ batch[u] = NoBatch
  BY <1>0, <1>1 DEF InOrder
\* The caches of threads that have ended are empty.
<1>5. ASSUME NEW u \in Threads, NEW p \in Pools, u # t PROVE tls_caches[u][p] = EmptyCache
  <2> DEFINE c == tls_caches[u][p]
             now == list[InCache(u, p)]
  <2>1. c.head = Null
    BY <1>0, <1>1, <1>5 DEF InOrder
  <2>2. c \in Cache /\ c.count = Len(now) /\ c.head = First(now)
        /\ c.tail = (IF now = << >> THEN Null ELSE Last(now)) /\ now \in Seq(Slots)
    BY OneCache
  <2>3. now = << >>
    BY <2>1, <2>2, FirstSlot
  <2> HIDE DEF c, now
  <2>4. c.count = 0 /\ c.tail = Null
    BY <2>2, <2>3
  <2>5. c = [head |-> Null, tail |-> Null, count |-> 0]
    BY <2>1, <2>2, <2>4 DEF Cache
  <2> QED
    BY <2>5 DEF c, EmptyCache
<1>6. TypeOK'
  BY <1>0, <1>1, <1>3, Sizes DEF TypeOK, Word
<1>7. Nothing'
  <2>1. \A u \in Threads, p \in Pools : tls_caches'[u][p] = EmptyCache
    BY <1>3, <1>5
  <2> QED
    BY <1>1, <1>4, <1>6, <2>1 DEF Nothing
<1>8. Nothing' => IInv'
  BY NothingIInv, PTL
<1> QED
  BY <1>1, <1>7, <1>8 DEF TagsKept

\* Every step keeps the invariant, and the word in front of every slot that
\* stays allocated.
LEMMA NextKept == IInv /\ [Next]_vars => IInv' /\ TagsKept
<1> SUFFICES ASSUME IInv, [Next]_vars PROVE IInv' /\ TagsKept
  OBVIOUS
<1>1. ASSUME NEW t \in Threads, NEW p \in Pools, PooledMalloc(t, p) PROVE IInv' /\ TagsKept
  BY <1>1, PooledMallocKept
<1>2. ASSUME NEW t \in Threads, NEW p \in Pools, MallocHit(t, p) PROVE IInv' /\ TagsKept
  BY <1>2, MallocHitKept
<1>3. ASSUME NEW t \in Threads, NEW p \in Pools, MallocRefill(t, p) PROVE IInv' /\ TagsKept
  BY <1>3, MallocRefillKept
<1>4. ASSUME NEW t \in Threads, NEW s \in held, NEW p \in Pools, PooledFree(t, s, p)
      PROVE  IInv' /\ TagsKept
  BY <1>4, PooledFreeKept
<1>5. ASSUME NEW t \in Threads, NEW s \in held, NEW p \in Pools, FreeToCache(t, s, p)
      PROVE  IInv' /\ TagsKept
  BY <1>5, FreeToCacheKept
<1>6. ASSUME NEW t \in Threads, NEW s \in held, NEW p \in Pools, FreeOverCap(t, s, p)
      PROVE  IInv' /\ TagsKept
  BY <1>6, FreeOverCapKept
<1>7. ASSUME NEW t \in Threads, MallocRefilled(t) PROVE IInv' /\ TagsKept
  BY <1>7, MallocRefilledKept
<1>8. ASSUME NEW t \in Threads, FlushSplice(t) PROVE IInv' /\ TagsKept
  BY <1>8, FlushSpliceKept
<1>9. ASSUME NEW t \in Threads, Start(t) PROVE IInv' /\ TagsKept
  BY <1>9, StartKept
<1>10. ASSUME NEW t \in Threads, Exit(t) PROVE IInv' /\ TagsKept
  BY <1>10, ExitKept
<1>11. ASSUME NEW t \in Threads, Shutdown(t) PROVE IInv' /\ TagsKept
  BY <1>11, ShutdownKept
<1>12. CASE UNCHANGED vars
  <2>1. UNCHANGED <<home, link, free_head, tls_caches, pc, batch, held, alive, stranded, list>>
    BY <1>12 DEF vars
  <2>2. TypeOK' /\ InOrder' /\ CachesCountTheirSlots'
    BY <2>1 DEF IInv, TypeOK, InOrder, CachesCountTheirSlots
  <2>3. SlotsInOnePlace'
    BY <2>1 DEF IInv, SlotsInOnePlace, Acquired, Heads
  <2>4. SlotsStayWithTheirPool'
    BY <2>1 DEF IInv, SlotsStayWithTheirPool, HomeOf
  <2> QED
    BY <2>1, <2>2, <2>3, <2>4 DEF IInv, TagsKept
<1> QED
  BY <1>1, <1>2, <1>3, <1>4, <1>5, <1>6, <1>7, <1>8, <1>9, <1>10, <1>11, <1>12 DEF Next

\* The inductive invariant, from its base and its steps.
LEMMA Invariant == Spec => []IInv
<1>1. Init => IInv
  BY InitIInv
<1>2. IInv /\ [Next]_vars => IInv'
  BY NextKept
<1> QED
  BY <1>1, <1>2, PTL DEF Spec

-----------------------------------------------------------------------------
(* Theorems.                                                               *)

\* memory_pool.cpp and stage 3 of allocator.cpp: every variable has its type,
\* whatever the number of threads, pools and regions, and the batch size.
THEOREM TypeCorrect == Spec => []TypeOK
<1>1. IInv => TypeOK
  BY DEF IInv
<1> QED
  BY <1>1, Invariant, PTL

\* Refills, hits, frees, flushes, ends of threads and shutdowns, interleaved
\* in any way, lose no slot and share none, and the words in front of the
\* slots always spell the lists they belong to.
THEOREM SlotsHaveOnePlace == Spec => []SlotsInOnePlace
<1>1. IInv => SlotsInOnePlace
  BY DEF IInv
<1> QED
  BY <1>1, Invariant, PTL

\* count and tail of each cache and each batch, which flushes and splices go
\* by without looking at the list, are right whenever they are read.
THEOREM CountsAreTrue == Spec => []CachesCountTheirSlots
<1>1. IInv => CachesCountTheirSlots
  BY DEF IInv
<1> QED
  BY <1>1, Invariant, PTL

\* A slot goes back to the pool whose region it was carved from, whoever frees
\* it, and the word in front of its payload says which that is.
THEOREM SlotsReturnHome == Spec => []SlotsStayWithTheirPool
<1>1. IInv => SlotsStayWithTheirPool
  BY DEF IInv
<1> QED
  BY <1>1, Invariant, PTL

\* my_free() and my_realloc() may read the word in front of a payload without
\* a lock: no step of any thread writes it while the slot stays allocated.
THEOREM TagsUndisturbed == Spec => HeldTagsUndisturbed
<1>1. IInv /\ [Next]_vars => [\A s \in held \cap held' : link'[s] = link[s]]_vars
  BY NextKept DEF TagsKept
<1> QED
  BY <1>1, Invariant, PTL DEF Spec, HeldTagsUndisturbed

-----------------------------------------------------------------------------
(* ThreadCaches implements SlotLedger.                                     *)

\* A list has as many slots as it is long.
LEMMA ListSize ==
  ASSUME NEW s \in Seq(Slots), IsInjective(s)
  PROVE  IsFiniteSet(ToSet(s)) /\ Cardinality(ToSet(s)) = Len(s)
<1>1. DOMAIN s = 1..Len(s) /\ Len(s) \in Nat
  BY Positions
<1>2. \A k \in 1..Len(s) : s[k] \in ToSet(s)
  BY Positions
<1>3. s \in [1..Len(s) -> ToSet(s)]
  BY <1>1, <1>2
<1>4. \A k, m \in 1..Len(s) : s[k] = s[m] => k = m
  BY Positions
<1>5. \A x \in ToSet(s) : \E k \in 1..Len(s) : s[k] = x
  BY Positions
<1>6. s \in Bijection(1..Len(s), ToSet(s))
  BY <1>3, <1>4, <1>5 DEF Bijection, Injection, Surjection
<1>7. ExistsBijection(1..Len(s), ToSet(s))
  BY <1>6 DEF ExistsBijection
<1>8. IsFiniteSet(1..Len(s))
  BY <1>1, FS_Interval
<1> QED
  BY <1>1, <1>7, <1>8, FS_CountingElements, FS_Bijection

\* The regions of the ledger are those that the slots are of.
LEMMA LedgerSlots ==
  /\ Ledger!Slots = Slots
  /\ \A k \in Nat : k + 1 <= MaxArenas => Region(k + 1) \in LedgerRegions
<1>1. LedgerRegions = {Region(r) : r \in 1..MaxArenas}
  BY DEF LedgerRegions, Region
<1>2. MaxArenas \in Nat
  BY Sizes
<1>3. ASSUME NEW s \in UNION LedgerRegions PROVE s \in Slots
  <2>1. PICK r \in 1..MaxArenas : s \in Region(r)
    BY <1>1
  <2>2. r - 1 \in Nat /\ r - 1 + 1 = r /\ r <= MaxArenas
    BY <1>2
  <2>3. Region(r - 1 + 1) \subseteq Slots
    BY <2>2, NextRegion
  <2> QED
    BY <2>1, <2>2, <2>3
<1>4. ASSUME NEW s \in Slots PROVE s \in UNION LedgerRegions
  <2>1. s \in Nat \ {0}
    BY DEF Slots
  <2>2. IndexOf(s) \in Nat \ {0} /\ s \in Region(IndexOf(s)) /\ IndexOf(s) <= MaxArenas
    BY <1>2, <2>1, SlotRegion DEF Slots
  <2>3. IndexOf(s) \in 1..MaxArenas
    BY <1>2, <2>2
  <2> QED
    BY <1>1, <2>2, <2>3
<1>5. \A k \in Nat : k + 1 <= MaxArenas => k + 1 \in 1..MaxArenas
  BY <1>2
<1> QED
  BY <1>1, <1>3, <1>4, <1>5 DEF Ledger!Slots

\* The ledger counts the way this module does.
LEMMA LedgerCounts == \A S : Ledger!Cardinality(S) = Cardinality(S)
BY DEF Ledger!Cardinality, Cardinality

\* Entry by entry, before and after a step.
LEMMA LedgerEntries ==
  /\ \A s \in Slots : /\ LedgerHome[s] = IF s \in Acquired THEN HomeOf(s) ELSE Null
                      /\ LedgerHome'[s] = IF s \in Acquired' THEN HomeOf(s)' ELSE Null
  /\ \A p \in Pools : /\ LedgerLists[p] = ToSet(list[InPool(p)])
                      /\ LedgerLists'[p] = ToSet(list'[InPool(p)])
                      /\ LedgerHeld[p] = {s \in held : link[s] = p}
                      /\ LedgerHeld'[p] = {s \in held' : link'[s] = p}
  /\ \A t \in Threads, p \in Pools : /\ LedgerCaches[t][p] = ToSet(list[InCache(t, p)])
                                     /\ LedgerCaches'[t][p] = ToSet(list'[InCache(t, p)])
  /\ \A t \in Threads :
       /\ LedgerHand[t] = [what |-> pc[t], pool |-> batch[t].pool, slots |-> ToSet(list[InHand(t)])]
       /\ LedgerHand'[t] = [what |-> pc'[t], pool |-> batch'[t].pool, slots |-> ToSet(list'[InHand(t)])]
BY DEF LedgerHome, LedgerLists, LedgerCaches, LedgerHand, LedgerHeld

\* No region was needed.
LEMMA HomesSame ==
  ASSUME home' = home
  PROVE  LedgerHome' = LedgerHome
BY DEF LedgerHome, Acquired, HomeOf

\* The list of one pool has changed, or of none.
LEMMA ListsSame ==
  ASSUME \A q \in Pools : list'[InPool(q)] = list[InPool(q)]
  PROVE  LedgerLists' = LedgerLists
BY DEF LedgerLists

\* The free list of one pool has changed.
LEMMA ListsWritten ==
  ASSUME NEW p \in Pools, \A q \in Pools : q # p => list'[InPool(q)] = list[InPool(q)],
         NEW S, ToSet(list'[InPool(p)]) = S
  PROVE  LedgerLists' = [LedgerLists EXCEPT ![p] = S]
BY DEF LedgerLists

\* One cache has changed, or none.
LEMMA CachesSame ==
  ASSUME \A u \in Threads, q \in Pools : list'[InCache(u, q)] = list[InCache(u, q)]
  PROVE  LedgerCaches' = LedgerCaches
BY DEF LedgerCaches

\* The cache of one thread for one pool has changed.
LEMMA CachesWritten ==
  ASSUME NEW t \in Threads, NEW p \in Pools,
         \A u \in Threads, q \in Pools : u # t \/ q # p => list'[InCache(u, q)] = list[InCache(u, q)],
         NEW S, ToSet(list'[InCache(t, p)]) = S
  PROVE  LedgerCaches' = [LedgerCaches EXCEPT ![t][p] = S]
<1>1. ASSUME NEW u \in Threads
      PROVE  LedgerCaches'[u] = IF u = t THEN [LedgerCaches[t] EXCEPT ![p] = S] ELSE LedgerCaches[u]
  BY DEF LedgerCaches
<1>2. LedgerCaches' = [u \in Threads |-> LedgerCaches'[u]] /\ LedgerCaches = [u \in Threads |-> LedgerCaches[u]]
  BY DEF LedgerCaches
<1> QED
  BY <1>1, <1>2

\* One thread has something else in hand, or none has.
LEMMA HandsSame ==
  ASSUME pc' = pc, batch' = batch, \A u \in Threads : list'[InHand(u)] = list[InHand(u)]
  PROVE  LedgerHand' = LedgerHand
BY DEF LedgerHand

\* What one thread has in hand has changed.
LEMMA HandsWritten ==
  ASSUME NEW t \in Threads,
         \A u \in Threads : u # t => /\ pc'[u] = pc[u] /\ batch'[u] = batch[u]
                                     /\ list'[InHand(u)] = list[InHand(u)],
         NEW h, h = [what |-> pc'[t], pool |-> batch'[t].pool, slots |-> ToSet(list'[InHand(t)])]
  PROVE  LedgerHand' = [LedgerHand EXCEPT ![t] = h]
BY DEF LedgerHand

\* What callers hold of a pool, slot by slot.
LEMMA HeldEntries ==
  ASSUME TagsKept, NEW q \in Pools
  PROVE  /\ \A s : s \in LedgerHeld[q] <=> s \in held /\ link[s] = q
         /\ \A s : s \in LedgerHeld'[q] <=> s \in held' /\ link'[s] = q
         /\ \A s : s \in held /\ s \in held' => link'[s] = link[s]
<1>1. LedgerHeld[q] = {s \in held : link[s] = q} /\ LedgerHeld'[q] = {s \in held' : link'[s] = q}
  BY LedgerEntries
<1>2. \A s : s \in held /\ s \in held' => link'[s] = link[s]
  BY DEF TagsKept
<1> QED
  BY <1>1, <1>2

\* A caller gets a slot, whose word names p; or gives it back.
LEMMA HeldMore ==
  ASSUME TagsKept, NEW p \in Pools, NEW x, x \notin held, held' = held \cup {x}, link'[x] = p
  PROVE  LedgerHeld' = [LedgerHeld EXCEPT ![p] = LedgerHeld[p] \cup {x}]
<1>1. ASSUME NEW q \in Pools
      PROVE  LedgerHeld'[q] = IF q = p THEN LedgerHeld[p] \cup {x} ELSE LedgerHeld[q]
  <2> DEFINE B == LedgerHeld[q]
             C == LedgerHeld'[q]
  <2>1. /\ \A s : s \in B <=> s \in held /\ link[s] = q
        /\ \A s : s \in C <=> s \in held' /\ link'[s] = q
        /\ \A s : s \in held /\ s \in held' => link'[s] = link[s]
    BY HeldEntries
  <2>2. q = p => B = LedgerHeld[p]
    OBVIOUS
  <2> HIDE DEF B, C
  <2>3. C = IF q = p THEN B \cup {x} ELSE B
    BY <2>1
  <2> QED
    BY <2>2, <2>3 DEF B, C
<1>2. LedgerHeld' = [q \in Pools |-> LedgerHeld'[q]] /\ LedgerHeld = [q \in Pools |-> LedgerHeld[q]]
  BY DEF LedgerHeld
<1> QED
  BY <1>1, <1>2

\* One slot is no longer with a caller.
LEMMA HeldLess ==
  ASSUME TagsKept, NEW p \in Pools, NEW x \in held, held' = held \ {x}, link[x] = p
  PROVE  LedgerHeld' = [LedgerHeld EXCEPT ![p] = LedgerHeld[p] \ {x}] /\ x \in LedgerHeld[p]
<1>1. ASSUME NEW q \in Pools
      PROVE  LedgerHeld'[q] = IF q = p THEN LedgerHeld[p] \ {x} ELSE LedgerHeld[q]
  <2> DEFINE B == LedgerHeld[q]
             C == LedgerHeld'[q]
  <2>1. /\ \A s : s \in B <=> s \in held /\ link[s] = q
        /\ \A s : s \in C <=> s \in held' /\ link'[s] = q
        /\ \A s : s \in held /\ s \in held' => link'[s] = link[s]
    BY HeldEntries
  <2>2. q = p => B = LedgerHeld[p]
    OBVIOUS
  <2> HIDE DEF B, C
  <2>3. C = IF q = p THEN B \ {x} ELSE B
    BY <2>1
  <2> QED
    BY <2>2, <2>3 DEF B, C
<1>2. LedgerHeld' = [q \in Pools |-> LedgerHeld'[q]] /\ LedgerHeld = [q \in Pools |-> LedgerHeld[q]]
  BY DEF LedgerHeld
<1>3. x \in LedgerHeld[p]
  BY HeldEntries
<1> QED
  BY <1>1, <1>2, <1>3

\* Callers hold what they held.
LEMMA HeldSame ==
  ASSUME TagsKept, held' = held
  PROVE  LedgerHeld' = LedgerHeld
<1>1. ASSUME NEW q \in Pools PROVE LedgerHeld'[q] = LedgerHeld[q]
  <2> DEFINE B == LedgerHeld[q]
             C == LedgerHeld'[q]
  <2>1. /\ \A s : s \in B <=> s \in held /\ link[s] = q
        /\ \A s : s \in C <=> s \in held' /\ link'[s] = q
        /\ \A s : s \in held /\ s \in held' => link'[s] = link[s]
    BY HeldEntries
  <2> HIDE DEF B, C
  <2>2. C = B
    BY <2>1
  <2> QED
    BY <2>2 DEF B, C
<1>2. LedgerHeld' = [q \in Pools |-> LedgerHeld'[q]] /\ LedgerHeld = [q \in Pools |-> LedgerHeld[q]]
  BY DEF LedgerHeld
<1> QED
  BY <1>1, <1>2

\* A thread that is in no call is idle in the ledger too.
LEMMA LedgerIdle ==
  ASSUME NEW t \in Threads
  PROVE  Ledger!Idle(t) <=> pc[t] = "idle"
<1>1. LedgerHand[t].what = pc[t]
  BY DEF LedgerHand
<1> QED
  BY <1>1 DEF Ledger!Idle

\* What a pool gains.
LEMMA Gained ==
  ASSUME IInv, NEW p \in Pools, NEW n, NEW b, NEW new, Handed(p, n, b, new), TakeOut(p, b),
         new = {} \/ (Len(home) < MaxArenas /\ new = Region(Len(home) + 1))
  PROVE  new \in Ledger!Gains /\ Ledger!Expanded(p, new)
<1>0. TypeOK /\ SlotsInOnePlace
  BY DEF IInv
<1>1. new \in Ledger!Gains
  <2>1. CASE new = {}
    <3>1. {} \in SUBSET Ledger!Fresh /\ new = UNION {}
      BY <2>1
    <3> QED
      BY <3>1 DEF Ledger!Gains
  <2>2. CASE Len(home) < MaxArenas /\ new = Region(Len(home) + 1)
    <3>1. Len(home) \in Nat /\ Len(home) + 1 <= MaxArenas
      BY <1>0, <2>2, Sizes DEF TypeOK
    <3>2. new \in LedgerRegions
      BY <2>2, <3>1, LedgerSlots
    <3>3. \A s \in new : s \in Slots /\ s \notin Acquired
      BY DEF Handed
    <3>4. \A s \in new : LedgerHome[s] = Null
      BY <3>3, LedgerEntries
    <3>5. {new} \in SUBSET Ledger!Fresh /\ new = UNION {new}
      BY <3>2, <3>4 DEF Ledger!Fresh
    <3> QED
      BY <3>5 DEF Ledger!Gains
  <2> QED
    BY <2>1, <2>2
<1>2. /\ Acquired' = Acquired \cup new /\ \A s \in Acquired : HomeOf(s)' = HomeOf(s)
      /\ \A s \in new : HomeOf(s)' = p
  BY TakenOut
<1>3. \A s \in new : s \notin Acquired
  BY DEF Handed
<1>4. ASSUME NEW s \in Slots PROVE LedgerHome'[s] = IF s \in new THEN p ELSE LedgerHome[s]
  BY <1>2, <1>3, LedgerEntries
<1>5. LedgerHome' = [s \in Slots |-> LedgerHome'[s]]
  BY DEF LedgerHome
<1>6. Ledger!Expanded(p, new)
  BY <1>4, <1>5, LedgerSlots DEF Ledger!Expanded
<1> QED
  BY <1>1, <1>6

\* allocate() for a caller.
LEMMA PooledMallocMaps ==
  ASSUME IInv, TagsKept, NEW t \in Threads, NEW p \in Pools, PooledMalloc(t, p)
  PROVE  Ledger!PooledMalloc(p)
<1>0. TypeOK /\ SlotsInOnePlace
  BY DEF IInv
<1>1. PICK b \in allocate_batch(p, 1) :
        /\ TakeOut(p, b)
        /\ link' = Tagged(b.lk, Head(b.got), p)
        /\ held' = held \cup {Head(b.got)}
        /\ list' = [list EXCEPT ![InPool(p)] = b.left]
  BY DEF PooledMalloc
<1>2. pc' = pc /\ batch' = batch /\ stranded' = stranded
  BY DEF PooledMalloc, threads
<1>3. PICK new : /\ Handed(p, 1, b, new)
                 /\ new = {} \/ (Len(home) < MaxArenas /\ new = Region(Len(home) + 1))
  <2>1. 1 \in Nat \ {0} /\ 1 <= SlotsPerArena
    BY Sizes
  <2> QED
    BY <1>0, <2>1, WhatIsHanded, Zenon
<1>4. new \in Ledger!Gains /\ Ledger!Expanded(p, new)
  <2>1. TakeOut(p, b)
    BY <1>1
  <2>2. Handed(p, 1, b, new)
    BY <1>3
  <2>3. new = {} \/ (Len(home) < MaxArenas /\ new = Region(Len(home) + 1))
    BY <1>3
  <2> QED
    BY <2>1, <2>2, <2>3, Gained
<1> DEFINE x == Head(b.got)
<1>5. x \in Slots /\ ToSet(b.got) = {x} /\ b.lk \in [Slots -> Word]
  <2> DEFINE m == Len(b.got)
             got == b.got
  <2>1. got \in Seq(Slots) /\ got # << >> /\ m <= 1 /\ m = Len(got)
    BY <1>3 DEF Handed
  <2>2. b.lk \in [Slots -> Word]
    BY <1>3 DEF Handed
  <2>3. x = Head(got)
    OBVIOUS
  <2> HIDE DEF x, m, got
  <2>4. m \in Nat \ {0} /\ x = got[1] /\ x \in Slots
    BY <2>1, <2>3, FirstSlot
  <2>5. m = 1
    BY <2>1, <2>4
  <2>6. ToSet(got) = {x}
    <3>1. /\ \A k \in 1..m : got[k] \in ToSet(got)
          /\ \A y \in ToSet(got) : \E k \in 1..m : got[k] = y
      BY <2>1, Positions
    <3> QED
      BY <2>4, <2>5, <3>1
  <2> QED
    BY <2>2, <2>4, <2>6 DEF got
<1>6. /\ \A s : s \in ToSet(b.got) \/ s \in ToSet(b.left) <=> s \in ToSet(list[InPool(p)]) \cup new
      /\ \A s \in ToSet(list[InPool(p)]) \cup new : s \notin held
      /\ \A s \in ToSet(b.got) : s \notin ToSet(b.left)
  BY <1>1, <1>3, TakenOut
<1>7. LedgerLists[p] = ToSet(list[InPool(p)])
  BY LedgerEntries
<1>8. x \in LedgerLists[p] \cup new /\ x \notin held
  BY <1>5, <1>6, <1>7
<1>9. held' = held \cup {x} /\ link'[x] = p
  BY <1>1, <1>5 DEF Tagged
<1>10. /\ list'[InPool(p)] = b.left
       /\ \A l \in Places : l # InPool(p) => list'[l] = list[l]
  BY <1>0, <1>1, PlacesApart DEF TypeOK
<1> HIDE DEF x
<1>11. LedgerLists' = [LedgerLists EXCEPT ![p] = (LedgerLists[p] \cup new) \ {x}]
  <2>1. ToSet(b.left) = (LedgerLists[p] \cup new) \ {x}
    BY <1>5, <1>6, <1>7
  <2>2. \A q \in Pools : q # p => list'[InPool(q)] = list[InPool(q)]
    BY <1>10, PlacesApart
  <2> QED
    BY <1>10, <2>1, <2>2, ListsWritten
<1>12. LedgerCaches' = LedgerCaches
  BY <1>10, CachesSame, PlacesApart
<1>13. LedgerHand' = LedgerHand
  BY <1>2, <1>10, HandsSame, PlacesApart
<1>14. LedgerHeld' = [LedgerHeld EXCEPT ![p] = LedgerHeld[p] \cup {x}]
  BY <1>8, <1>9, HeldMore
<1> QED
  BY <1>2, <1>4, <1>8, <1>11, <1>12, <1>13, <1>14 DEF Ledger!PooledMalloc

\* deallocate() for a caller.
LEMMA PooledFreeMaps ==
  ASSUME IInv, TagsKept, NEW t \in Threads, NEW s \in held, NEW p \in Pools, PooledFree(t, s, p)
  PROVE  Ledger!PooledFree(p, s) /\ s \in LedgerHeld[p]
<1> DEFINE now == list[InPool(p)]
<1>0. TypeOK /\ SlotsInOnePlace
  BY DEF IInv
<1>1. /\ Routed(s, p) /\ held' = held \ {s} /\ list' = [list EXCEPT ![InPool(p)] = Cons(s, now)]
      /\ home' = home /\ pc' = pc /\ batch' = batch /\ stranded' = stranded
  BY DEF PooledFree, threads
<1>2. link[s] = p /\ s \in Slots /\ s \notin ToSet(now)
  BY <1>1, RoutedSlot, PlacesApart DEF Routed
<1>3. now \in Seq(Slots) /\ IsInjective(now) /\ Spells(link, free_head[p], now) /\ link \in [Slots -> Word]
  BY <1>0, PlacesApart, OneList, HeadsAre DEF TypeOK
<1>4. ToSet(Cons(s, now)) = ToSet(now) \cup {s}
  BY <1>2, <1>3, ConsSpells
<1>5. /\ list'[InPool(p)] = Cons(s, now)
      /\ \A l \in Places : l # InPool(p) => list'[l] = list[l]
  BY <1>0, <1>1, PlacesApart DEF TypeOK
<1>6. LedgerLists' = [LedgerLists EXCEPT ![p] = LedgerLists[p] \cup {s}]
  <2>1. LedgerLists[p] = ToSet(now)
    BY LedgerEntries
  <2>2. \A q \in Pools : q # p => list'[InPool(q)] = list[InPool(q)]
    BY <1>5, PlacesApart
  <2> QED
    BY <1>4, <1>5, <2>1, <2>2, ListsWritten
<1>7. LedgerCaches' = LedgerCaches
  BY <1>5, CachesSame, PlacesApart
<1>8. LedgerHand' = LedgerHand
  BY <1>1, <1>5, HandsSame, PlacesApart
<1>9. LedgerHeld' = [LedgerHeld EXCEPT ![p] = LedgerHeld[p] \ {s}] /\ s \in LedgerHeld[p]
  BY <1>1, <1>2, HeldLess
<1>10. LedgerHome' = LedgerHome
  BY <1>1, HomesSame
<1> QED
  BY <1>1, <1>6, <1>7, <1>8, <1>9, <1>10 DEF Ledger!PooledFree

\* A hit: the first slot of the cache goes to the caller.
LEMMA MallocHitMaps ==
  ASSUME IInv, TagsKept, NEW t \in Threads, NEW p \in Pools, MallocHit(t, p)
  PROVE  \E s \in LedgerCaches[t][p] : Ledger!MallocHit(t, p, s)
<1> DEFINE now == list[InCache(t, p)]
           x == tls_caches[t][p].head
<1>0. TypeOK /\ SlotsInOnePlace
  BY DEF IInv
<1>1. /\ pc[t] = "idle" /\ x # Null
      /\ link' = Tagged(link, x, p) /\ held' = held \cup {x}
      /\ list' = [list EXCEPT ![InCache(t, p)] = Tail(now)]
      /\ home' = home /\ pc' = pc /\ batch' = batch /\ stranded' = stranded
  BY DEF MallocHit, pop_from_cache, Idle, threads
<1>2. /\ now \in Seq(Slots) /\ IsInjective(now) /\ Spells(link, x, now) /\ now # << >>
      /\ \A s \in ToSet(now) : s \notin held
  BY <1>0, <1>1, PlacesApart, OneList, HeadsAre
<1> HIDE DEF x
<1>3. x \in Slots /\ x \in ToSet(now) /\ ToSet(Tail(now)) = ToSet(now) \ {x}
  BY <1>2, TailSpells
<1>4. x \notin held /\ link'[x] = p
  BY <1>0, <1>1, <1>2, <1>3 DEF TypeOK, Tagged
<1>5. /\ list'[InCache(t, p)] = Tail(now)
      /\ \A l \in Places : l # InCache(t, p) => list'[l] = list[l]
  BY <1>0, <1>1, PlacesApart DEF TypeOK
<1>6. LedgerCaches[t][p] = ToSet(now)
  BY LedgerEntries
<1>7. LedgerCaches' = [LedgerCaches EXCEPT ![t][p] = LedgerCaches[t][p] \ {x}]
  <2>1. \A u \in Threads, q \in Pools : u # t \/ q # p => list'[InCache(u, q)] = list[InCache(u, q)]
    BY <1>5, PlacesApart
  <2> QED
    BY <1>3, <1>5, <1>6, <2>1, CachesWritten
<1>8. LedgerLists' = LedgerLists
  BY <1>5, ListsSame, PlacesApart
<1>9. LedgerHand' = LedgerHand
  BY <1>1, <1>5, HandsSame, PlacesApart
<1>10. LedgerHeld' = [LedgerHeld EXCEPT ![p] = LedgerHeld[p] \cup {x}]
  BY <1>1, <1>4, HeldMore
<1>11. LedgerHome' = LedgerHome /\ Ledger!Idle(t) /\ x \in LedgerCaches[t][p]
  BY <1>1, <1>3, <1>6, HomesSame, LedgerIdle
<1>12. Ledger!MallocHit(t, p, x)
  BY <1>1, <1>7, <1>8, <1>9, <1>10, <1>11 DEF Ledger!MallocHit
<1> QED
  BY <1>11, <1>12

\* The mutex is held: a batch goes to an empty cache's thread.
LEMMA MallocRefillMaps ==
  ASSUME IInv, TagsKept, NEW t \in Threads, NEW p \in Pools, MallocRefill(t, p)
  PROVE  Ledger!MallocRefill(t, p)
<1> DEFINE n == kThreadLocalCacheBatchSize
<1>0. TypeOK /\ SlotsInOnePlace
  BY DEF IInv
<1>1. PICK b \in allocate_batch(p, n) :
        /\ TakeOut(p, b)
        /\ batch' = [batch EXCEPT ![t] = [pool |-> p, head |-> Head(b.got),
                                          tail |-> Last(b.got), count |-> Len(b.got)]]
        /\ list' = [list EXCEPT ![InPool(p)] = b.left, ![InHand(t)] = b.got]
  BY DEF MallocRefill
<1>2. /\ pc[t] = "idle" /\ tls_caches[t][p].head = Null
      /\ pc' = [pc EXCEPT ![t] = "refill"] /\ held' = held /\ stranded' = stranded
  BY DEF MallocRefill, Idle, threads
<1>3. n \in Nat \ {0} /\ n <= SlotsPerArena
  BY Sizes
<1> HIDE DEF n
<1>4. PICK new : /\ Handed(p, n, b, new)
                 /\ new = {} \/ (Len(home) < MaxArenas /\ new = Region(Len(home) + 1))
  BY <1>0, <1>3, WhatIsHanded, Zenon
<1>5. new \in Ledger!Gains /\ Ledger!Expanded(p, new)
  <2>1. TakeOut(p, b)
    BY <1>1
  <2>2. Handed(p, n, b, new)
    BY <1>4
  <2>3. new = {} \/ (Len(home) < MaxArenas /\ new = Region(Len(home) + 1))
    BY <1>4
  <2> QED
    BY <2>1, <2>2, <2>3, Gained
<1> DEFINE got == b.got
           left == b.left
           k == Len(got)
<1>6. /\ got \in Seq(Slots) /\ IsInjective(got) /\ got # << >> /\ k <= n /\ k = Len(got)
      /\ ToSet(got) \cap ToSet(left) = {}
      /\ ToSet(got) \cup ToSet(left) = ToSet(list[InPool(p)]) \cup new
  BY <1>4 DEF Handed
<1>7. list' = [list EXCEPT ![InPool(p)] = left, ![InHand(t)] = got]
  BY <1>1
<1> HIDE DEF got, left, k
<1>8. Cardinality(ToSet(got)) \in 1..n
  <2>1. k \in Nat \ {0} /\ Cardinality(ToSet(got)) = k
    BY <1>6, FirstSlot, ListSize
  <2> QED
    BY <1>3, <1>6, <2>1
<1>9. LedgerLists[p] = ToSet(list[InPool(p)]) /\ LedgerCaches[t][p] = ToSet(list[InCache(t, p)])
  BY LedgerEntries
<1>10. ToSet(got) \in SUBSET (LedgerLists[p] \cup new)
  BY <1>6, <1>9
<1>11. LedgerCaches[t][p] = {}
  <2>1. InCache(t, p) \in Places /\ Heads[InCache(t, p)] = Null
    BY <1>2, PlacesApart, HeadsAre
  <2>2. list[InCache(t, p)] = << >>
    BY <1>0, <2>1, OneList
  <2> QED
    BY <1>9, <2>2 DEF ToSet
<1>12. InPool(p) \in Places /\ InHand(t) \in Places /\ InPool(p) # InHand(t)
  BY PlacesApart
<1>13. /\ list'[InPool(p)] = left /\ list'[InHand(t)] = got
       /\ \A l \in Places : l # InPool(p) /\ l # InHand(t) => list'[l] = list[l]
  <2>1. list \in [Places -> Seq(Slots)]
    BY <1>0 DEF TypeOK
  <2> QED
    BY <1>7, <1>12, <2>1
<1>14. LedgerLists' = [LedgerLists EXCEPT ![p] = (LedgerLists[p] \cup new) \ ToSet(got)]
  <2>1. ToSet(left) = (LedgerLists[p] \cup new) \ ToSet(got)
    BY <1>6, <1>9
  <2>2. \A q \in Pools : q # p => list'[InPool(q)] = list[InPool(q)]
    BY <1>13, PlacesApart
  <2> QED
    BY <1>13, <2>1, <2>2, ListsWritten
<1>15. LedgerCaches' = LedgerCaches
  BY <1>13, CachesSame, PlacesApart
<1>16. LedgerHand' = [LedgerHand EXCEPT ![t] = [what |-> "refill", pool |-> p, slots |-> ToSet(got)]]
  <2>1. pc'[t] = "refill" /\ batch'[t].pool = p
        /\ \A u \in Threads : u # t => pc'[u] = pc[u] /\ batch'[u] = batch[u]
    BY <1>0, <1>1, <1>2 DEF TypeOK
  <2>2. \A u \in Threads : u # t => list'[InHand(u)] = list[InHand(u)]
    BY <1>13, PlacesApart
  <2> QED
    BY <1>13, <2>1, <2>2, HandsWritten
<1>17. LedgerHeld' = LedgerHeld
  BY <1>2, HeldSame
<1>18. Ledger!Idle(t)
  BY <1>2, LedgerIdle
<1>19. \E c \in SUBSET (LedgerLists[p] \cup new) :
         /\ Cardinality(c) \in 1..n
         /\ LedgerLists' = [LedgerLists EXCEPT ![p] = (LedgerLists[p] \cup new) \ c]
         /\ LedgerHand' = [LedgerHand EXCEPT ![t] = [what |-> "refill", pool |-> p, slots |-> c]]
  <2> WITNESS ToSet(got) \in SUBSET (LedgerLists[p] \cup new)
  <2> QED
    BY <1>8, <1>14, <1>16
<1> QED
  BY <1>2, <1>5, <1>11, <1>15, <1>17, <1>18, <1>19, LedgerCounts DEF Ledger!MallocRefill, n

\* The batch becomes the cache, without the slot that the caller gets.
LEMMA MallocRefilledMaps ==
  ASSUME IInv, TagsKept, NEW t \in Threads, MallocRefilled(t)
  PROVE  \E s \in LedgerHand[t].slots : Ledger!MallocRefilled(t, s)
<1> DEFINE p == batch[t].pool
           x == batch[t].head
           now == list[InHand(t)]
<1>0. TypeOK /\ InOrder /\ SlotsInOnePlace
  BY DEF IInv
<1>1. /\ pc[t] = "refill" /\ link' = Tagged(link, x, p) /\ held' = held \cup {x}
      /\ list' = [list EXCEPT ![InCache(t, p)] = Tail(now), ![InHand(t)] = << >>]
      /\ pc' = [pc EXCEPT ![t] = "idle"] /\ batch' = [batch EXCEPT ![t] = NoBatch]
      /\ home' = home /\ stranded' = stranded
  BY DEF MallocRefilled, pop_from_cache, threads
<1>2. /\ p \in Pools /\ now \in Seq(Slots) /\ IsInjective(now) /\ now # << >> /\ Spells(link, x, now)
  BY <1>1, OneHand
<1>3. InCache(t, p) \in Places /\ InHand(t) \in Places /\ InCache(t, p) # InHand(t)
  BY <1>2, PlacesApart
<1>4. \A s \in ToSet(now) : s \notin held
  BY <1>0, <1>3, OneList
<1>5. list[InCache(t, p)] = << >>
  <2>1. tls_caches[t][p].head = Null
    BY <1>0, <1>1 DEF InOrder
  <2>2. Heads[InCache(t, p)] = Null
    BY <1>2, <2>1, HeadsAre
  <2> QED
    BY <1>0, <1>3, <2>2, OneList
<1>6. LedgerHand[t] = [what |-> "refill", pool |-> p, slots |-> ToSet(now)]
  BY <1>1, LedgerEntries
<1>7. LedgerCaches[t][p] = {}
  BY <1>2, <1>5, LedgerEntries DEF ToSet
<1> HIDE DEF x, p, now
<1>8. x \in Slots /\ x \in ToSet(now) /\ ToSet(Tail(now)) = ToSet(now) \ {x}
  BY <1>2, TailSpells
<1>9. x \notin held /\ link'[x] = p
  BY <1>0, <1>1, <1>4, <1>8 DEF TypeOK, Tagged
<1>10. /\ list'[InCache(t, p)] = Tail(now) /\ list'[InHand(t)] = << >>
       /\ \A l \in Places : l # InCache(t, p) /\ l # InHand(t) => list'[l] = list[l]
  <2>1. list \in [Places -> Seq(Slots)]
    BY <1>0 DEF TypeOK
  <2> QED
    BY <1>1, <1>3, <2>1
<1>11. LedgerCaches' = [LedgerCaches EXCEPT ![t][p] = LedgerCaches[t][p] \cup (ToSet(now) \ {x})]
  <2>1. \A u \in Threads, q \in Pools : u # t \/ q # p => list'[InCache(u, q)] = list[InCache(u, q)]
    BY <1>2, <1>10, PlacesApart
  <2>2. ToSet(list'[InCache(t, p)]) = LedgerCaches[t][p] \cup (ToSet(now) \ {x})
    BY <1>7, <1>8, <1>10
  <2> QED
    BY <1>2, <2>1, <2>2, CachesWritten
<1>12. LedgerLists' = LedgerLists
  BY <1>2, <1>10, ListsSame, PlacesApart
<1>13. LedgerHand' = [LedgerHand EXCEPT ![t] = Ledger!Empty]
  <2>1. pc'[t] = "idle" /\ batch'[t] = NoBatch
        /\ \A u \in Threads : u # t => pc'[u] = pc[u] /\ batch'[u] = batch[u]
    BY <1>0, <1>1 DEF TypeOK
  <2>2. \A u \in Threads : u # t => list'[InHand(u)] = list[InHand(u)]
    BY <1>2, <1>10, PlacesApart
  <2>3. ToSet(list'[InHand(t)]) = {} /\ batch'[t].pool = Null
    BY <1>10, <2>1 DEF NoBatch, ToSet
  <2>4. Ledger!Empty = [what |-> pc'[t], pool |-> batch'[t].pool, slots |-> ToSet(list'[InHand(t)])]
    BY <2>1, <2>3 DEF Ledger!Empty
  <2> QED
    BY <2>1, <2>2, <2>4, HandsWritten
<1>14. LedgerHeld' = [LedgerHeld EXCEPT ![p] = LedgerHeld[p] \cup {x}]
  BY <1>1, <1>2, <1>9, HeldMore
<1>15. LedgerHome' = LedgerHome
  BY <1>1, HomesSame
<1>16. Ledger!Cached(LedgerHand[t], x) = ToSet(now) \ {x}
  BY <1>6 DEF Ledger!Cached
<1>17. LedgerHand[t].what = "refill" /\ LedgerHand[t].pool = p /\ x \in LedgerHand[t].slots
  BY <1>6, <1>8
<1>18. Ledger!MallocRefilled(t, x)
  BY <1>1, <1>11, <1>12, <1>13, <1>14, <1>15, <1>16, <1>17 DEF Ledger!MallocRefilled
<1> QED
  BY <1>17, <1>18

\* The batch goes back to the pool.
LEMMA FlushSpliceMaps ==
  ASSUME IInv, TagsKept, NEW t \in Threads, FlushSplice(t)
  PROVE  Ledger!FlushSplice(t)
<1> DEFINE p == batch[t].pool
           w == list[InHand(t)]
           now == list[InPool(p)]
<1>0. TypeOK /\ SlotsInOnePlace
  BY DEF IInv
<1>1. /\ pc[t] = "flush" /\ held' = held
      /\ list' = [list EXCEPT ![InPool(p)] = w \o now, ![InHand(t)] = << >>]
      /\ pc' = [pc EXCEPT ![t] = "idle"] /\ batch' = [batch EXCEPT ![t] = NoBatch]
      /\ home' = home /\ stranded' = stranded
  BY DEF FlushSplice, threads
<1>2. p \in Pools /\ w \in Seq(Slots) /\ IsInjective(w)
  BY <1>1, OneHand
<1>3. InPool(p) \in Places /\ InHand(t) \in Places /\ InPool(p) # InHand(t)
  BY <1>2, PlacesApart
<1>4. now \in Seq(Slots) /\ IsInjective(now) /\ ToSet(w) \cap ToSet(now) = {}
  BY <1>0, <1>3, OneList DEF SlotsInOnePlace
<1>5. LedgerHand[t] = [what |-> "flush", pool |-> p, slots |-> ToSet(w)]
  BY <1>1, LedgerEntries
<1>6. LedgerLists[p] = ToSet(now)
  BY <1>2, LedgerEntries
<1> HIDE DEF p, w, now
<1>7. ToSet(w \o now) = LedgerLists[p] \cup ToSet(w)
  BY <1>2, <1>4, <1>6, Joined
<1>8. /\ list'[InPool(p)] = w \o now /\ list'[InHand(t)] = << >>
      /\ \A l \in Places : l # InPool(p) /\ l # InHand(t) => list'[l] = list[l]
  <2>1. list \in [Places -> Seq(Slots)]
    BY <1>0 DEF TypeOK
  <2> QED
    BY <1>1, <1>3, <2>1
<1>9. LedgerLists' = [LedgerLists EXCEPT ![p] = LedgerLists[p] \cup ToSet(w)]
  <2>1. \A q \in Pools : q # p => list'[InPool(q)] = list[InPool(q)]
    BY <1>2, <1>8, PlacesApart
  <2> QED
    BY <1>2, <1>7, <1>8, <2>1, ListsWritten
<1>10. LedgerCaches' = LedgerCaches
  BY <1>2, <1>8, CachesSame, PlacesApart
<1>11. LedgerHand' = [LedgerHand EXCEPT ![t] = Ledger!Empty]
  <2>1. pc'[t] = "idle" /\ batch'[t] = NoBatch
        /\ \A u \in Threads : u # t => pc'[u] = pc[u] /\ batch'[u] = batch[u]
    BY <1>0, <1>1 DEF TypeOK
  <2>2. \A u \in Threads : u # t => list'[InHand(u)] = list[InHand(u)]
    BY <1>2, <1>8, PlacesApart
  <2>3. ToSet(list'[InHand(t)]) = {} /\ batch'[t].pool = Null
    BY <1>8, <2>1 DEF NoBatch, ToSet
  <2>4. Ledger!Empty = [what |-> pc'[t], pool |-> batch'[t].pool, slots |-> ToSet(list'[InHand(t)])]
    BY <2>1, <2>3 DEF Ledger!Empty
  <2> QED
    BY <2>1, <2>2, <2>4, HandsWritten
<1>12. LedgerHeld' = LedgerHeld /\ LedgerHome' = LedgerHome
  BY <1>1, HeldSame, HomesSame
<1>13. LedgerHand[t].what = "flush" /\ LedgerHand[t].pool = p /\ LedgerHand[t].slots = ToSet(w)
  BY <1>5
<1> QED
  BY <1>1, <1>9, <1>10, <1>11, <1>12, <1>13 DEF Ledger!FlushSplice

\* The count of a cache says how full it is.
LEMMA LedgerFull ==
  ASSUME IInv, NEW t \in Threads, NEW p \in Pools, NEW s
  PROVE  OverCap(Pushed(t, p, s)) <=> Ledger!Full(t, p)
<1> DEFINE now == list[InCache(t, p)]
           k == Len(now)
           cap == kThreadLocalCacheCap
<1>1. tls_caches[t][p].count = k /\ now \in Seq(Slots) /\ IsInjective(now)
  BY OneCache
<1>2. Cardinality(ToSet(now)) = k /\ k \in Nat
  BY <1>1, ListSize
<1>3. LedgerCaches[t][p] = ToSet(now)
  BY LedgerEntries
<1>4. Ledger!Full(t, p) <=> k >= cap
  <2>1. Ledger!kThreadLocalCacheCap = cap
    BY DEF Ledger!kThreadLocalCacheCap, kThreadLocalCacheCap
  <2>2. Ledger!Cardinality(LedgerCaches[t][p]) = k
    BY <1>2, <1>3, LedgerCounts
  <2> QED
    BY <2>1, <2>2 DEF Ledger!Full
<1>5. OverCap(Pushed(t, p, s)) <=> k + 1 > cap
  BY <1>1 DEF OverCap, Pushed
<1>6. cap \in Nat
  BY Sizes
<1> HIDE DEF k, cap
<1> QED
  BY <1>2, <1>4, <1>5, <1>6

\* A free into a cache that is not full.
LEMMA FreeToCacheMaps ==
  ASSUME IInv, TagsKept, NEW t \in Threads, NEW s \in held, NEW p \in Pools, FreeToCache(t, s, p)
  PROVE  Ledger!FreeToCache(t, p, s) /\ s \in LedgerHeld[p]
<1> DEFINE more == PushedList(t, p, s)
<1>0. TypeOK
  BY DEF IInv
<1>1. /\ Routed(s, p) /\ pc[t] = "idle" /\ ~OverCap(Pushed(t, p, s))
      /\ held' = held \ {s} /\ list' = [list EXCEPT ![InCache(t, p)] = more]
      /\ home' = home /\ pc' = pc /\ batch' = batch /\ stranded' = stranded
  BY DEF FreeToCache, Idle, threads, PushedList, CachedNow
<1>2. link[s] = p
  BY <1>1 DEF Routed
<1>3. ToSet(more) = ToSet(CachedNow(t, p)) \cup {s}
  BY <1>1, PushedCache
<1>4. /\ list'[InCache(t, p)] = more
      /\ \A l \in Places : l # InCache(t, p) => list'[l] = list[l]
  BY <1>0, <1>1, PlacesApart DEF TypeOK
<1> HIDE DEF more
<1>5. LedgerCaches' = [LedgerCaches EXCEPT ![t][p] = LedgerCaches[t][p] \cup {s}]
  <2>1. LedgerCaches[t][p] = ToSet(CachedNow(t, p))
    BY LedgerEntries DEF CachedNow
  <2>2. \A u \in Threads, q \in Pools : u # t \/ q # p => list'[InCache(u, q)] = list[InCache(u, q)]
    BY <1>4, PlacesApart
  <2> QED
    BY <1>3, <1>4, <2>1, <2>2, CachesWritten
<1>6. LedgerLists' = LedgerLists
  BY <1>4, ListsSame, PlacesApart
<1>7. LedgerHand' = LedgerHand
  BY <1>1, <1>4, HandsSame, PlacesApart
<1>8. LedgerHeld' = [LedgerHeld EXCEPT ![p] = LedgerHeld[p] \ {s}] /\ s \in LedgerHeld[p]
  BY <1>1, <1>2, HeldLess
<1>9. LedgerHome' = LedgerHome
  BY <1>1, HomesSame
<1>10. Ledger!Idle(t) /\ ~Ledger!Full(t, p)
  BY <1>1, LedgerIdle, LedgerFull
<1> QED
  BY <1>1, <1>5, <1>6, <1>7, <1>8, <1>9, <1>10 DEF Ledger!FreeToCache

\* A free into a full cache: what is cut off is a batch.
LEMMA FreeOverCapMaps ==
  ASSUME IInv, TagsKept, NEW t \in Threads, NEW s \in held, NEW p \in Pools, FreeOverCap(t, s, p)
  PROVE  Ledger!FreeOverCap(t, p, s) /\ s \in LedgerHeld[p]
<1> DEFINE size == kThreadLocalCacheBatchSize
           now == CachedNow(t, p)
           pushed == PushedWords(t, p, s)
           cached == PushedList(t, p, s)
<1>0. TypeOK /\ SlotsInOnePlace
  BY DEF IInv
<1>1. /\ pc[t] = "idle" /\ Routed(s, p) /\ OverCap(Pushed(t, p, s))
      /\ pc' = [pc EXCEPT ![t] = "flush"] /\ held' = held \ {s}
      /\ home' = home /\ stranded' = stranded
  BY DEF FreeOverCap, Idle, threads
<1> DEFINE Cuts(n, w) ==
             LET d == Last(w)
             IN  /\ n = size \/ pushed[d] = Null
                 /\ batch' = [batch EXCEPT ![t] = [pool |-> p, head |-> s, tail |-> d, count |-> n]]
                 /\ list' = [list EXCEPT ![InCache(t, p)] = SubSeq(cached, n + 1, Len(cached)),
                                         ![InHand(t)] = w]
<1>2. \E n \in 1..size : \E w \in Walks(pushed, s, n) : Cuts(n, w)
  BY DEF FreeOverCap, PushedWords, PushedList, CachedNow
<1>3. PICK n \in 1..size : \E w \in Walks(pushed, s, n) : Cuts(n, w)
  BY <1>2
<1>4. PICK w \in Walks(pushed, s, n) : Cuts(n, w)
  BY <1>3
<1> DEFINE r == RestPart(cached, n)
<1>5. /\ Pushed(t, p, s).count = Len(cached) /\ cached \in Seq(Slots) /\ IsInjective(cached)
      /\ ToSet(cached) = ToSet(now) \cup {s}
      /\ Spells(pushed, s, cached) /\ pushed \in [Slots -> Word]
  BY <1>1, PushedCache
<1>6. link[s] = p /\ s \notin ToSet(now)
  BY <1>1, RoutedSlot, PlacesApart DEF Routed, CachedNow
<1>7. /\ n = size \/ pushed[Last(w)] = Null
      /\ batch' = [batch EXCEPT ![t] = [pool |-> p, head |-> s, tail |-> Last(w), count |-> n]]
      /\ list' = [list EXCEPT ![InCache(t, p)] = r, ![InHand(t)] = w]
  BY <1>4 DEF RestPart
<1> HIDE DEF now, pushed, cached, r
<1>8. n \in 1..Len(cached) /\ w = FirstPart(cached, n)
  <2>1. n \in 0..Len(cached) /\ w = SubSeq(cached, 1, n)
    BY <1>5, WalkIsPart
  <2> QED
    BY <2>1 DEF FirstPart
<1>9. /\ w \in Seq(Slots) /\ IsInjective(w) /\ Len(w) = n /\ s = First(w) /\ w # << >>
      /\ r \in Seq(Slots) /\ Len(r) = Len(cached) - n /\ pushed[Last(w)] = First(r)
      /\ ToSet(w) \cap ToSet(r) = {} /\ ToSet(w) \cup ToSet(r) = ToSet(cached)
  <2> DEFINE w1 == FirstPart(cached, n)
             cut == CutWords(pushed, cached, n)
  <2>1. IsCut(pushed, cached, s, n, w1, r, cut)
    BY <1>5, <1>8, CutSpells DEF r
  <2>2. w = w1
    BY <1>8
  <2> HIDE DEF w1, cut
  <2> QED
    BY <2>1, <2>2 DEF IsCut
\* The cache had more than a batch.
<1>10. n = size
  <2> SUFFICES ASSUME pushed[Last(w)] = Null PROVE n = size
    BY <1>7
  <2> DEFINE k == Len(cached)
  <2>1. r = << >>
    BY <1>9, FirstSlot
  <2>2. k = n
    <3>1. Len(r) = 0 /\ Len(r) = k - n /\ k \in Nat
      BY <1>5, <1>9, <2>1
    <3> HIDE DEF k
    <3> QED
      BY <3>1
  <2>3. k > 2 * size /\ size \in Nat
    BY <1>1, <1>5, Sizes DEF OverCap
  <2> HIDE DEF k, size
  <2> QED
    BY <2>2, <2>3
<1> DEFINE b == ToSet(w) \ {s}
<1>11. /\ s \in ToSet(w) /\ ToSet(w) = b \cup {s}
       /\ b \subseteq ToSet(now) /\ ToSet(r) = ToSet(now) \ b
  <2>1. s \in ToSet(w)
    BY <1>9, FirstSlot
  <2> QED
    BY <1>5, <1>6, <1>9, <2>1
<1>12. Cardinality(b) = size - 1
  <2>1. IsFiniteSet(ToSet(w)) /\ Cardinality(ToSet(w)) = n
    BY <1>9, ListSize
  <2>2. Cardinality(b) = Cardinality(ToSet(w)) - 1
    BY <1>11, <2>1, FS_RemoveElement
  <2> QED
    BY <1>10, <2>1, <2>2
<1> HIDE DEF b
<1>13. /\ list'[InCache(t, p)] = r /\ list'[InHand(t)] = w
       /\ \A l \in Places : l # InCache(t, p) /\ l # InHand(t) => list'[l] = list[l]
  <2>1. list \in [Places -> Seq(Slots)]
    BY <1>0 DEF TypeOK
  <2>2. InCache(t, p) \in Places /\ InHand(t) \in Places /\ InCache(t, p) # InHand(t)
    BY PlacesApart
  <2> QED
    BY <1>7, <2>1, <2>2
<1>14. LedgerCaches[t][p] = ToSet(now)
  BY LedgerEntries DEF now, CachedNow
<1>15. LedgerCaches' = [LedgerCaches EXCEPT ![t][p] = LedgerCaches[t][p] \ b]
  <2>1. \A u \in Threads, q \in Pools : u # t \/ q # p => list'[InCache(u, q)] = list[InCache(u, q)]
    BY <1>13, PlacesApart
  <2> QED
    BY <1>11, <1>13, <1>14, <2>1, CachesWritten
<1>16. LedgerHand' = [LedgerHand EXCEPT ![t] = [what |-> "flush", pool |-> p, slots |-> b \cup {s}]]
  <2>1. pc'[t] = "flush" /\ batch'[t].pool = p
        /\ \A u \in Threads : u # t => pc'[u] = pc[u] /\ batch'[u] = batch[u]
    BY <1>0, <1>1, <1>7 DEF TypeOK
  <2>2. \A u \in Threads : u # t => list'[InHand(u)] = list[InHand(u)]
    BY <1>13, PlacesApart
  <2> QED
    BY <1>11, <1>13, <2>1, <2>2, HandsWritten
<1>17. LedgerLists' = LedgerLists
  BY <1>13, ListsSame, PlacesApart
<1>18. LedgerHeld' = [LedgerHeld EXCEPT ![p] = LedgerHeld[p] \ {s}] /\ s \in LedgerHeld[p]
  BY <1>1, <1>6, HeldLess
<1>19. LedgerHome' = LedgerHome
  BY <1>1, HomesSame
<1>20. Ledger!Idle(t) /\ Ledger!Full(t, p)
  BY <1>1, LedgerIdle, LedgerFull
<1>21. \E c \in SUBSET LedgerCaches[t][p] :
         /\ Ledger!Cardinality(c) = size - 1
         /\ LedgerCaches' = [LedgerCaches EXCEPT ![t][p] = LedgerCaches[t][p] \ c]
         /\ LedgerHand' = [LedgerHand EXCEPT ![t] = [what |-> "flush", pool |-> p, slots |-> c \cup {s}]]
  <2>1. b \in SUBSET LedgerCaches[t][p]
    BY <1>11, <1>14
  <2> WITNESS b \in SUBSET LedgerCaches[t][p]
  <2> QED
    BY <1>12, <1>15, <1>16, LedgerCounts
<1> QED
  BY <1>1, <1>17, <1>18, <1>19, <1>20, <1>21 DEF Ledger!FreeOverCap

\* A thread ends.
LEMMA ExitMaps ==
  ASSUME IInv, TagsKept, NEW t \in Threads, Exit(t)
  PROVE  Ledger!Exit(t)
<1>1. /\ pc[t] = "idle"
      /\ stranded' = stranded \cup UNION {ToSet(list[InCache(t, p)]) : p \in Pools}
      /\ list' = [l \in Places |-> IF \E p \in Pools : l = InCache(t, p) THEN << >> ELSE list[l]]
      /\ home' = home /\ pc' = pc /\ batch' = batch /\ held' = held
  BY DEF Exit, memory
<1>2. /\ \A p \in Pools : list'[InCache(t, p)] = << >>
      /\ \A u \in Threads, p \in Pools : u # t => list'[InCache(u, p)] = list[InCache(u, p)]
      /\ \A p \in Pools : list'[InPool(p)] = list[InPool(p)]
      /\ \A u \in Threads : list'[InHand(u)] = list[InHand(u)]
  BY <1>1, PlacesApart
<1>3. {LedgerCaches[t][p] : p \in Pools} = {ToSet(list[InCache(t, p)]) : p \in Pools}
  BY LedgerEntries
<1>4. LedgerCaches' = [LedgerCaches EXCEPT ![t] = Ledger!NoCaches]
  <2>1. \A p \in Pools : ToSet(list'[InCache(t, p)]) = {}
    BY <1>2 DEF ToSet
  <2>2. LedgerCaches'[t] = Ledger!NoCaches
    BY <2>1 DEF LedgerCaches, Ledger!NoCaches
  <2>3. \A u \in Threads : u # t => LedgerCaches'[u] = LedgerCaches[u]
    BY <1>2 DEF LedgerCaches
  <2>4. LedgerCaches' = [u \in Threads |-> LedgerCaches'[u]] /\ LedgerCaches = [u \in Threads |-> LedgerCaches[u]]
    BY DEF LedgerCaches
  <2> QED
    BY <2>2, <2>3, <2>4
<1>5. LedgerHome' = LedgerHome /\ LedgerHeld' = LedgerHeld
  BY <1>1, HomesSame, HeldSame
<1>6. LedgerLists' = LedgerLists
  BY <1>2, ListsSame
<1>7. LedgerHand' = LedgerHand
  BY <1>1, <1>2, HandsSame
<1>8. Ledger!Idle(t)
  BY <1>1, LedgerIdle
<1> QED
  BY <1>1, <1>3, <1>4, <1>5, <1>6, <1>7, <1>8 DEF Ledger!Exit

\* A shutdown, for which the other threads have ended.
LEMMA ShutdownMaps ==
  ASSUME IInv, NEW t \in Threads, Shutdown(t)
  PROVE  Ledger!Shutdown(t)
<1>0. TypeOK /\ InOrder /\ SlotsInOnePlace
  BY DEF IInv
<1>1. /\ alive = {t} /\ pc[t] = "idle" /\ home' = << >> /\ held' = {} /\ stranded' = {}
      /\ list' = [l \in Places |-> << >>] /\ pc' = pc /\ batch' = batch
  BY DEF Shutdown
<1>2. ToSet(<< >>) = {}
  BY DEF ToSet
<1>3. \A u \in Threads : pc[u] = "idle" /\ Ledger!Idle(u)
  BY <1>0, <1>1, LedgerIdle DEF InOrder
<1>4. ASSUME NEW u \in Threads, u # t PROVE LedgerCaches[u] = Ledger!NoCaches
  <2>1. ASSUME NEW p \in Pools PROVE LedgerCaches[u][p] = {}
    <3>1. tls_caches[u][p].head = Null
      BY <1>0, <1>1, <1>4 DEF InOrder
    <3>2. InCache(u, p) \in Places /\ Heads[InCache(u, p)] = Null
      BY <3>1, PlacesApart, HeadsAre
    <3>3. list[InCache(u, p)] = << >>
      BY <1>0, <3>2, OneList
    <3> QED
      BY <1>2, <3>3, LedgerEntries
  <2>2. LedgerCaches[u] = [p \in Pools |-> LedgerCaches[u][p]]
    BY DEF LedgerCaches
  <2> QED
    BY <2>1, <2>2 DEF Ledger!NoCaches
<1>5. \A l \in Places : ToSet(list'[l]) = {}
  BY <1>1, <1>2
<1>6. LedgerHome' = [s \in Slots |-> Null]
  <2>1. SlotsPerArena * Len(home') = 0
    BY <1>1, Sizes
  <2>2. Acquired' = {}
    BY <2>1 DEF Acquired
  <2> QED
    BY <2>2 DEF LedgerHome
<1>7. LedgerLists' = [p \in Pools |-> {}]
  BY <1>5, PlacesApart DEF LedgerLists
<1>8. LedgerCaches' = [LedgerCaches EXCEPT ![t] = Ledger!NoCaches]
  <2>1. \A u \in Threads : LedgerCaches'[u] = Ledger!NoCaches
    BY <1>5, PlacesApart DEF LedgerCaches, Ledger!NoCaches
  <2>2. LedgerCaches' = [u \in Threads |-> LedgerCaches'[u]] /\ LedgerCaches = [u \in Threads |-> LedgerCaches[u]]
    BY DEF LedgerCaches
  <2> QED
    BY <1>4, <2>1, <2>2
<1>9. LedgerHeld' = [p \in Pools |-> {}]
  BY <1>1 DEF LedgerHeld
<1>10. LedgerHand' = LedgerHand
  <2>1. \A u \in Threads : list[InHand(u)] = << >> /\ list'[InHand(u)] = << >>
    BY <1>1, <1>3, NoHand, PlacesApart
  <2> QED
    BY <1>1, <2>1, HandsSame
<1>11. Ledger!Slots = Slots
  BY LedgerSlots
<1> QED
  BY <1>1, <1>3, <1>4, <1>6, <1>7, <1>8, <1>9, <1>10, <1>11 DEF Ledger!Shutdown

\* A thread that starts is not seen.
LEMMA UnseenMaps ==
  ASSUME UNCHANGED <<home, link, pc, batch, held, stranded, list>>
  PROVE  UNCHANGED Ledger!vars
<1>1. LedgerHome' = LedgerHome
  BY HomesSame
<1>2. LedgerLists' = LedgerLists
  BY ListsSame
<1>3. LedgerCaches' = LedgerCaches
  BY CachesSame
<1>4. LedgerHand' = LedgerHand
  BY HandsSame
<1>5. LedgerHeld' = LedgerHeld
  BY DEF LedgerHeld
<1> QED
  BY <1>1, <1>2, <1>3, <1>4, <1>5 DEF Ledger!vars

\* Every step is one that the ledger allows, or none.
LEMMA StepMaps ==
  ASSUME IInv, TagsKept, [Next]_vars
  PROVE  [Ledger!Next]_(Ledger!vars)
<1>1. ASSUME NEW t \in Threads, NEW p \in Pools, PooledMalloc(t, p) PROVE Ledger!Next
  BY <1>1, PooledMallocMaps DEF Ledger!Next
<1>2. ASSUME NEW t \in Threads, NEW p \in Pools, MallocHit(t, p) PROVE Ledger!Next
  BY <1>2, MallocHitMaps DEF Ledger!Next
<1>3. ASSUME NEW t \in Threads, NEW p \in Pools, MallocRefill(t, p) PROVE Ledger!Next
  BY <1>3, MallocRefillMaps DEF Ledger!Next
<1>4. ASSUME NEW t \in Threads, NEW s \in held, NEW p \in Pools, PooledFree(t, s, p)
      PROVE  Ledger!Next
  BY <1>4, PooledFreeMaps DEF Ledger!Next
<1>5. ASSUME NEW t \in Threads, NEW s \in held, NEW p \in Pools, FreeToCache(t, s, p)
      PROVE  Ledger!Next
  BY <1>5, FreeToCacheMaps DEF Ledger!Next
<1>6. ASSUME NEW t \in Threads, NEW s \in held, NEW p \in Pools, FreeOverCap(t, s, p)
      PROVE  Ledger!Next
  BY <1>6, FreeOverCapMaps DEF Ledger!Next
<1>7. ASSUME NEW t \in Threads, MallocRefilled(t) PROVE Ledger!Next
  BY <1>7, MallocRefilledMaps DEF Ledger!Next
<1>8. ASSUME NEW t \in Threads, FlushSplice(t) PROVE Ledger!Next
  BY <1>8, FlushSpliceMaps DEF Ledger!Next
<1>9. ASSUME NEW t \in Threads, Start(t) PROVE UNCHANGED Ledger!vars
  BY <1>9, UnseenMaps DEF Start, memory
<1>10. ASSUME NEW t \in Threads, Exit(t) PROVE Ledger!Next
  BY <1>10, ExitMaps DEF Ledger!Next
<1>11. ASSUME NEW t \in Threads, Shutdown(t) PROVE Ledger!Next
  BY <1>11, ShutdownMaps DEF Ledger!Next
<1>12. ASSUME UNCHANGED vars PROVE UNCHANGED Ledger!vars
  BY <1>12, UnseenMaps DEF vars
<1> QED
  BY <1>1, <1>2, <1>3, <1>4, <1>5, <1>6, <1>7, <1>8, <1>9, <1>10, <1>11, <1>12 DEF Next

\* The ledger starts empty as well.
LEMMA StartMaps ==
  ASSUME Init
  PROVE  Ledger!Init
<1>1. ToSet(<< >>) = {}
  BY DEF ToSet
<1>2. LedgerHome = [s \in Slots |-> Null]
  <2>1. SlotsPerArena * Len(home) = 0
    BY Sizes DEF Init
  <2>2. Acquired = {}
    BY <2>1 DEF Acquired
  <2> QED
    BY <2>2 DEF LedgerHome
<1>3. LedgerLists = [p \in Pools |-> {}]
  BY <1>1, PlacesApart DEF Init, LedgerLists
<1>4. LedgerCaches = [t \in Threads |-> Ledger!NoCaches]
  BY <1>1, PlacesApart DEF Init, LedgerCaches, Ledger!NoCaches
<1>5. LedgerHand = [t \in Threads |-> Ledger!Empty]
  BY <1>1, PlacesApart DEF Init, NoBatch, LedgerHand, Ledger!Empty
<1>6. LedgerHeld = [p \in Pools |-> {}]
  BY DEF Init, LedgerHeld
<1>7. stranded = {} /\ Ledger!Slots = Slots
  BY LedgerSlots DEF Init
<1> QED
  BY <1>2, <1>3, <1>4, <1>5, <1>6, <1>7 DEF Ledger!Init

\* Refills, hits, frees, flushes and what pools do, with their stores to heads,
\* tails, counts and words, move slots the way the ledger allows.
THEOREM ImplementsTheLedger == Spec => ImplementsLedger
<1>1. Init => Ledger!Init
  BY StartMaps
<1>2. IInv /\ [Next]_vars => [Ledger!Next]_(Ledger!vars)
  BY NextKept, StepMaps
<1> QED
  BY <1>1, <1>2, Invariant, PTL DEF Spec, ImplementsLedger, Ledger!Spec

=============================================================================
