------------------------ MODULE LinkedFreeListProofs ------------------------
(***************************************************************************)
(* The words of FreeList spell the list, for any number of blocks and      *)
(* whatever callers write into theirs, and the search finds the first fit. *)
(***************************************************************************)
EXTENDS LinkedFreeList, SequenceTheorems, TLAPS

-----------------------------------------------------------------------------
(* Lists as sequences.                                                     *)

Words(l) ==
  /\ l = [head |-> l.head, next |-> l.next, prev |-> l.prev]
  /\ l.head \in Link
  /\ l.next \in [Block -> Word] /\ l.prev \in [Block -> Word]

\* Membership and injectivity, position by position.
LEMMA Positions ==
  ASSUME NEW s \in Seq(Block)
  PROVE  /\ DOMAIN s = 1..Len(s)
         /\ \A k \in 1..Len(s) : s[k] \in Block /\ s[k] \in ToSet(s)
         /\ \A x \in ToSet(s) : \E k \in 1..Len(s) : s[k] = x
         /\ IsInjective(s) <=> \A k, m \in 1..Len(s) : s[k] = s[m] => k = m
<1>1. DOMAIN s = 1..Len(s)
  OBVIOUS
<1> QED
  BY <1>1 DEF ToSet, IsInjective

\* Cons moves every element one position back.
LEMMA ConsElements ==
  ASSUME NEW s \in Seq(Block), NEW b \in Block
  PROVE  /\ Cons(b, s) \in Seq(Block)
         /\ Len(Cons(b, s)) = Len(s) + 1
         /\ Cons(b, s)[1] = b
         /\ \A k \in 1..Len(s) : Cons(b, s)[k + 1] = s[k]
BY DEF Cons

\* RemoveAt closes the gap at position i.
LEMMA RemoveAtElements ==
  ASSUME NEW s \in Seq(Block), NEW i \in 1..Len(s)
  PROVE  /\ RemoveAt(s, i) \in Seq(Block)
         /\ Len(RemoveAt(s, i)) = Len(s) - 1
         /\ \A k \in 1..(i - 1) : RemoveAt(s, i)[k] = s[k]
         /\ \A k \in i..(Len(s) - 1) : RemoveAt(s, i)[k] = s[k + 1]
<1> DEFINE u == SubSeq(s, 1, i - 1)
           v == SubSeq(s, i + 1, Len(s))
<1>1. u \in Seq(Block) /\ Len(u) = i - 1 /\ \A k \in 1..(i - 1) : u[k] = s[k]
  OBVIOUS
<1>2. v \in Seq(Block) /\ Len(v) = Len(s) - i /\ \A k \in 1..(Len(s) - i) : v[k] = s[k + i]
  OBVIOUS
<1>3. RemoveAt(s, i) = u \o v
  BY DEF RemoveAt
<1> HIDE DEF u, v
<1>4. /\ u \o v \in Seq(Block) /\ Len(u \o v) = Len(u) + Len(v)
      /\ \A k \in 1..(Len(u) + Len(v)) :
           (u \o v)[k] = IF k <= Len(u) THEN u[k] ELSE v[k - Len(u)]
  BY <1>1, <1>2, ConcatProperties
<1>5. ASSUME NEW k \in 1..(i - 1)
      PROVE  (u \o v)[k] = s[k]
  BY <1>1, <1>2, <1>4
<1>6. ASSUME NEW k \in i..(Len(s) - 1)
      PROVE  (u \o v)[k] = s[k + 1]
  <2>1. k \in 1..(Len(u) + Len(v)) /\ ~(k <= Len(u)) /\ k - Len(u) \in 1..(Len(s) - i)
    BY <1>1, <1>2
  <2>2. (k - Len(u)) + i = k + 1
    BY <1>1
  <2> QED
    BY <1>2, <1>4, <2>1, <2>2
<1> QED
  BY <1>1, <1>2, <1>3, <1>4, <1>5, <1>6

-----------------------------------------------------------------------------
(* The stores of insert() and remove() against the sequence.               *)

\* insert(): words that spell a list spell it with b in front afterwards.
LEMMA InsertedSpells ==
  ASSUME NEW l, Words(l), NEW s \in Seq(Block), IsInjective(s), Spells(l, s),
         NEW b \in Block, b \notin ToSet(s)
  PROVE  /\ Words(Inserted(l, b))
         /\ Cons(b, s) \in Seq(Block)
         /\ IsInjective(Cons(b, s))
         /\ Spells(Inserted(l, b), Cons(b, s))
<1> DEFINE s2 == Cons(b, s)
           m == Inserted(l, b)
<1>1. /\ s2 \in Seq(Block) /\ Len(s2) = Len(s) + 1 /\ s2[1] = b
      /\ \A k \in 1..Len(s) : s2[k + 1] = s[k]
  BY ConsElements
<1>2. /\ m.head = b
      /\ m.next = [l.next EXCEPT ![b] = l.head]
      /\ \A x \in Block : /\ x = b => m.prev[x] = Null
                          /\ x # b /\ x = l.head => m.prev[x] = b
                          /\ x # b /\ x # l.head => m.prev[x] = l.prev[x]
  BY DEF Inserted
<1>3. Words(m)
  BY DEF Words, Inserted, Link, Word
<1> HIDE DEF s2, m
<1>4. \A k \in 1..Len(s) : s[k] # b /\ s[k] \in Block
  BY Positions
<1>5. \A j, k \in 1..Len(s) : s[j] = s[k] => j = k
  BY Positions
<1>6. DOMAIN s2 = 1..Len(s2) /\ DOMAIN s = 1..Len(s)
  BY <1>1
<1>7. \A k \in 1..Len(s2) : k = 1 \/ (k - 1 \in 1..Len(s) /\ s2[k] = s[k - 1])
  <2> SUFFICES ASSUME NEW k \in 1..Len(s2), k # 1
               PROVE  k - 1 \in 1..Len(s) /\ s2[k] = s[k - 1]
    OBVIOUS
  <2>1. k - 1 \in 1..Len(s) /\ (k - 1) + 1 = k
    BY <1>1
  <2> QED
    BY <1>1, <2>1
<1>8. IsInjective(s2)
  <2>1. ASSUME NEW j \in 1..Len(s2), NEW k \in 1..Len(s2), s2[j] = s2[k], j # 1, k # 1
        PROVE  j = k
    <3>1. j - 1 = k - 1
      BY <1>5, <1>7, <2>1
    <3> QED
      BY <3>1
  <2>2. \A k \in 1..Len(s2) : k # 1 => s2[k] # s2[1]
    BY <1>1, <1>4, <1>7
  <2>3. \A j, k \in 1..Len(s2) : s2[j] = s2[k] => j = k
    BY <2>1, <2>2
  <2> QED
    BY <1>1, <2>3, Positions
\* Positions, too, move back by one.
<1>9. \A k \in 1..(Len(s) + 1) : At(s2, k + 1) = At(s, k)
  <2> SUFFICES ASSUME NEW k \in 1..(Len(s) + 1) PROVE At(s2, k + 1) = At(s, k)
    OBVIOUS
  <2>1. CASE k <= Len(s)
    BY <1>1, <1>6, <2>1 DEF At
  <2>2. CASE k = Len(s) + 1
    BY <1>1, <1>6, <2>2 DEF At
  <2> QED
    BY <2>1, <2>2
<1>10. At(s2, 1) = b /\ At(s2, 0) = Null
  BY <1>1, <1>6 DEF At
<1>11. Spells(m, s2)
  <2>1. m.head = At(s2, 1)
    BY <1>2, <1>10
  <2>2. l.head = At(s, 1)
    BY DEF Spells
  <2>3. m.next[b] = At(s2, 2) /\ m.prev[b] = At(s2, 0)
    <3>1. At(s2, 1 + 1) = At(s, 1)
      BY <1>9
    <3>2. m.next[b] = l.head
      BY <1>2 DEF Words
    <3> QED
      BY <1>2, <1>10, <2>2, <3>1, <3>2
  <2>4. ASSUME NEW k \in 1..Len(s)
        PROVE  m.next[s[k]] = At(s2, k + 2) /\ m.prev[s[k]] = At(s2, k)
    <3>1. s[k] # b /\ s[k] \in Block
      BY <1>4
    <3>2. l.next[s[k]] = At(s, k + 1) /\ l.prev[s[k]] = At(s, k - 1)
      BY <1>6 DEF Spells
    <3>3. At(s2, (k + 1) + 1) = At(s, k + 1)
      BY <1>9
    <3>4. m.next[s[k]] = At(s2, k + 2)
      BY <1>2, <3>1, <3>2, <3>3 DEF Words
    <3>5. CASE k = 1
      <4>1. s[k] = l.head
        BY <1>6, <2>2, <3>5 DEF At
      <4> QED
        BY <1>2, <1>10, <3>1, <3>4, <3>5, <4>1
    <3>6. CASE k # 1
      <4>1. 1 \in 1..Len(s) /\ k - 1 \in 1..(Len(s) + 1) /\ (k - 1) + 1 = k
        BY <3>6
      <4>2. l.head = s[1]
        BY <1>6, <2>2, <4>1 DEF At
      <4>3. s[k] # l.head
        BY <1>5, <3>6, <4>1, <4>2
      <4>4. At(s2, k) = At(s, k - 1)
        BY <1>9, <4>1
      <4> QED
        BY <1>2, <3>1, <3>2, <3>4, <4>3, <4>4
    <3> QED
      BY <3>5, <3>6
  <2>5. ASSUME NEW k \in DOMAIN s2
        PROVE  m.next[s2[k]] = At(s2, k + 1) /\ m.prev[s2[k]] = At(s2, k - 1)
    <3>1. CASE k = 1
      BY <1>1, <2>3, <3>1
    <3>2. CASE k # 1
      <4>1. k - 1 \in 1..Len(s) /\ s2[k] = s[k - 1]
        BY <1>6, <1>7, <3>2
      <4>2. (k - 1) + 2 = k + 1
        BY <1>6
      <4> QED
        BY <2>4, <4>1, <4>2
    <3> QED
      BY <3>1, <3>2
  <2> QED
    BY <2>1, <2>5 DEF Spells
<1> QED
  BY <1>1, <1>3, <1>8, <1>11 DEF s2, m

\* remove(): words that spell a list spell it without b afterwards, wherever
\* b is in it.
LEMMA RemovedSpells ==
  ASSUME NEW l, Words(l), NEW s \in Seq(Block), IsInjective(s), Spells(l, s),
         NEW i \in 1..Len(s), NEW b, b = s[i]
  PROVE  /\ Words(Removed(l, b))
         /\ RemoveAt(s, i) \in Seq(Block)
         /\ IsInjective(RemoveAt(s, i))
         /\ Spells(Removed(l, b), RemoveAt(s, i))
<1> DEFINE s2 == RemoveAt(s, i)
           m == Removed(l, b)
<1>1. /\ s2 \in Seq(Block) /\ Len(s2) = Len(s) - 1
      /\ \A k \in 1..(i - 1) : s2[k] = s[k]
      /\ \A k \in i..(Len(s) - 1) : s2[k] = s[k + 1]
  BY RemoveAtElements
<1>2. DOMAIN s = 1..Len(s) /\ DOMAIN s2 = 1..Len(s2)
  BY <1>1
<1>3. /\ l.head = At(s, 1)
      /\ \A k \in 1..Len(s) : l.next[s[k]] = At(s, k + 1) /\ l.prev[s[k]] = At(s, k - 1)
  BY <1>2 DEF Spells
<1>4. \A j, k \in 1..Len(s) : s[j] = s[k] => j = k
  BY Positions
<1>5. \A k \in 1..Len(s) : s[k] \in Block /\ s[k] # Null
  BY Positions, NullAssumption
\* The two words of b.
<1> DEFINE n == At(s, i + 1)
           q == At(s, i - 1)
<1>6. l.next[b] = n /\ l.prev[b] = q /\ b \in Block
  BY <1>3, <1>5
<1>7. n \in Link /\ q \in Link
  BY <1>2, <1>5 DEF At, Link
<1>8. /\ m.head = (IF q = Null THEN n ELSE l.head)
      /\ \A x \in Block : x # b => /\ m.next[x] = IF x = q THEN n ELSE l.next[x]
                                   /\ m.prev[x] = IF x = n THEN q ELSE l.prev[x]
  BY <1>6 DEF Removed
<1>9. Words(m)
  BY <1>6, <1>7 DEF Words, Removed, Link, Word
\* Positions before i stay, those after it move up by one.
<1>10. /\ \A k \in 0..(i - 1) : At(s2, k) = At(s, k)
       /\ \A k \in i..(Len(s) + 1) : At(s2, k) = At(s, k + 1)
  <2>1. ASSUME NEW k \in 0..(i - 1) PROVE At(s2, k) = At(s, k)
    <3>1. CASE k = 0
      BY <1>2, <3>1 DEF At
    <3>2. CASE k # 0
      BY <1>1, <1>2, <3>2 DEF At
    <3> QED
      BY <3>1, <3>2
  <2>2. ASSUME NEW k \in i..(Len(s) + 1) PROVE At(s2, k) = At(s, k + 1)
    <3>1. CASE k <= Len(s) - 1
      BY <1>1, <1>2, <3>1 DEF At
    <3>2. CASE k > Len(s) - 1
      BY <1>1, <1>2, <3>2 DEF At
    <3> QED
      BY <3>1, <3>2
  <2> QED
    BY <2>1, <2>2
<1> HIDE DEF s2, m
<1>11. ASSUME NEW k \in 1..Len(s) PROVE (s[k] = q <=> k = i - 1) /\ (s[k] = n <=> k = i + 1)
  <2>1. CASE i = 1
    <3>1. q = Null
      BY <1>2, <2>1 DEF At
    <3>2. CASE i = Len(s)
      <4>1. i + 1 \notin DOMAIN s
        BY <1>2, <3>2
      <4>2. n = Null
        BY <4>1 DEF At
      <4>3. s[k] # Null
        BY <1>5
      <4>4. k = 1
        <5>1. Len(s) = 1
          BY <2>1, <3>2
        <5>2. k \in 1..1
          BY <5>1
        <5> QED
          BY <5>2
      <4>5. k # i - 1
        BY <2>1, <4>4
      <4>6. k # i + 1
        BY <2>1, <4>4
      <4> QED
        BY <3>1, <4>2, <4>3, <4>5, <4>6
    <3>3. CASE i # Len(s)
      <4>0. i + 1 \in 1..Len(s)
        BY <3>3
      <4>1. i + 1 \in 1..Len(s) /\ n = s[i + 1]
        BY <1>2, <4>0 DEF At
      <4> QED
        BY <1>4, <1>5, <2>1, <3>1, <4>1
    <3> QED
      BY <3>2, <3>3
  <2>2. CASE i # 1
    <3>1. i - 1 \in 1..Len(s) /\ q = s[i - 1]
      BY <1>2, <2>2 DEF At
    <3>2. CASE i = Len(s)
      <4>1. n = Null
        BY <1>2, <3>2 DEF At
      <4> QED
        BY <1>4, <1>5, <3>1, <3>2, <4>1
    <3>3. CASE i # Len(s)
      <4>0. i + 1 \in 1..Len(s)
        BY <3>3
      <4>1. i + 1 \in 1..Len(s) /\ n = s[i + 1]
        BY <1>2, <4>0 DEF At
      <4> QED
        BY <1>4, <1>5, <3>1, <4>1
    <3> QED
      BY <3>2, <3>3
  <2> QED
    BY <2>1, <2>2
<1>12. IsInjective(s2)
  <2> DEFINE From(k) == IF k < i THEN k ELSE k + 1
  <2>1. \A k \in 1..Len(s2) : From(k) \in 1..Len(s) /\ s2[k] = s[From(k)]
    <3> SUFFICES ASSUME NEW k \in 1..Len(s2)
                 PROVE  From(k) \in 1..Len(s) /\ s2[k] = s[From(k)]
      OBVIOUS
    <3>1. CASE k < i
      BY <1>1, <3>1
    <3>2. CASE k >= i
      BY <1>1, <3>2
    <3> QED
      BY <3>1, <3>2
  <2>2. \A j, k \in 1..Len(s2) : From(j) = From(k) => j = k
    BY <1>1
  <2> HIDE DEF From
  <2>3. \A j, k \in 1..Len(s2) : s2[j] = s2[k] => j = k
    BY <1>4, <2>1, <2>2
  <2> QED
    BY <1>1, <2>3, Positions
<1>13. m.head = At(s2, 1)
  <2>1. CASE i = 1
    <3>1. q = Null /\ At(s2, 1) = At(s, 1 + 1)
      BY <1>2, <1>10, <2>1 DEF At
    <3> QED
      BY <1>8, <2>1, <3>1
  <2>2. CASE i # 1
    <3>1. q = s[i - 1] /\ q # Null
      BY <1>2, <1>5, <2>2 DEF At
    <3>2. At(s2, 1) = At(s, 1)
      BY <1>10, <2>2
    <3> QED
      BY <1>3, <1>8, <3>1, <3>2
  <2> QED
    BY <2>1, <2>2
<1> HIDE DEF n, q
<1>14. ASSUME NEW k \in 1..Len(s2)
       PROVE  m.next[s2[k]] = At(s2, k + 1) /\ m.prev[s2[k]] = At(s2, k - 1)
  <2>1. CASE k < i
    <3>1. k \in 1..Len(s) /\ s2[k] = s[k] /\ s[k] # b /\ s[k] \in Block
      BY <1>1, <1>4, <1>5, <2>1
    <3>2. s[k] # n /\ m.prev[s[k]] = At(s, k - 1) /\ k - 1 \in 0..(i - 1)
      BY <1>3, <1>8, <1>11, <2>1, <3>1, SMTT(30)
    <3>3. CASE k = i - 1
      <4>1. s[k] = q /\ m.next[s[k]] = n
        BY <1>8, <1>11, <3>1, <3>3
      <4>2. At(s2, k + 1) = n
        BY <1>1, <1>10, <3>3 DEF n
      <4> QED
        BY <1>10, <3>1, <3>2, <4>1, <4>2
    <3>4. CASE k # i - 1
      <4>1. s[k] # q /\ m.next[s[k]] = At(s, k + 1)
        BY <1>3, <1>8, <1>11, <3>1, <3>4
      <4>2. k + 1 \in 0..(i - 1)
        BY <2>1, <3>4
      <4> QED
        BY <1>10, <3>1, <3>2, <4>1, <4>2
    <3> QED
      BY <3>3, <3>4
  <2>2. CASE k >= i
    <3>1. /\ k + 1 \in 1..Len(s) /\ s2[k] = s[k + 1] /\ s[k + 1] # b /\ s[k + 1] \in Block
      BY <1>1, <1>4, <1>5, <2>2
    <3>2. s[k + 1] # q /\ m.next[s[k + 1]] = At(s, (k + 1) + 1)
      BY <1>3, <1>8, <1>11, <2>2, <3>1, SMTT(30)
    <3>3. At(s2, k + 1) = At(s, (k + 1) + 1)
      BY <1>1, <1>10, <2>2
    <3>4. CASE k = i
      <4>1. m.prev[s[k + 1]] = q
        BY <1>8, <1>11, <3>1, <3>4
      <4>2. At(s2, k - 1) = q
        BY <1>10, <3>4 DEF q
      <4> QED
        BY <3>1, <3>2, <3>3, <4>1, <4>2
    <3>5. CASE k # i
      <4>0. s[k + 1] # n /\ l.prev[s[k + 1]] = At(s, (k + 1) - 1)
        BY <1>3, <1>11, <3>1, <3>5
      <4>1. m.prev[s[k + 1]] = At(s, (k + 1) - 1)
        BY <1>8, <3>1, <4>0
      <4>2. k - 1 \in i..(Len(s) + 1) /\ (k - 1) + 1 = (k + 1) - 1
        BY <1>1, <2>2, <3>5
      <4>3. At(s2, k - 1) = At(s, (k + 1) - 1)
        BY <1>10, <4>2
      <4> QED
        BY <3>1, <3>2, <3>3, <4>1, <4>3
    <3> QED
      BY <3>4, <3>5
  <2> QED
    BY <2>1, <2>2
<1>15. Spells(m, s2)
  BY <1>2, <1>13, <1>14 DEF Spells
<1> QED
  BY <1>1, <1>9, <1>12, <1>15 DEF s2, m
-----------------------------------------------------------------------------
(* The inductive invariant.                                                *)

\* A search has come to a position of the list and passed nothing that fits.
\* This is what LinksSpellList needs beside it for the cursor never to be
\* data, and for the search to return the first fit.
Walked ==
  ~Unlocked =>
    \E i \in 1..(Len(list) + 1) :
      cursor = At(list, i) /\ \A j \in 1..(i - 1) : size[list[j]] < want

IInv == TypeOK /\ LinksSpellList /\ Walked

\* The type of the words is one conjunct, for the lemmas above.
LEMMA TypeParts ==
  TypeOK <=> /\ Words(fl)
             /\ size \in [Block -> PayloadSizes \cup {0}]
             /\ list \in Seq(Block)
             /\ want \in Requests \cup {0}
             /\ cursor \in Link
BY DEF TypeOK, Words

\* A fresh arena is an empty list.
LEMMA InitIInv == Init => IInv
<1> SUFFICES ASSUME Init PROVE IInv
  OBVIOUS
<1>1. Words(fl)
  BY DEF Init, Words, Link, Word
<1>2. TypeOK
  BY <1>1, TypeParts DEF Init, Link
<1>3. LinksSpellList
  BY DEF Init, LinksSpellList, IsInjective, Spells, At
<1> QED
  BY <1>2, <1>3 DEF IInv, Walked, Unlocked, Init

\* A step that inserts a block.
LEMMA InsertStep ==
  ASSUME IInv, NEW b \in Block, NEW n \in PayloadSizes, insert(b, n)
  PROVE  IInv'
<1> USE DEF IInv
<1>1. Words(fl) /\ list \in Seq(Block) /\ IsInjective(list) /\ Spells(fl, list)
  BY TypeParts DEF LinksSpellList
<1>2. b \notin ToSet(list) /\ fl' = Inserted(fl, b) /\ list' = Cons(b, list)
  BY DEF insert, Listed
<1>3. Words(fl') /\ list' \in Seq(Block) /\ IsInjective(list') /\ Spells(fl', list')
  BY <1>1, <1>2, InsertedSpells
<1>4. size' \in [Block -> PayloadSizes \cup {0}] /\ UNCHANGED <<want, cursor>>
  BY TypeParts DEF insert
<1>5. TypeOK'
  BY <1>3, <1>4, TypeParts DEF TypeOK, Words
<1>6. LinksSpellList'
  BY <1>3 DEF LinksSpellList
<1>7. Walked'
  BY <1>4 DEF Walked, Unlocked, insert
<1> QED
  BY <1>5, <1>6, <1>7

\* A step that removes a block, from wherever it is.
LEMMA RemoveStep ==
  ASSUME IInv, NEW b \in Block, remove(b)
  PROVE  IInv'
<1> USE DEF IInv
<1>1. Words(fl) /\ list \in Seq(Block) /\ IsInjective(list) /\ Spells(fl, list)
  BY TypeParts DEF LinksSpellList
<1> DEFINE i == CHOOSE k \in DOMAIN list : list[k] = b
<1>2. i \in 1..Len(list) /\ b = list[i]
  <2>1. \E k \in DOMAIN list : list[k] = b
    BY <1>1, Positions DEF remove, Listed
  <2> QED
    BY <1>1, <2>1
<1>3. fl' = Removed(fl, b) /\ list' = RemoveAt(list, i)
  BY DEF remove
<1> HIDE DEF i
<1>4. Words(fl') /\ list' \in Seq(Block) /\ IsInjective(list') /\ Spells(fl', list')
  BY <1>1, <1>2, <1>3, RemovedSpells
<1>5. UNCHANGED <<size, want, cursor>>
  BY DEF remove
<1>6. TypeOK'
  BY <1>4, <1>5, TypeParts DEF TypeOK, Words
<1>7. LinksSpellList'
  BY <1>4 DEF LinksSpellList
<1>8. Walked'
  BY <1>5 DEF Walked, Unlocked, remove
<1> QED
  BY <1>6, <1>7, <1>8

\* The loop goes on to the next position.
LEMMA AdvanceStep ==
  ASSUME IInv, Advance
  PROVE  IInv'
<1> USE DEF IInv
<1>1. /\ ~Unlocked /\ cursor # Null /\ ~Fits(cursor) /\ cursor' = fl.next[cursor]
      /\ UNCHANGED <<fl, size, list, want>>
  BY DEF Advance
<1>2. list \in Seq(Block) /\ Spells(fl, list)
  BY TypeParts DEF LinksSpellList
<1>3. PICK i \in 1..(Len(list) + 1) :
        cursor = At(list, i) /\ \A j \in 1..(i - 1) : size[list[j]] < want
  BY <1>1 DEF Walked
<1>4. i \in DOMAIN list /\ i \in 1..Len(list) /\ cursor = list[i] /\ cursor \in Block
  BY <1>1, <1>2, <1>3 DEF At
<1>5. cursor' = At(list, i + 1)
  BY <1>1, <1>2, <1>4 DEF Spells
<1>6. size[cursor] < want
  <2>1. size[cursor] \in Nat /\ want \in Nat
    <3>1. size[cursor] \in PayloadSizes \cup {0} /\ want \in Requests \cup {0}
      BY <1>4 DEF TypeOK
    <3>2. (PayloadSizes \cup {0}) \subseteq Nat /\ (Requests \cup {0}) \subseteq Nat
      BY SizesAssumption
    <3> QED
      BY <3>1, <3>2
  <2> QED
    BY <1>1, <2>1 DEF Fits
<1>7. \A j \in 1..((i + 1) - 1) : size[list[j]] < want
  <2> SUFFICES ASSUME NEW j \in 1..((i + 1) - 1) PROVE size[list[j]] < want
    OBVIOUS
  <2>1. j = i \/ j \in 1..(i - 1)
    BY <1>4
  <2> QED
    BY <1>3, <1>4, <1>6, <2>1
<1>8. i + 1 \in 1..(Len(list) + 1)
  BY <1>4
<1>9. cursor' \in Link
  <2>1. CASE i + 1 \in DOMAIN list
    BY <1>2, <1>5, <2>1 DEF At, Link
  <2>2. CASE i + 1 \notin DOMAIN list
    BY <1>5, <2>2 DEF At, Link
  <2> QED
    BY <2>1, <2>2
<1>10. TypeOK'
  BY <1>1, <1>9 DEF TypeOK
<1>11. LinksSpellList'
  BY <1>1 DEF LinksSpellList, Spells, At
<1>12. Walked'
  BY <1>1, <1>5, <1>7, <1>8 DEF Walked, Unlocked, At
<1> QED
  BY <1>10, <1>11, <1>12

\* The owner of a block that is not listed writes where its links would be.
LEMMA WriteStep ==
  ASSUME IInv, NEW b \in Block, NEW n \in Data, NEW p \in Data, Write(b, n, p)
  PROVE  IInv'
<1> USE DEF IInv
<1>1. /\ b \notin ToSet(list)
      /\ fl' = [fl EXCEPT !.next[b] = n, !.prev[b] = p]
      /\ UNCHANGED <<size, list, want, cursor>>
  BY DEF Write, Listed
<1>2. Words(fl) /\ list \in Seq(Block) /\ IsInjective(list) /\ Spells(fl, list)
  BY TypeParts DEF LinksSpellList
<1>3. /\ fl'.head = fl.head
      /\ \A x \in Block : x # b => fl'.next[x] = fl.next[x] /\ fl'.prev[x] = fl.prev[x]
  BY <1>1, <1>2 DEF Words
<1>4. Words(fl')
  BY <1>1, <1>2 DEF Words, Word
<1>5. TypeOK'
  BY <1>1, <1>4, TypeParts DEF TypeOK, Words
<1>6. \A k \in DOMAIN list : list[k] \in Block /\ list[k] # b
  BY <1>1, <1>2, Positions
<1>7. Spells(fl', list)
  BY <1>2, <1>3, <1>6 DEF Spells
<1>8. LinksSpellList'
  BY <1>1, <1>2, <1>7 DEF LinksSpellList
<1>9. Walked'
  BY <1>1 DEF Walked, Unlocked, At
<1> QED
  BY <1>5, <1>8, <1>9

\* Every step keeps the inductive invariant.
LEMMA NextIInv == IInv /\ [Next]_vars => IInv'
<1> SUFFICES ASSUME IInv, [Next]_vars PROVE IInv'
  OBVIOUS
<1> USE DEF IInv
<1>1. ASSUME NEW b \in Block, NEW n \in PayloadSizes, insert(b, n) PROVE IInv'
  BY <1>1, InsertStep
<1>2. ASSUME NEW b \in Block, remove(b) PROVE IInv'
  BY <1>2, RemoveStep
<1>3. ASSUME NEW b \in Block, NEW n \in Data, NEW p \in Data, Write(b, n, p) PROVE IInv'
  BY <1>3, WriteStep
<1>4. ASSUME NEW n \in Requests, find_first_fit(n) PROVE IInv'
  <2>1. want' = n /\ cursor' = fl.head /\ UNCHANGED <<fl, size, list>>
    BY <1>4 DEF find_first_fit
  <2>2. TypeOK'
    BY <2>1 DEF TypeOK
  <2>3. LinksSpellList'
    BY <2>1 DEF LinksSpellList
  <2>4. list \in Seq(Block) /\ cursor' = At(list, 1) /\ 1 \in 1..(Len(list) + 1)
    BY <2>1 DEF TypeOK, LinksSpellList, Spells
  <2>5. Walked'
    BY <2>1, <2>4 DEF Walked, At
  <2> QED
    BY <2>2, <2>3, <2>5
<1>5. CASE Advance
  BY <1>5, AdvanceStep
<1>6. CASE Return
  <2>1. want' = 0 /\ UNCHANGED <<fl, size, list, cursor>>
    BY <1>6 DEF Return
  <2>2. TypeOK' /\ LinksSpellList'
    BY <2>1 DEF TypeOK, LinksSpellList
  <2> QED
    BY <2>1, <2>2 DEF Walked, Unlocked
<1>7. CASE UNCHANGED vars
  BY <1>7 DEF vars, TypeOK, LinksSpellList, Walked, Unlocked, At
<1> QED
  BY <1>1, <1>2, <1>3, <1>4, <1>5, <1>6, <1>7 DEF Next

-----------------------------------------------------------------------------
(* The theorems.                                                           *)

\* Every reachable state: words and sequence agree, and a search under way is
\* somewhere in the list (free_list.cpp).
THEOREM Invariant == Spec => []IInv
<1>1. Spec => Init /\ [][Next]_vars
  BY DEF Spec
<1> QED
  BY <1>1, InitIInv, NextIInv, PTL

\* FreeList (free_list.cpp): head_ and the cursor of a search are a block or
\* nullptr, never what a caller has written where links lie.
THEOREM TypeCorrect == Spec => []TypeOK
<1>1. IInv => TypeOK
  BY DEF IInv
<1> QED
  BY <1>1, Invariant, PTL

\* FreeList::remove() (free_list.cpp): blocks may leave from anywhere and in
\* any order, and the words left behind still spell the list both ways.
THEOREM WordsSpellTheList == Spec => []LinksSpellList
<1>1. IInv => LinksSpellList
  BY DEF IInv
<1> QED
  BY <1>1, Invariant, PTL

\* FreeList::find_first_fit() (free_list.cpp): the search returns the first
\* block that is large enough, and nullptr only if no block is.
THEOREM SearchFindsFirstFit == Spec => ReturnsFirstFit
<1>1. ASSUME IInv, [Next]_vars
      PROVE  [Unlocked' /\ ~Unlocked =>
               \E i \in 1..(Len(list) + 1) : cursor = At(list, i) /\ FirstFit(i, want)]_vars
  <2> SUFFICES ASSUME Unlocked', ~Unlocked
               PROVE  \E i \in 1..(Len(list) + 1) : cursor = At(list, i) /\ FirstFit(i, want)
    OBVIOUS
  <2>1. Return
    BY <1>1 DEF Next, Unlocked, insert, remove, find_first_fit, Advance, Write, vars
  <2>2. PICK i \in 1..(Len(list) + 1) :
          cursor = At(list, i) /\ \A j \in 1..(i - 1) : size[list[j]] < want
    BY <1>1 DEF IInv, Walked
  <2>3. list \in Seq(Block)
    BY <1>1 DEF IInv, TypeOK
  <2>4. i \in DOMAIN list => cursor = list[i] /\ cursor # Null
    BY <2>2, <2>3, NullAssumption DEF At
  <2>5. i \in DOMAIN list => size[list[i]] >= want
    BY <2>1, <2>4 DEF Return, Fits
  <2> QED
    BY <2>2, <2>5 DEF FirstFit
<1>2. Spec => [][Next]_vars
  BY DEF Spec
<1> QED
  BY <1>1, <1>2, Invariant, PTL DEF ReturnsFirstFit
=============================================================================
