--------------------------- MODULE LinkedFreeList ---------------------------
(***************************************************************************)
(* class FreeList at the level of its words: head_, and the next and prev  *)
(* of the FreeListLinks that lie in the first bytes of a free block's      *)
(* payload.  The list has no other memory.  As soon as a block leaves it,  *)
(* or before it ever joins it, the same bytes are somebody's data, written *)
(* without any lock.  GeneralHeap, which has the list as a sequence, rests *)
(* on these words spelling that sequence.                                  *)
(*                                                                         *)
(* insert and remove run under the mutex of the general path and touch     *)
(* nothing else that anyone reads without it, so each is one action.       *)
(* find_first_fit holds the mutex too, but for as long as the list is:     *)
(* it is one action per block, with callers writing to theirs in between.  *)
(*                                                                         *)
(* What the callers of the class owe it, insert() of blocks that are not   *)
(* in the list and remove() of ones that are, is FreeListExact of          *)
(* GeneralHeap.                                                            *)
(***************************************************************************)
EXTENDS Integers, SequencesExt

CONSTANTS Block,       \* the places where a header may lie
          Null,
          Data,        \* what the owner of a payload may write where links were
          PayloadSizes,\* what get_size() of a free block may return
          Requests     \* what find_first_fit() may be asked for

ASSUME NullAssumption == Null \notin Block
ASSUME SizesAssumption == PayloadSizes \subseteq Nat /\ Requests \subseteq Nat \ {0}

VARIABLES fl,      \* [head, next, prev]: head_ and the link words of each block
          size,    \* the size in each header
          list,    \* the blocks inserted and not yet removed, the last one first
          want,    \* the argument of the find_first_fit() under way, or 0
          cursor   \* its loop variable, and what it returned last

vars == <<fl, size, list, want, cursor>>

\* The pages of an arena are fresh, that is zero.
Init ==
  /\ fl = [head |-> Null, next |-> [b \in Block |-> Null], prev |-> [b \in Block |-> Null]]
  /\ size = [b \in Block |-> 0]
  /\ list = << >>
  /\ want = 0
  /\ cursor = Null

\* No other call has the mutex.
Unlocked == want = 0

Listed == ToSet(list)

-----------------------------------------------------------------------------
(* The stores of insert() and remove().                                    *)

\* The old head is not told of its new predecessor.
Inserted_Faulty(l, b) ==
  [head |-> b, next |-> [l.next EXCEPT ![b] = l.head], prev |-> [l.prev EXCEPT ![b] = Null]]

Inserted(l, b) ==
  [head |-> b,
   next |-> [l.next EXCEPT ![b] = l.head],
   prev |-> [x \in Block |-> CASE x = b -> Null
                               [] x # b /\ x = l.head -> b
                               [] OTHER -> l.prev[x]]]

\* A first block is unlinked as if it had a predecessor: head_ stays.
Removed_Faulty(l, b) ==
  [head |-> l.head,
   next |-> [x \in Block |-> CASE x = b -> Null
                               [] x # b /\ x = l.prev[b] -> l.next[b]
                               [] OTHER -> l.next[x]],
   prev |-> [x \in Block |-> CASE x = b -> Null
                               [] x # b /\ x = l.next[b] -> l.prev[b]
                               [] OTHER -> l.prev[x]]]

\* Only b's own links say which words of which neighbours to write.
Removed(l, b) ==
  [head |-> IF l.prev[b] = Null THEN l.next[b] ELSE l.head,
   next |-> [x \in Block |-> CASE x = b -> Null
                               [] x # b /\ x = l.prev[b] -> l.next[b]
                               [] OTHER -> l.next[x]],
   prev |-> [x \in Block |-> CASE x = b -> Null
                               [] x # b /\ x = l.next[b] -> l.prev[b]
                               [] OTHER -> l.prev[x]]]

-----------------------------------------------------------------------------
(* Operations.                                                             *)

\* b is freed, is what merging left or is what splitting left over: n is what
\* its header says by now.
insert(b, n) ==
  /\ Unlocked /\ b \notin Listed
  /\ size' = [size EXCEPT ![b] = n]
  /\ fl' = Inserted(fl, b)
  /\ list' = Cons(b, list)
  /\ UNCHANGED <<want, cursor>>

\* b is handed out or absorbed.
remove(b) ==
  /\ Unlocked /\ b \in Listed
  /\ fl' = Removed(fl, b)
  /\ list' = RemoveAt(list, CHOOSE i \in DOMAIN list : list[i] = b)
  /\ UNCHANGED <<size, want, cursor>>

find_first_fit(n) ==
  /\ Unlocked
  /\ want' = n
  /\ cursor' = fl.head
  /\ UNCHANGED <<fl, size, list>>

\* A block that is exactly as large as wanted is passed over.
Fits_Faulty(b) == size[b] > want

Fits(b) == size[b] >= want

\* The loop looks at the first block again and again.
Advance_Faulty ==
  /\ ~Unlocked
  /\ cursor # Null /\ ~Fits(cursor)
  /\ cursor' = fl.head
  /\ UNCHANGED <<fl, size, list, want>>

Advance ==
  /\ ~Unlocked
  /\ cursor # Null /\ ~Fits(cursor)
  /\ cursor' = fl.next[cursor]
  /\ UNCHANGED <<fl, size, list, want>>

\* The search returns a block, or nullptr.
Return ==
  /\ ~Unlocked
  /\ cursor # Null => Fits(cursor)
  /\ want' = 0
  /\ UNCHANGED <<fl, size, list, cursor>>

\* Whoever has the bytes of a block that is not in the list writes to them,
\* mutex or no mutex.
Write(b, n, p) ==
  /\ b \notin Listed
  /\ fl' = [fl EXCEPT !.next[b] = n, !.prev[b] = p]
  /\ UNCHANGED <<size, list, want, cursor>>

Next ==
  \/ \E b \in Block : \/ \E n \in PayloadSizes : insert(b, n)
                      \/ remove(b)
                      \/ \E n, p \in Data : Write(b, n, p)
  \/ \E n \in Requests : find_first_fit(n)
  \/ Advance
  \/ Return

\* The thread in find_first_fit() holds the mutex and waits for nothing: it
\* runs on, whatever callers do to their payloads meanwhile.
Fairness == WF_vars(Advance) /\ WF_vars(Return)

Spec == Init /\ [][Next]_vars /\ Fairness

-----------------------------------------------------------------------------
(* Properties.                                                             *)

Link == Block \cup {Null}
Word == Link \cup Data

\* Every variable has its type.  head_ and the cursor are never data.
TypeOK ==
  /\ fl = [head |-> fl.head, next |-> fl.next, prev |-> fl.prev]
  /\ fl.head \in Link
  /\ fl.next \in [Block -> Word] /\ fl.prev \in [Block -> Word]
  /\ size \in [Block -> PayloadSizes \cup {0}]
  /\ list \in Seq(Block)
  /\ want \in Requests \cup {0}
  /\ cursor \in Link

\* The block at position i of a list s, or null before and after it.
At(s, i) == IF i \in DOMAIN s THEN s[i] ELSE Null

\* The words l spell the list s, forwards and backwards.
Spells(l, s) ==
  /\ l.head = At(s, 1)
  /\ \A i \in DOMAIN s : l.next[s[i]] = At(s, i + 1) /\ l.prev[s[i]] = At(s, i - 1)

\* FreeList::remove() from anywhere, in any order, through links that lie in
\* payloads which change hands: head_ and the words of the listed blocks
\* spell the list, whatever was done to other blocks.
LinksSpellList == IsInjective(list) /\ Spells(fl, list)

\* Position i is where a search for n bytes is to end.
FirstFit(i, n) ==
  /\ i \in DOMAIN list => size[list[i]] >= n
  /\ \A j \in 1..(i - 1) : size[list[j]] < n

\* find_first_fit() returns the first block in the list that is large enough,
\* and nullptr only if there is none, although it follows words laid over
\* payloads.
ReturnsFirstFit ==
  [][Unlocked' /\ ~Unlocked =>
       \E i \in 1..(Len(list) + 1) : cursor = At(list, i) /\ FirstFit(i, want)]_vars

\* The walk through the list ends: the links make no cycle, and callers that
\* keep writing to their payloads do not keep it from ending.
SearchReturns == ~Unlocked ~> Unlocked
=============================================================================
