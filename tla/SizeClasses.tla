---------------------------- MODULE SizeClasses ----------------------------
(***************************************************************************)
(* The size classes of memory_pool.hpp and the two scans over them.  There *)
(* is no state here.  Pools are numbered from 1, in the order of           *)
(* kSizeClasses.                                                           *)
(***************************************************************************)
EXTENDS Integers, Sequences

kSizeClasses == <<16, 32, 64, 128, 256, 512, 1024, 2048, 4096>>

Classes == DOMAIN kSizeClasses

\* What size_class_for() says when no class fits.
NoClass == 0

\* Class i can hold n bytes.
FitsClass(n, i) == n <= kSizeClasses[i]

\* size_class_for(), as an index: where the scan for n bytes stops.
class_for(n) ==
  IF \E i \in Classes : FitsClass(n, i)
  THEN CHOOSE i \in Classes : FitsClass(n, i) /\ \A j \in 1..(i - 1) : ~FitsClass(n, j)
  ELSE NoClass

\* What class_for is to come to: the smallest class that holds n bytes.
SmallestClass(n, i) ==
  /\ i \in Classes /\ kSizeClasses[i] >= n
  /\ \A j \in Classes : kSizeClasses[j] >= n => kSizeClasses[j] >= kSizeClasses[i]
=============================================================================
