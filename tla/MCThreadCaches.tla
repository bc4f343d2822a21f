--------------------------- MODULE MCThreadCaches ---------------------------
(***************************************************************************)
(* ThreadCaches for TLC.  The batch of 32, the cap of 64 and the 256 slots *)
(* of an arena are scaled down so that each limit is met:                  *)
(*   Flush  batch 2, cap 4, 6 slots: a cache passes its cap with one slot  *)
(*          still allocated, and a refill of 2 from a list of 1 spans two  *)
(*          arenas of 3 slots or comes out partial,                        *)
(*   Route  batch 1, cap 2, 6 slots, two pools with an arena each or one   *)
(*          with both: a cache of each pool passes its cap,                *)
(*   Locked no caches: two pools of three arenas of 2 slots,               *)
(*   Exit   batch 1, cap 2: two threads one after the other leave more     *)
(*          than the cap behind.                                           *)
(***************************************************************************)
EXTENDS ThreadCaches, TLC

Symmetric == Permutations(Threads) \cup Permutations(Pools)
=============================================================================
