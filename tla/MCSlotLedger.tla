---------------------------- MODULE MCSlotLedger ----------------------------
(***************************************************************************)
(* SlotLedger for TLC: batch 2 and cap 4, so that five of six slots make   *)
(* a cache pass its cap, with the sixth left for another thread.           *)
(***************************************************************************)
EXTENDS SlotLedger, TLC

CONSTANTS s1, s2, s3, s4, s5, s6

MCRegions == {{s1, s2, s3}, {s4, s5, s6}}

Symmetric == Permutations(Threads) \cup Permutations(Pools)
=============================================================================
