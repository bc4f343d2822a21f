---------------------------- MODULE MCAllocator ----------------------------
(***************************************************************************)
(* Allocator for TLC: pages of 96 bytes and three places for mappings that *)
(* touch.  The requests are of the first class, of the last class and of   *)
(* the general path, of one byte more and of two such blocks:              *)
(*   16 + 16 = 32          three slots in the page an arena is rounded to, *)
(*   16 + 4096 -> 4128     one slot, and 16 bytes that are not one,        *)
(*   4112 + 32 + 4112      two smallest blocks of the general path merge   *)
(*                         into the 8256 of the largest request.           *)
(* The contract is checked on two places, 43 pages apart, so that an arena *)
(* of the last class touches one of the general path.                      *)
(***************************************************************************)
EXTENDS ModestCalls, TLC

MCSizeMax   == 65535
MCPageSize  == 96
MCArenaSize == 8352
MCBases     == {9600, 9696, 13824}
ContractBases == {9600, 13728}
MCRequests  == {10, 4096, 4097, 8250}
MCPoolObject == [i \in Classes |-> 50000 + 160 * i]

Symmetric == Permutations(Clients)
=============================================================================
