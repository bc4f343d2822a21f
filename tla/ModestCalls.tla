---------------------------- MODULE ModestCalls ----------------------------
(***************************************************************************)
(* Allocator for clients that stay away from the end of std::size_t, as    *)
(* ModestRequests has it for the general path: no size of a block, of an   *)
(* arena or of the region that a pool maps wraps around.                   *)
(***************************************************************************)
EXTENDS Allocator

Slack == (Alignment - 1) + HeaderSize + FooterSize + (PageSize - 1)

ASSUME CallsAssumption ==
  /\ Requests \subseteq Nat
  /\ \A n \in Requests \cup {ArenaSize} : n + Slack <= SizeMax
  /\ \A i \in Classes : slot_total_size(i) * kSlotsPerArena + (PageSize - 1) <= SizeMax
=============================================================================
