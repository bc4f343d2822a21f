--------------------------- MODULE ModestRequests ---------------------------
(***************************************************************************)
(* GeneralHeap for clients that stay away from the end of std::size_t: no  *)
(* request is so large that rounding it up to the alignment, adding the    *)
(* tags and rounding up to a page wraps around.  my_calloc checks its      *)
(* product; nothing else in the code checks a sum, so what it does is only *)
(* right for such requests.                                                *)
(***************************************************************************)
EXTENDS GeneralHeap

\* The sizes that reach the general path of my_malloc.
Sizes ==
  Requests \cup {n \in {a[1] * a[2] : a \in Arrays} : n \in (LargestSizeClass + 1)..SizeMax}

Slack == (Alignment - 1) + HeaderSize + FooterSize + (PageSize - 1)

ASSUME SlackAssumption == /\ \A n \in Sizes : n + Slack <= SizeMax
                          /\ ArenaSize + Slack <= SizeMax
=============================================================================
