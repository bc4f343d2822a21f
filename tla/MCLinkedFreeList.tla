-------------------------- MODULE MCLinkedFreeList --------------------------
(***************************************************************************)
(* LinkedFreeList for TLC: three blocks, so that one has neighbours on     *)
(* both sides, two sizes with a request for either and one for more, and   *)
(* payloads that hold what looks like a link to a block, or like none.      *)
(***************************************************************************)
EXTENDS LinkedFreeList

CONSTANTS Junk, OneBlock

MCData == {Junk, OneBlock}
MCPayloadSizes == {1, 2}
MCRequests == {1, 2, 3}
=============================================================================
