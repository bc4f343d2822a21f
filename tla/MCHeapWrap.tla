----------------------------- MODULE MCHeapWrap -----------------------------
(***************************************************************************)
(* GeneralHeap with a request at the end of a std::size_t of 16 bits:      *)
(* 65530 + 15 wraps around to 9, which rounds down to a payload of 0.      *)
(***************************************************************************)
EXTENDS GeneralHeap

MCPageSize  == 4096
MCSizeMax   == 65535
MCArenaSize == 16384
MCBases     == {16384}
MCRequests  == {4100, 65530}
=============================================================================
