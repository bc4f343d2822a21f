--------------------------- MODULE MCGeneralHeap ---------------------------
(***************************************************************************)
(* Two instances of GeneralHeap for TLC, both with pages of 4096 bytes and *)
(* a std::size_t of 16 bits.                                               *)
(*                                                                         *)
(* Touching: arenas of three pages at bases three pages apart, so that the *)
(* second begins where the first ends.  The requests take payloads of      *)
(* 4112, 4160 and 8112 bytes:                                              *)
(*   4112 + 8112 + 2 * 32 = 12288  two blocks fill an arena to its end, so *)
(*                                 that blocks of two arenas touch,        *)
(*   4160 - 4112 = 48              a remainder that is just kMinBlockSize, *)
(*   12256 - 4160 - 32 = 8064      a remainder only a smaller request can  *)
(*                                 use, so that reuse splits again.        *)
(*                                                                         *)
(* Single: one arena of four pages, or of five when the first request is   *)
(* larger than arena_size().  Payloads 4112, 4160, 8288 and 16400:         *)
(*   4112 + 32 + 4160 = 8304       a merge that leaves a sliver of 16,     *)
(*   8288 - 4112 - 32 = 4144       a remainder whose reuse leaves one of 32*)
(*   16400 + 32 > 16384            an arena made for one request.          *)
(***************************************************************************)
EXTENDS ModestRequests, TLC

MCPageSize == 4096
MCSizeMax  == 65535

\* 2 * 2050 = 4100, and 3 * 23212 = 65536 + 4100 comes to it.
MCArrays == {<<2, 2050>>, <<3, 23212>>}

TouchingArenaSize == 12288
TouchingBases     == {12288, 24576}
TouchingRequests  == {4100, 4150, 8100}

SingleArenaSize == 16384
SingleBases     == {16384}
SingleRequests  == {4100, 4150, 8280, 16400}

Symmetric == Permutations(Clients)
=============================================================================
