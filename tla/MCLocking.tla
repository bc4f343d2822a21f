----------------------------- MODULE MCLocking -----------------------------
(***************************************************************************)
(* Locking for TLC: all three stages, three threads, so that two can keep  *)
(* passing a mutex to each other while the third waits, two pools and the  *)
(* general path.                                                           *)
(***************************************************************************)
EXTENDS Locking

AllStages == 1..3
=============================================================================
