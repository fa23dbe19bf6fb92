----------------------------- MODULE MCBarrier ------------------------------
(***************************************************************************)
(* Barrier with three threads.                                             *)
(***************************************************************************)
EXTENDS Barrier

CONSTANTS main, t1, t2

TwoForked == <<t1, t2>>

=============================================================================
