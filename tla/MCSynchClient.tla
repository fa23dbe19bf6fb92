---------------------------- MODULE MCSynchClient ----------------------------
(***************************************************************************)
(* Small instances of SynchClient.                                         *)
(***************************************************************************)
EXTENDS SynchClient, TLC

CONSTANTS main, t1, t2, t3, sem, lock, cond

=============================================================================
