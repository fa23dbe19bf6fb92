---------------------------- MODULE MCSynchDisk -----------------------------
(***************************************************************************)
(* SynchDisk with a few callers.                                           *)
(***************************************************************************)
EXTENDS SynchDisk, TLC

CONSTANTS main, t1, t2

=============================================================================
