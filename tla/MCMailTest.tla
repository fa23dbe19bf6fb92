----------------------------- MODULE MCMailTest -----------------------------
(***************************************************************************)
(* MailTest with three machines: a pair and a machine that is its own      *)
(* peer, or three of the latter.                                           *)
(***************************************************************************)
EXTENDS MailTest

CONSTANTS m0, m1, m2

=============================================================================
