---------------------------- MODULE MCPostOffice ----------------------------
(***************************************************************************)
(* PostOffice with a worker and three threads that send or receive.        *)
(***************************************************************************)
EXTENDS PostOffice, TLC

CONSTANTS
    main, worker, s1, r1, u,
    box0, lock0, cond0

OneBoxLock == box0 :> lock0
OneBoxCond == box0 :> cond0

BothReadBoxZero == (r1 :> box0) @@ (u :> box0)

\* Two senders and nobody who receives, or one sender and two receivers.
Small == {p \in Program :
    \/ p.mails = (s1 :> 1) @@ (u :> 1) /\ p.receivers = {}
    \/ p.mails = (s1 :> 2) @@ (u :> 0) /\ p.receivers = {r1, u}}

=============================================================================
