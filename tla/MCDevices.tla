----------------------------- MODULE MCDevices ------------------------------
(***************************************************************************)
(* Instances of Devices for model checking.  The times are small, so that  *)
(* interrupts fall on the same tick and on different ones.                 *)
(***************************************************************************)
EXTENDS Devices

CONSTANTS u, v

Typed == <<"a", "b", "q">>

Machine(threads, rs, maxTicks, maxRequests) ==
    [threads |-> threads, rs |-> rs, MaxTicks |-> maxTicks, MaxRequests |-> maxRequests]

\* Programs, the console and the disk, with and without time slices.
AllSettings ==
    {Machine({u, v}, TRUE, 24, 0),
     Machine({Echo, u}, TRUE, 26, 0),
     Machine({Client}, FALSE, 60, 3),
     Machine({Client, u}, TRUE, 22, 2),
     Machine({Echo, Client}, FALSE, 50, 2)}

=============================================================================
