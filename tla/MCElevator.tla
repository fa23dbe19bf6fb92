----------------------------- MODULE MCElevator -----------------------------
(***************************************************************************)
(* Elevator with up to three passengers.                                   *)
(***************************************************************************)
EXTENDS Elevator, TLC

CONSTANTS main, elevator, p1, p2, p3

ThreePassengers == <<p1, p2, p3>>

FromTo(i, j) == [at |-> i, to |-> j]

\* Without time slices: any trips of three passengers.
AnyTrips == [rs : {FALSE}, trip : [{p1, p2, p3} -> Trip]]

\* With time slices: any trips of two passengers beside an illegal third one, and one
\* case with three passengers, two of which leave the same floor.
SlicedTrips ==
    [rs : {TRUE},
     trip : {t \in [{p1, p2, p3} -> Trip] : t[p3] = FromTo(1, 1)}
            \cup {(p1 :> FromTo(2, 3)) @@ (p2 :> FromTo(2, 1)) @@ (p3 :> FromTo(3, 1))}]

AllTests == AnyTrips \cup SlicedTrips

=============================================================================
