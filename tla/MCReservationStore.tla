-------------------------- MODULE MCReservationStore --------------------------
(***************************************************************************)
(* Instances of ReservationStore small enough for TLC.                     *)
(***************************************************************************)
EXTENDS ReservationStore

CONSTANTS p1, p2, o1, o2

MCPartners == {p1, p2}
MCOrders == {o1, o2}

(* Readings a stepped wall clock may jump to: back to the start, and ahead. *)
MCWallSteps == {0, 7}

=============================================================================
