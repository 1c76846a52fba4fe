-------------------------------- MODULE MCViews --------------------------------
(* Model values and symmetry for checking Views. *)
EXTENDS Views, TLC

CONSTANTS u1, u2, r1, r2, r3

TwoUsers == {u1, u2}
ThreeReservations == {r1, r2, r3}
SuccessOrFail == {"SUCCESS", "FAIL"}
OnlyOne == {1}

\* Reservations are only compared for equality.
Symmetry == Permutations(Reservations)
===============================================================================
