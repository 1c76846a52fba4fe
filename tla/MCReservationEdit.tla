-------------------------- MODULE MCReservationEdit --------------------------
(* Model values for checking ReservationEdit. *)
EXTENDS ReservationEdit

CONSTANTS u1, q1, q2, t1

OneUser == {u1}
OneTitle == {t1}
TwoRequests == {q1, q2}
===============================================================================
