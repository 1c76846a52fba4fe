--------------------------- MODULE MCNotifications ---------------------------
(* Model values, notification times and symmetry for checking Notifications. *)
EXTENDS Notifications, TLC

CONSTANTS u1, u2, r1, r2, j1, j2

OneUser == {u1}
TwoUsers == {u1, u2}
OneReservation == {r1}
TwoReservations == {r1, r2}
TwoJobs == {j1, j2}
NoMidnights == {}
OneMidnight == {2}

\* The four types of the source, an hour being three minutes of the model.
BeforeAndAfter == <<1, -1>>
FourTypes == <<3, 2, 1, -1>>
ThreeTypes == <<2, 1, -1>>

\* Users, reservations and jobs are only compared for equality.
Symmetry == Permutations(Users) \union Permutations(Reservations) \union Permutations(Jobs)
===============================================================================
