---------------------------- MODULE MCParticipation ----------------------------
(* Model values and symmetry for checking Participation. *)
EXTENDS Participation, TLC

CONSTANTS u1, u2, q1, q2

TwoUsers == {u1, u2}
OneUser == {u1}
TwoRequests == {q1, q2}

\* Requests are only compared for equality.
Symmetry == Permutations(Requests)
===============================================================================
