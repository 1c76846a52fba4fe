----------------------------- MODULE MCMembership -----------------------------
(* Model values and symmetry for checking Membership. *)
EXTENDS Membership, TLC

CONSTANTS u1, u2, u3, u4, r1, c1, c2

ThreeUsers == {u1, u2, u3}
FourUsers == {u1, u2, u3, u4}
OneReservation == {r1}
TwoConnections == {c1, c2}

\* For runs without liveness: users and connections are only compared for equality.
Symmetry == Permutations(Users) \union Permutations(Connections)
===============================================================================
