-------------------------------- MODULE Roster --------------------------------
(***************************************************************************)
(* What reservations promise about who takes part in them, free of         *)
(* requests, transactions and connections.  A reservation is opened by a   *)
(* host, who is its first member; members enter one at a time, nobody      *)
(* leaves, the host never changes, and no roster grows beyond Limit.       *)
(***************************************************************************)
EXTENDS Integers, FiniteSets

CONSTANTS Users, Reservations, NoUser, Limit

VARIABLES
    host,       \* host[r]: the host of reservation r, NoUser before it is opened
    members     \* members[r]: the users who take part in r

vars == <<host, members>>

Init ==
    /\ host = [r \in Reservations |-> NoUser]
    /\ members = [r \in Reservations |-> {}]

\* u opens reservation r and is its first member.
Open(r, u) ==
    /\ host[r] = NoUser
    /\ host' = [host EXCEPT ![r] = u]
    /\ members' = [members EXCEPT ![r] = {u}]

\* u, not yet a member of the open reservation r, enters it.
Enter(r, u) ==
    /\ host[r] # NoUser
    /\ u \notin members[r]
    /\ Cardinality(members[r]) < Limit
    /\ members' = [members EXCEPT ![r] = @ \union {u}]
    /\ UNCHANGED host

Next == \E r \in Reservations, u \in Users : Open(r, u) \/ Enter(r, u)

Spec == Init /\ [][Next]_vars
===============================================================================
