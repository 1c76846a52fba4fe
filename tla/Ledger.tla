-------------------------------- MODULE Ledger --------------------------------
(***************************************************************************)
(* What a reservation promises about the results of its members, free of   *)
(* requests, statuses and transactions: users enter and stay, each member  *)
(* records at most one result, nobody else records one, and a recorded     *)
(* result never changes.                                                   *)
(***************************************************************************)
CONSTANTS Users, Results, NoResult

VARIABLES
    members,    \* the users who take part
    result      \* result[u]: what u has recorded

vars == <<members, result>>

Init ==
    /\ members = {}
    /\ result = [u \in Users |-> NoResult]

Enter(u) ==
    /\ u \notin members
    /\ members' = members \union {u}
    /\ UNCHANGED result

Record(u, r) ==
    /\ u \in members
    /\ result[u] = NoResult
    /\ result' = [result EXCEPT ![u] = r]
    /\ UNCHANGED members

Next == \E u \in Users : Enter(u) \/ \E r \in Results : Record(u, r)

Spec == Init /\ [][Next]_vars
===============================================================================
