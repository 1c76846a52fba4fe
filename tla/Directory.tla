------------------------------- MODULE Directory -------------------------------
(***************************************************************************)
(* What the users table promises about devices, free of requests: an       *)
(* account is opened for a device that has none, and belongs to it for     *)
(* good.                                                                   *)
(***************************************************************************)
CONSTANTS Devices, Ids, NoDevice

VARIABLE owner      \* owner[i]: the device of account i, NoDevice before it is opened

Init == owner = [i \in Ids |-> NoDevice]

Open(i, d) ==
    /\ owner[i] = NoDevice
    /\ \A j \in Ids : owner[j] # d
    /\ owner' = [owner EXCEPT ![i] = d]

Next == \E i \in Ids, d \in Devices : Open(i, d)

Spec == Init /\ [][Next]_owner
===============================================================================
