------------------------------- MODULE Schedule -------------------------------
(***************************************************************************)
(* What a reservation promises about the time it takes place, free of      *)
(* requests, rows and transactions.  The time only changes to one that was *)
(* planned, and planning asks that both the reservation and the planned    *)
(* time lie in the future.  It does not promise that they still do when    *)
(* the plan is carried out, nor that plans are carried out in their order. *)
(***************************************************************************)
EXTENDS Integers

CONSTANTS
    MaxTime,        \* the clock stops here
    NoTime

Times == 0..MaxTime

VARIABLES
    now,        \* the clock
    time,       \* when the reservation takes place, NoTime before it exists
    planned     \* the times open edits may still give it

vars == <<now, time, planned>>

Init ==
    /\ now = 0
    /\ time = NoTime
    /\ planned = {}

Tick ==
    /\ now < MaxTime
    /\ now' = now + 1
    /\ UNCHANGED <<time, planned>>

Open(t) ==
    /\ time = NoTime
    /\ time' = t
    /\ UNCHANGED <<now, planned>>

Plan(t) ==
    /\ time # NoTime
    /\ now < time /\ now < t
    /\ planned' = planned \union {t}
    /\ UNCHANGED <<now, time>>

\* A plan is carried out, and given up unless another edit has it too.
Apply(t) ==
    /\ t \in planned
    /\ time' = t
    /\ planned' \in {planned, planned \ {t}}
    /\ UNCHANGED now

GiveUp ==
    /\ planned' \in SUBSET planned
    /\ UNCHANGED <<now, time>>

Next ==
    \/ Tick
    \/ \E t \in Times : Open(t) \/ Plan(t) \/ Apply(t)
    \/ GiveUp

Spec == Init /\ [][Next]_vars
===============================================================================
