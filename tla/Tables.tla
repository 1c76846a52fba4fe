-------------------------------- MODULE Tables --------------------------------
(***************************************************************************)
(* The tables of reservations as everybody who only reads them sees them   *)
(* change: each action is the COMMIT of one operation.  That creations and *)
(* joins change the rosters this way is what Membership implements, and    *)
(* that results are recorded this way is what Participation implements;    *)
(* moving a reservation is the transaction of ReservationEdit, which       *)
(* checks the times when it begins and not when it commits.                *)
(***************************************************************************)
EXTENDS Integers, FiniteSets, FiniteSetsExt

CONSTANTS
    Users,
    Reservations,
    Limit,          \* the bound Membership proves for rosters
    MaxTime,        \* the clock stops here
    MaxMoves,       \* bound on the edits that move reservations, committed or open
    MaxRows,        \* bound on the rows of user_reservations and reservation_results
    Results,        \* the results that are recorded
    NoUser, NoTime, NoResult

Times == 0..MaxTime
Move == [res : Reservations, to : Times]

ASSUME BoundsAssumption == MaxTime \in Nat /\ MaxMoves \in Nat /\ Limit \in Nat
ASSUME NobodyAssumption ==
    /\ NoUser \notin Users /\ NoTime \notin Times
ASSUME ResultsAssumption ==
    /\ Results \subseteq {"SUCCESS", "HALF_SUCCESS", "FAIL"}
    /\ NoResult \notin {"SUCCESS", "HALF_SUCCESS", "FAIL"}
ASSUME FiniteAssumption == IsFiniteSet(Users) /\ IsFiniteSet(Reservations)

VARIABLES
    now,        \* the clock
    host,       \* host[r]: the host of r, NoUser before it is created
    members,    \* members[r]: the users who take part in r
    time,       \* time[r]: when r takes place
    moving,     \* the moves open edits have validated
    moves,      \* how often reservations have been moved
    result      \* result[r]: the results recorded for r, by user

tables == <<now, host, members, time, moving, moves, result>>

Created(r) == host[r] # NoUser

TablesTypeOK ==
    /\ now \in Times
    /\ host \in [Reservations -> Users \union {NoUser}]
    /\ members \in [Reservations -> SUBSET Users]
    /\ time \in [Reservations -> Times \union {NoTime}]
    /\ moving \in SUBSET Move
    /\ moves \in 0..MaxMoves
    /\ result \in [Reservations -> [Users -> Results \union {NoResult}]]
    /\ \A r \in Reservations : Created(r) => time[r] \in Times

TablesInit ==
    /\ now = 0
    /\ host = [r \in Reservations |-> NoUser]
    /\ members = [r \in Reservations |-> {}]
    /\ time = [r \in Reservations |-> NoTime]
    /\ moving = {}
    /\ moves = 0
    /\ result = [r \in Reservations |-> [u \in Users |-> NoResult]]

Tick ==
    /\ now < MaxTime
    /\ now' = now + 1
    /\ UNCHANGED <<host, members, time, moving, moves, result>>

Rosters == INSTANCE Roster

Recorded(r) == {u \in Users : result[r][u] # NoResult}

\* A reservation that does not exist has no members, and only members have results.
RowsFollowReservation ==
    \A r \in Reservations :
        /\ ~ Created(r) => members[r] = {}
        /\ Recorded(r) \subseteq members[r]

Rows == MapThenSumSet(LAMBDA r : Cardinality(members[r]) + Cardinality(Recorded(r)), Reservations)

\* createReservation; nothing asks its time to lie in the future.
Create(r, u, t) ==
    /\ Rosters!Open(r, u)
    /\ Rows < MaxRows
    /\ time' = [time EXCEPT ![r] = t]
    /\ UNCHANGED <<now, moving, moves, result>>

\* joinReservation.
Join(r, u) ==
    /\ Rosters!Enter(r, u)
    /\ Rows < MaxRows
    /\ UNCHANGED <<now, time, moving, moves, result>>

MovesInBound == moves + Cardinality(moving) <= MaxMoves

\* updateReservation finds r not started and its new time in the future.
ValidateMove(r, t) ==
    /\ Created(r)
    /\ now < time[r] /\ now < t
    /\ moving' = moving \union {[res |-> r, to |-> t]}
    /\ UNCHANGED <<now, host, members, time, moves, result>>
    /\ MovesInBound'

\* Its transaction commits, whatever the clock says by then; another edit may
\* still be about to make the same move.
CommitMove(m) ==
    /\ moves < MaxMoves
    /\ time' = [time EXCEPT ![m.res] = m.to]
    /\ moving' \in {moving, moving \ {m}}
    /\ moves' = moves + 1
    /\ UNCHANGED <<now, host, members, result>>
    /\ MovesInBound'

\* Edits fail, or leave the time alone.
DropMoves ==
    /\ moving' \in SUBSET moving
    /\ UNCHANGED <<now, host, members, time, moves, result>>

\* createReservationResult, at any time.
Record(r, u, s) ==
    /\ u \in members[r]
    /\ result[r][u] = NoResult
    /\ Rows < MaxRows
    /\ result' = [result EXCEPT ![r][u] = s]
    /\ UNCHANGED <<now, host, members, time, moving, moves>>

Change ==
    \/ Tick
    \/ \E m \in moving : CommitMove(m)
    \/ DropMoves
    \/ \E r \in Reservations :
           \/ \E u \in Users, t \in Times : Create(r, u, t)
           \/ \E u \in Users : Join(r, u)
           \/ \E t \in Times : ValidateMove(r, t)
           \/ \E u \in Users, s \in Results : Record(r, u, s)

-------------------------------------------------------------------------------
\* What the writers are shown to implement, for one reservation each: its time as
\* ReservationEdit leaves it, its members and results as Participation does.
Schedules(r) == INSTANCE Schedule WITH
    time <- IF Created(r) THEN time[r] ELSE NoTime,
    planned <- {m.to : m \in {m \in moving : m.res = r}}

Ledgers(r) == INSTANCE Ledger WITH members <- members[r], result <- result[r]
===============================================================================
