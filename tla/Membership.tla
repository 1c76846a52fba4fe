------------------------------ MODULE Membership ------------------------------
(***************************************************************************)
(* Creating and joining reservations (reservations.service.ts), over the   *)
(* tables reservations and user_reservations.                              *)
(*                                                                         *)
(* Each of the two operations is one database transaction, and each holds  *)
(* one connection of the pool from its first statement to its COMMIT or    *)
(* ROLLBACK; so the processes of this module are the connections, and a    *)
(* connection serves any number of requests, one after the other.  Every   *)
(* await of the source is a point where other transactions may run.  The   *)
(* isolation level is PostgreSQL's default, READ COMMITTED: a statement    *)
(* sees the rows committed when it starts, a row inserted by an open       *)
(* transaction is invisible, and an INSERT that meets an uncommitted row   *)
(* of the same unique key waits for the transaction that owns it.          *)
(*                                                                         *)
(* Each definition marked "Bug:" is a plausible error in the one after it, *)
(* kept to show that some property of the module would notice it.          *)
(***************************************************************************)
EXTENDS Integers, FiniteSets

CONSTANTS
    Users,
    Reservations,       \* the ids the sequence of the reservations table hands out
    Connections,        \* the connections of the pool (node-postgres: 10 by default)
    MaxParticipants,    \* 30 in the source
    MaxFaults,          \* bound on lost connections and restarts in a behaviour
    NoUser,
    NoRequest

ASSUME MaxParticipantsAssumption == MaxParticipants \in Nat \ {0}
ASSUME ConnectionsAssumption == IsFiniteSet(Connections)
ASSUME MaxFaultsAssumption == MaxFaults \in Nat
ASSUME NoUserAssumption == NoUser \notin Users
ASSUME NoRequestAssumption == NoRequest \notin [user : Users, res : Reservations]

VARIABLES
    host,       \* committed rows of reservations: the host, NoUser where there is no row
    members,    \* committed rows of user_reservations, by reservation
    allocated,  \* ids the sequence has handed out; a rolled back INSERT does not return its id
    pc,         \* what the transaction of a connection does next, "idle" between transactions
    req,        \* the user and the reservation of the connection's last request
    answer,     \* how that request was answered, "none" while it runs
    faults      \* lost connections and restarts so far

vars == <<host, members, allocated, pc, req, answer, faults>>

Request == [user : Users, res : Reservations]

Joining == {"findExisting", "count", "insert", "commitJoin"}
Creating == {"saveMember", "commitCreate"}

Outcomes == {"none", "created", "joined", "NotFound", "AlreadyJoined", "Full",
             "UniqueViolation", "ServerError"}

Exists(r) == host[r] # NoUser

TypeOK ==
    /\ host \in [Reservations -> Users \union {NoUser}]
    /\ members \in [Reservations -> SUBSET Users]
    /\ allocated \in SUBSET Reservations
    /\ pc \in [Connections -> {"idle"} \union Joining \union Creating]
    /\ req \in [Connections -> Request \union {NoRequest}]
    /\ answer \in [Connections -> Outcomes]
    /\ faults \in 0..MaxFaults
    /\ \A c \in Connections : pc[c] # "idle" \/ answer[c] # "none" => req[c] \in Request

Init ==
    /\ host = [r \in Reservations |-> NoUser]
    /\ members = [r \in Reservations |-> {}]
    /\ allocated = {}
    /\ pc = [c \in Connections |-> "idle"]
    /\ req = [c \in Connections |-> NoRequest]
    /\ answer = [c \in Connections |-> "none"]
    /\ faults = 0

-------------------------------------------------------------------------------
\* Bug: the two numbers a handler passes to its service are swapped.
ReceiveSwapped(c, u, r) ==
    /\ pc[c] = "idle"
    /\ req' = [req EXCEPT ![c] = [user |-> r, res |-> u]]

\* A request of user u about reservation r takes the idle connection c.
Receive(c, u, r) ==
    /\ pc[c] = "idle"
    /\ req' = [req EXCEPT ![c] = [user |-> u, res |-> r]]

\* The transaction of c goes on with label.
Continue(c, label) ==
    /\ pc' = [pc EXCEPT ![c] = label]
    /\ answer' = [answer EXCEPT ![c] = "none"]

\* The transaction of c ends and its request is answered with outcome.
Finish(c, outcome) ==
    /\ pc' = [pc EXCEPT ![c] = "idle"]
    /\ answer' = [answer EXCEPT ![c] = outcome]

-------------------------------------------------------------------------------
(* createReservation *)

\* Bug: the INSERT of the reservation runs outside the transaction.
SaveReservationCommitted(c, u, r) ==
    /\ Receive(c, u, r)
    /\ r \notin allocated
    /\ allocated' = allocated \union {r}
    /\ host' = [host EXCEPT ![r] = u]
    /\ Continue(c, "saveMember")
    /\ UNCHANGED <<members, faults>>

\* INSERT INTO reservations: the row takes a fresh id and stays invisible.
SaveReservation(c, u, r) ==
    /\ Receive(c, u, r)
    /\ r \notin allocated
    /\ allocated' = allocated \union {r}
    /\ Continue(c, "saveMember")
    /\ UNCHANGED <<host, members, faults>>

\* INSERT INTO images and INSERT INTO user_reservations for the host, invisible too.
SaveMember(c) ==
    /\ pc[c] = "saveMember"
    /\ Continue(c, "commitCreate")
    /\ UNCHANGED <<host, members, allocated, req, faults>>

\* Bug: the host's row of user_reservations is not saved.
PublishReservationAlone(c) ==
    /\ pc[c] = "commitCreate"
    /\ host' = [host EXCEPT ![req[c].res] = req[c].user]
    /\ UNCHANGED <<members, allocated, req>>

\* The reservation and its first member become visible together.
PublishReservation(c) ==
    /\ pc[c] = "commitCreate"
    /\ host' = [host EXCEPT ![req[c].res] = req[c].user]
    /\ members' = [members EXCEPT ![req[c].res] = @ \union {req[c].user}]
    /\ UNCHANGED <<allocated, req>>

CommitCreate(c) ==
    /\ PublishReservation(c)
    /\ Finish(c, "created")
    /\ UNCHANGED faults

-------------------------------------------------------------------------------
(* joinReservation *)

\* Bug: a reservation that is not found is not refused.
FindReservationUnchecked(c, u, r) ==
    /\ Receive(c, u, r)
    /\ Continue(c, "findExisting")
    /\ UNCHANGED <<host, members, allocated, faults>>

FindReservation(c, u, r) ==
    /\ Receive(c, u, r)
    /\ IF Exists(r)
       THEN Continue(c, "findExisting")
       ELSE Finish(c, "NotFound")
    /\ UNCHANGED <<host, members, allocated, faults>>

FindExisting(c) ==
    /\ pc[c] = "findExisting"
    /\ IF req[c].user \in members[req[c].res]
       THEN Finish(c, "AlreadyJoined")
       ELSE Continue(c, "count")
    /\ UNCHANGED <<host, members, allocated, req, faults>>

\* Bug: the maximum compared with > instead of >=.
CountOneTooMany(c) ==
    /\ pc[c] = "count"
    /\ IF Cardinality(members[req[c].res]) > MaxParticipants
       THEN Finish(c, "Full")
       ELSE Continue(c, "insert")
    /\ UNCHANGED <<host, members, allocated, req, faults>>

Count(c) ==
    /\ pc[c] = "count"
    /\ IF Cardinality(members[req[c].res]) >= MaxParticipants
       THEN Finish(c, "Full")
       ELSE Continue(c, "insert")
    /\ UNCHANGED <<host, members, allocated, req, faults>>

\* Another open transaction has inserted the row c wants to insert.
KeyHeld(c) ==
    \E d \in Connections \ {c} : pc[d] = "commitJoin" /\ req[d] = req[c]

\* Bug: the unique constraint on user and reservation is missing.
InsertUnconstrained(c) ==
    /\ pc[c] = "insert"
    /\ Continue(c, "commitJoin")
    /\ UNCHANGED <<host, members, allocated, req, faults>>

\* Bug: the request is answered before its transaction commits.
InsertAnswered(c) ==
    /\ pc[c] = "insert"
    /\ ~ KeyHeld(c)
    /\ req[c].user \notin members[req[c].res]
    /\ pc' = [pc EXCEPT ![c] = "commitJoin"]
    /\ answer' = [answer EXCEPT ![c] = "joined"]
    /\ UNCHANGED <<host, members, allocated, req, faults>>

\* Bug: an INSERT that fails is tried again until it succeeds.
InsertRetried(c) ==
    /\ pc[c] = "insert"
    /\ ~ KeyHeld(c)
    /\ IF req[c].user \in members[req[c].res]
       THEN Continue(c, "insert")
       ELSE Continue(c, "commitJoin")
    /\ UNCHANGED <<host, members, allocated, req, faults>>

\* A committed row of the same key fails the INSERT; nothing in joinReservation
\* or in the exception filter turns that error into one of the documented ones.
Insert(c) ==
    /\ pc[c] = "insert"
    /\ ~ KeyHeld(c)
    /\ IF req[c].user \in members[req[c].res]
       THEN Finish(c, "UniqueViolation")
       ELSE Continue(c, "commitJoin")
    /\ UNCHANGED <<host, members, allocated, req, faults>>

PublishMember(c) ==
    /\ pc[c] = "commitJoin"
    /\ members' = [members EXCEPT ![req[c].res] = @ \union {req[c].user}]
    /\ UNCHANGED <<host, allocated, req>>

CommitJoin(c) ==
    /\ PublishMember(c)
    /\ Finish(c, "joined")
    /\ UNCHANGED faults

-------------------------------------------------------------------------------
(* Faults: the connection is lost, with or without the COMMIT it had sent  *)
(* taking effect; or the process restarts and its clients hear nothing.    *)

Fault ==
    /\ faults < MaxFaults
    /\ faults' = faults + 1

Abort(c) ==
    /\ Fault
    /\ pc[c] # "idle"
    /\ Finish(c, "ServerError")
    /\ UNCHANGED <<host, members, allocated, req>>

LoseAcknowledgement(c) ==
    /\ Fault
    /\ PublishReservation(c) \/ PublishMember(c)
    /\ Finish(c, "ServerError")

Restart ==
    /\ Fault
    /\ pc' = [c \in Connections |-> "idle"]
    /\ req' = [c \in Connections |-> NoRequest]
    /\ answer' = [c \in Connections |-> "none"]
    /\ UNCHANGED <<host, members, allocated>>

-------------------------------------------------------------------------------
\* A step of the transaction open on c, which the server and the database owe.
Advance(c) ==
    \/ SaveMember(c) \/ CommitCreate(c)
    \/ FindExisting(c) \/ Count(c) \/ Insert(c) \/ CommitJoin(c)

Arrive(c) ==
    \E u \in Users, r \in Reservations : SaveReservation(c, u, r) \/ FindReservation(c, u, r)

Next ==
    \/ \E c \in Connections : Arrive(c) \/ Advance(c) \/ Abort(c) \/ LoseAcknowledgement(c)
    \/ Restart

\* Every open transaction goes on; nothing obliges clients to send requests
\* and nothing obliges connections to fail.
Fairness == \A c \in Connections : WF_vars(Advance(c))

Spec == Init /\ [][Next]_vars

FairSpec == Spec /\ Fairness

-------------------------------------------------------------------------------
(* Safety *)

\* The joins of r that have read a count below the maximum and not yet committed.
PastCheck(r) ==
    {c \in Connections : pc[c] \in {"insert", "commitJoin"} /\ req[c].res = r}

\* The count of joinReservation and its INSERT are not atomic, so the maximum
\* can be exceeded; but each transaction past the count occupies a connection,
\* so the excess is at most one short of the size of the pool.
Limit == MaxParticipants - 1 + Cardinality(Connections)

OvershootBounded == \A r \in Reservations : Cardinality(members[r]) <= Limit

\* createReservation is all or nothing: whatever fails between its three
\* INSERTs, there is never a reservation whose host is not a member of it, nor
\* a member of a reservation that does not exist.
HostIsMember ==
    \A r \in Reservations :
        IF Exists(r) THEN host[r] \in members[r] ELSE members[r] = {}

\* What a client was told stays true: who was told "joined", "created",
\* "AlreadyJoined" or got the constraint's error is a member, and a reservation
\* reported full is full.
AnswersHold ==
    \A c \in Connections :
        /\ answer[c] \in {"created", "joined", "AlreadyJoined", "UniqueViolation"} =>
               req[c].user \in members[req[c].res]
        /\ answer[c] = "Full" => Cardinality(members[req[c].res]) >= MaxParticipants

\* Concurrent joins of the same user to the same reservation succeed once: each
\* answer "joined" is the one that made the user a member.
JoinedOnce ==
    [][\A c \in Connections :
           answer[c] # "joined" /\ answer'[c] = "joined" =>
               /\ req[c].user \notin members[req[c].res]
               /\ req[c].user \in members'[req[c].res]]_vars

\* Rosters behave as Roster promises, whatever transactions interleave and fail.
Rosters == INSTANCE Roster WITH host <- host, members <- members, Limit <- Limit
RosterSpec == Rosters!Spec

-------------------------------------------------------------------------------
(* The inductive invariant behind the safety properties *)

\* A join past its first read works on a committed reservation; a creation owns
\* an allocated id under which nothing is committed, and shares it with nobody.
IdsOwned ==
    /\ \A r \in Reservations : Exists(r) => r \in allocated
    /\ \A c \in Connections : pc[c] \in Joining => Exists(req[c].res)
    /\ \A c \in Connections :
           pc[c] \in Creating => ~ Exists(req[c].res) /\ req[c].res \in allocated
    /\ \A c, d \in Connections :
           pc[c] \in Creating /\ pc[d] \in Creating /\ req[c].res = req[d].res => c = d

\* The unique key makes the uncommitted row of a join the only one of its user
\* and reservation.
KeysExclusive ==
    \A c \in Connections :
        pc[c] = "commitJoin" =>
            /\ req[c].user \notin members[req[c].res]
            /\ \A d \in Connections : pc[d] = "commitJoin" /\ req[d] = req[c] => d = c

\* Members and joins past the count share the places below Limit.
PlacesBounded ==
    \A r \in Reservations :
        /\ IsFiniteSet(members[r])
        /\ Cardinality(members[r]) + Cardinality(PastCheck(r)) <= Limit

IInv == TypeOK /\ IdsOwned /\ HostIsMember /\ KeysExclusive /\ PlacesBounded /\ AnswersHold

-------------------------------------------------------------------------------
(* Liveness *)

\* Every request is answered: waiting for the key another join holds ends.
RequestsEnd == \A c \in Connections : pc[c] # "idle" ~> pc[c] = "idle"

-------------------------------------------------------------------------------
(* What the source says of itself and the code does not do *)

\* "최대 참가자 수": a reservation has at most MaxParticipants members.
WithinCapacity == \A r \in Reservations : Cardinality(members[r]) <= MaxParticipants
===============================================================================
