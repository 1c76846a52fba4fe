----------------------------- MODULE Participation -----------------------------
(***************************************************************************)
(* What the members of one reservation do with it: they announce that they *)
(* are ready (updateUserStatus, reservations.service.ts) and record how it *)
(* went (createReservationResult, reservation-results.service.ts), while   *)
(* time passes, others join and the host moves the reservation.            *)
(*                                                                         *)
(* The statuses and results of different reservations share no row, so the *)
(* module follows one reservation.  Its processes are the HTTP requests    *)
(* being served; each action is one awaited database statement with the    *)
(* code that runs before the next await.  updateUserStatus uses no         *)
(* transaction: TypeORM's save reads the row again, and writes the columns *)
(* in which the entity differs from it, if any.                            *)
(*                                                                         *)
(* Each definition marked "Bug:" is a plausible error in the one after it, *)
(* kept to show that some property of the module would notice it.          *)
(***************************************************************************)
EXTENDS Integers, FiniteSets

CONSTANTS
    Users,
    Reachable,      \* users whose row holds an FCM token
    Requests,       \* requests that may be in service at the same time
    MaxTime,        \* the clock stops here
    Hour,           \* READY_ACCESS_TIME_MS, in ticks of the clock
    MaxMoves,       \* bound on the moves of the reservation, committed or planned
    MaxFaults,      \* bound on failed statements and restarts in a behaviour
    NoUser, NoTime, NoStatus, NoResult, NoRequest

Times == 0..MaxTime

ASSUME BoundsAssumption ==
    /\ MaxTime \in Nat
    /\ Hour \in Nat
    /\ MaxMoves \in Nat
    /\ MaxFaults \in Nat
ASSUME ReachableAssumption == Reachable \subseteq Users
ASSUME NoUserAssumption == NoUser \notin Users
ASSUME NoTimeAssumption == NoTime \notin Times

UserReservationStatus == {"DEFAULT", "READY", "FAIL", "SUCCESS"}
ReservationResultStatus == {"SUCCESS", "HALF_SUCCESS", "FAIL"}

ASSUME NoStatusAssumption == NoStatus \notin UserReservationStatus
ASSUME NoResultAssumption == NoResult \notin ReservationResultStatus

VARIABLES
    now,        \* the clock
    host,       \* the host of the reservation, NoUser until it exists
    datetime,   \* committed reservation_datetime
    planned,    \* the times PATCHes of the host have validated and not yet committed
    moves,      \* PATCHes of reservation_datetime committed so far
    status,     \* committed rows of user_reservations: their status
    result,     \* committed rows of reservation_results: their status
    told,       \* told[u]: the members to whom "u is ready" has been sent
    pc,         \* what a request does next, "idle" when the slot serves none
    req,        \* the user and the status of the slot's last request
    answer,     \* how that request was answered, "none" while it runs
    held,       \* the times the reservation has had since a request checked its time
    faults

time == <<now, host, datetime, planned, moves>>
rows == <<status, result, told>>
slots == <<pc, req, answer, held>>
vars == <<time, rows, slots, faults>>

\* Bug: the request body is not validated against the two statuses it may carry.
StatusRequestUnchecked == [op : {"status"}, user : Users, wanted : UserReservationStatus]

\* The bodies of the two requests: PATCH users/status and POST results.
StatusRequest == [op : {"status"}, user : Users, wanted : {"DEFAULT", "READY"}]
ResultRequest == [op : {"result"}, user : Users, wanted : ReservationResultStatus]
Request == StatusRequest \union ResultRequest

ASSUME NoRequestAssumption == NoRequest \notin Request

Updating == {"findMembers", "reload", "update"}
Recording == {"findMembership", "insertResult", "saveStatus", "commitResult"}

Outcomes == {"none", "updated", "recorded", "NotFound", "TimeNotReached",
             "UserReservationNotFound", "ResultAlreadyExists", "ServerError"}

Member(u) == status[u] # NoStatus

TypeOK ==
    /\ now \in Times
    /\ host \in Users \union {NoUser}
    /\ datetime \in Times \union {NoTime}
    /\ planned \in SUBSET Times
    /\ moves \in 0..MaxMoves
    /\ status \in [Users -> UserReservationStatus \union {NoStatus}]
    /\ result \in [Users -> ReservationResultStatus \union {NoResult}]
    /\ told \in [Users -> SUBSET Users]
    /\ pc \in [Requests -> {"idle"} \union Updating \union Recording]
    /\ req \in [Requests -> Request \union {NoRequest}]
    /\ answer \in [Requests -> Outcomes]
    /\ held \in [Requests -> SUBSET Times]
    /\ faults \in 0..MaxFaults
    /\ \A q \in Requests :
           /\ pc[q] \in Updating => req[q] \in StatusRequest
           /\ pc[q] \in Recording \/ answer[q] = "recorded" => req[q] \in ResultRequest
           /\ answer[q] # "none" => req[q] \in Request

Init ==
    /\ now = 0
    /\ host = NoUser
    /\ datetime = NoTime
    /\ planned = {}
    /\ moves = 0
    /\ status = [u \in Users |-> NoStatus]
    /\ result = [u \in Users |-> NoResult]
    /\ told = [u \in Users |-> {}]
    /\ pc = [q \in Requests |-> "idle"]
    /\ req = [q \in Requests |-> NoRequest]
    /\ answer = [q \in Requests |-> "none"]
    /\ held = [q \in Requests |-> {}]
    /\ faults = 0

-------------------------------------------------------------------------------
(* The rest of the program, as far as it touches these rows *)

Tick ==
    /\ now < MaxTime
    /\ now' = now + 1
    /\ UNCHANGED <<host, datetime, planned, moves, rows, slots, faults>>

\* createReservation commits; nothing asks its time to lie in the future.
Create(u, t) ==
    /\ host = NoUser
    /\ host' = u
    /\ datetime' = t
    /\ status' = [status EXCEPT ![u] = "DEFAULT"]
    /\ UNCHANGED <<now, planned, moves, result, told, slots, faults>>

\* joinReservation commits.
Join(u) ==
    /\ host # NoUser
    /\ ~ Member(u)
    /\ status' = [status EXCEPT ![u] = "DEFAULT"]
    /\ UNCHANGED <<time, result, told, slots, faults>>

\* What ReservationEdit is shown to implement.
Schedules == INSTANCE Schedule WITH time <- datetime

MovesInBound == moves + Cardinality(planned) <= MaxMoves

\* updateReservation accepts t as the new time of a reservation not yet started.
ValidateMove(t) ==
    /\ Schedules!Plan(t)
    /\ UNCHANGED <<host, moves, rows, slots, faults>>
    /\ MovesInBound'

\* Its transaction commits, whatever the clock says by then, and leaves every
\* status as it is.
CommitMove(t) ==
    /\ moves < MaxMoves
    /\ Schedules!Apply(t)
    /\ moves' = moves + 1
    /\ held' = [q \in Requests |->
                   IF pc[q] \in Updating THEN held[q] \union {t} ELSE held[q]]
    /\ UNCHANGED <<host, rows, pc, req, answer, faults>>
    /\ MovesInBound'

\* Edits fail, or leave the time alone.
DropMoves ==
    /\ Schedules!GiveUp
    /\ UNCHANGED <<host, moves, rows, slots, faults>>

-------------------------------------------------------------------------------
\* Request body takes the idle slot q.
Receive(q, body) ==
    /\ pc[q] = "idle"
    /\ req' = [req EXCEPT ![q] = body]

Continue(q, label) ==
    /\ pc' = [pc EXCEPT ![q] = label]
    /\ answer' = [answer EXCEPT ![q] = "none"]
    /\ UNCHANGED held

Finish(q, outcome) ==
    /\ pc' = [pc EXCEPT ![q] = "idle"]
    /\ answer' = [answer EXCEPT ![q] = outcome]
    /\ held' = [held EXCEPT ![q] = {}]

-------------------------------------------------------------------------------
(* updateUserStatus *)

\* The check of the time is passed, and not repeated.
Pass(q) ==
    /\ pc' = [pc EXCEPT ![q] = "findMembers"]
    /\ answer' = [answer EXCEPT ![q] = "none"]
    /\ held' = [held EXCEPT ![q] = {datetime}]

\* Bug: the time of the reservation is not compared with the clock.
CheckTimeSkipped(q, body) ==
    /\ Receive(q, body)
    /\ IF host = NoUser
       THEN Finish(q, "NotFound")
       ELSE Pass(q)
    /\ UNCHANGED <<time, rows, faults>>

\* The reservation is read and its time compared with the clock, once.
CheckTime(q, body) ==
    /\ Receive(q, body)
    /\ IF host = NoUser THEN Finish(q, "NotFound")
       ELSE IF now < datetime - Hour THEN Finish(q, "TimeNotReached")
       ELSE Pass(q)
    /\ UNCHANGED <<time, rows, faults>>

\* notifyOtherMembersIfReady: one multicast, not awaited, before the status is saved.
Notify(u) ==
    told' = [told EXCEPT ![u] = @ \union {v \in Reachable \ {u} : Member(v)}]

\* Bug: the others are told of the wrong one of the two statuses.
FindMembersToldWrong(q) ==
    /\ pc[q] = "findMembers"
    /\ Member(req[q].user)
    /\ Continue(q, "reload")
    /\ IF req[q].wanted = "DEFAULT" THEN Notify(req[q].user) ELSE UNCHANGED told
    /\ UNCHANGED <<time, status, result, req, faults>>

FindMembers(q) ==
    /\ pc[q] = "findMembers"
    /\ \/ /\ ~ Member(req[q].user)
          /\ Finish(q, "UserReservationNotFound")
          /\ UNCHANGED told
       \/ /\ Member(req[q].user)
          /\ Continue(q, "reload")
          /\ IF req[q].wanted = "READY" THEN Notify(req[q].user) ELSE UNCHANGED told
    /\ UNCHANGED <<time, status, result, req, faults>>

\* save reads the row again; equal to the entity, it is not written.
Reload(q) ==
    /\ pc[q] = "reload"
    /\ IF status[req[q].user] = req[q].wanted
       THEN Finish(q, "updated")
       ELSE Continue(q, "update")
    /\ UNCHANGED <<time, rows, req, faults>>

\* The transaction of a result has updated the row of u and still holds its lock.
RowLocked(u) == \E q \in Requests : pc[q] = "commitResult" /\ req[q].user = u

\* save updates the row by its id, whatever its status has become meanwhile.
PublishStatus(q) ==
    /\ pc[q] = "update"
    /\ ~ RowLocked(req[q].user)
    /\ status' = [status EXCEPT ![req[q].user] = req[q].wanted]
    /\ UNCHANGED <<time, result, told, req>>

Update(q) ==
    /\ PublishStatus(q)
    /\ Finish(q, "updated")
    /\ UNCHANGED faults

-------------------------------------------------------------------------------
(* createReservationResult *)

\* The reservation is read; its time is not compared with the clock.
FindReservation(q, body) ==
    /\ Receive(q, body)
    /\ IF host = NoUser
       THEN Finish(q, "NotFound")
       ELSE Continue(q, "findMembership")
    /\ UNCHANGED <<time, rows, faults>>

\* Bug: results are accepted from users who are not members.
FindMembershipUnchecked(q) ==
    /\ pc[q] = "findMembership"
    /\ Continue(q, "insertResult")
    /\ UNCHANGED <<time, rows, req, faults>>

FindMembership(q) ==
    /\ pc[q] = "findMembership"
    /\ IF Member(req[q].user)
       THEN Continue(q, "insertResult")
       ELSE Finish(q, "UserReservationNotFound")
    /\ UNCHANGED <<time, rows, req, faults>>

\* Bug: an uncommitted result does not keep others of the same user out.
ResultPendingIgnored(u) == FALSE

\* Another transaction has inserted the result of u and not committed it.
ResultPending(u) ==
    \E q \in Requests : pc[q] \in {"saveStatus", "commitResult"} /\ req[q].user = u

\* Bug: a second result of the same user replaces the first.
InsertResultAgain(q) ==
    /\ pc[q] = "insertResult"
    /\ ~ ResultPending(req[q].user)
    /\ Continue(q, "saveStatus")
    /\ UNCHANGED <<time, rows, req, faults>>

\* Bug: a refused INSERT starts the request over.
InsertResultRetried(q) ==
    /\ pc[q] = "insertResult"
    /\ ~ ResultPending(req[q].user)
    /\ IF result[req[q].user] = NoResult
       THEN Continue(q, "saveStatus")
       ELSE Continue(q, "findMembership")
    /\ UNCHANGED <<time, rows, req, faults>>

\* INSERT INTO reservation_results (and into images).
InsertResult(q) ==
    /\ pc[q] = "insertResult"
    /\ ~ ResultPending(req[q].user)
    /\ IF result[req[q].user] = NoResult
       THEN Continue(q, "saveStatus")
       ELSE Finish(q, "ResultAlreadyExists")
    /\ UNCHANGED <<time, rows, req, faults>>

\* UPDATE user_reservations: the new status stays invisible and the row locked.
SaveStatus(q) ==
    /\ pc[q] = "saveStatus"
    /\ Continue(q, "commitResult")
    /\ UNCHANGED <<time, rows, req, faults>>

\* Bug: the status of a result is written into the row of the member as it is.
StatusOfUnmapped(r) == r

\* The status a member gets from a result: half a success is a success.
StatusOf(r) == IF r = "FAIL" THEN "FAIL" ELSE "SUCCESS"

PublishResult(q) ==
    /\ pc[q] = "commitResult"
    /\ result' = [result EXCEPT ![req[q].user] = req[q].wanted]
    /\ status' = [status EXCEPT ![req[q].user] = StatusOf(req[q].wanted)]
    /\ UNCHANGED <<time, told, req>>

CommitResult(q) ==
    /\ PublishResult(q)
    /\ Finish(q, "recorded")
    /\ UNCHANGED faults

-------------------------------------------------------------------------------
(* A statement fails and the request ends with 500, its transaction rolled   *)
(* back or committed without the acknowledgement arriving; or the process    *)
(* restarts, and the statements it had not sent are never executed.          *)

Fault ==
    /\ faults < MaxFaults
    /\ faults' = faults + 1

Fail(q) ==
    /\ Fault
    /\ pc[q] # "idle"
    /\ Finish(q, "ServerError")
    /\ UNCHANGED <<time, rows, req>>

LoseAcknowledgement(q) ==
    /\ Fault
    /\ PublishStatus(q) \/ PublishResult(q)
    /\ Finish(q, "ServerError")

Restart ==
    /\ Fault
    /\ pc' = [q \in Requests |-> "idle"]
    /\ req' = [q \in Requests |-> NoRequest]
    /\ answer' = [q \in Requests |-> "none"]
    /\ held' = [q \in Requests |-> {}]
    /\ planned' = {}
    /\ UNCHANGED <<now, host, datetime, moves, rows>>

-------------------------------------------------------------------------------
Advance(q) ==
    \/ FindMembers(q) \/ Reload(q) \/ Update(q)
    \/ FindMembership(q) \/ InsertResult(q) \/ SaveStatus(q) \/ CommitResult(q)

Arrive(q) ==
    \/ \E body \in StatusRequest : CheckTime(q, body)
    \/ \E body \in ResultRequest : FindReservation(q, body)

Surroundings ==
    \/ Tick
    \/ \E u \in Users, t \in Times : Create(u, t)
    \/ \E u \in Users : Join(u)
    \/ \E t \in Times : ValidateMove(t) \/ CommitMove(t)
    \/ DropMoves

Next ==
    \/ Surroundings
    \/ \E q \in Requests : Arrive(q) \/ Advance(q) \/ Fail(q) \/ LoseAcknowledgement(q)
    \/ Restart

\* The requests in service go on; clients, the clock and failures are not obliged to.
Fairness == \A q \in Requests : WF_vars(Advance(q))

Spec == Init /\ [][Next]_vars

FairSpec == Spec /\ Fairness

-------------------------------------------------------------------------------
(* Safety *)

\* Only members have results, and a member shown as successful or failed has
\* recorded the result the status comes from: result and status are written
\* together, although statuses are overwritten by requests that hold stale rows.
StatusHasResult ==
    \A u \in Users :
        /\ result[u] # NoResult => Member(u)
        /\ status[u] \in {"SUCCESS", "FAIL"} =>
               result[u] # NoResult /\ status[u] = StatusOf(result[u])

\* A recorded result is the one its author was told was recorded, for good: of
\* several concurrent submissions one is accepted, and the others are told so.
ResultAnswersHold ==
    \A q \in Requests :
        /\ answer[q] = "recorded" => result[req[q].user] = req[q].wanted
        /\ answer[q] = "ResultAlreadyExists" => result[req[q].user] # NoResult

\* Members and results are what Ledger promises, though results are submitted
\* concurrently and statuses are overwritten: only members record a result, each
\* of them one, and a committed result never changes.
Ledgers == INSTANCE Ledger WITH
    members <- {u \in Users : Member(u)},
    Results <- ReservationResultStatus
LedgerSpec == Ledgers!Spec

\* Whoever becomes ready does so no more than an hour before some time the reservation
\* has had while the request was in service: the check goes stale when the host moves
\* the reservation, and what is saved on it was right when it was made, or later.
ReadyInTime ==
    [][\A u \in Users :
           status[u] # "READY" /\ status'[u] = "READY" =>
               \E q \in Requests :
                   /\ pc[q] = "update" /\ pc'[q] = "idle" /\ req[q].user = u
                   /\ \E d \in held[q] : now >= d - Hour]_vars

\* Whoever is shown as ready has announced it to the host (unless it is the host
\* or a host without a token): the multicast is issued before the row is saved.
HostHearsReadiness ==
    \A u \in Users :
        status[u] = "READY" /\ host \in Reachable \ {u} => host \in told[u]

-------------------------------------------------------------------------------
(* The inductive invariant behind the safety properties *)

\* The reservation, its time and its host's row appear together, and before any
\* other row; requests past their first reads are about a member.
RowsFollowReservation ==
    /\ host = NoUser <=> datetime = NoTime
    /\ planned # {} => host # NoUser
    /\ host # NoUser => Member(host)
    /\ host = NoUser => \A u \in Users : ~ Member(u)
    /\ \A q \in Requests :
           /\ pc[q] # "idle" => host # NoUser
           /\ pc[q] \notin {"idle", "findMembers", "findMembership"} => Member(req[q].user)

\* The unique key of reservation_results lets one uncommitted result per user
\* exist, and none beside a committed one.
ResultsExclusive ==
    \A q \in Requests :
        pc[q] \in {"saveStatus", "commitResult"} =>
            /\ result[req[q].user] = NoResult
            /\ \A p \in Requests :
                   pc[p] \in {"saveStatus", "commitResult"} /\ req[p].user = req[q].user => p = q

\* The time checked stays checked, for the clock only moves on; and the time the
\* reservation has now is one of those it has had.
CheckedInTime ==
    \A q \in Requests :
        pc[q] \in Updating => datetime \in held[q] /\ \E d \in held[q] : now >= d - Hour

\* A request about to save READY has told the host.
HostTold ==
    \A q \in Requests :
        /\ pc[q] \in {"reload", "update"}
        /\ req[q].wanted = "READY"
        /\ host \in Reachable \ {req[q].user}
        => host \in told[req[q].user]

IInv ==
    /\ TypeOK
    /\ RowsFollowReservation
    /\ ResultsExclusive
    /\ CheckedInTime
    /\ HostTold
    /\ StatusHasResult
    /\ ResultAnswersHold
    /\ HostHearsReadiness

-------------------------------------------------------------------------------
(* Liveness *)

\* Every request ends, though results wait for each other's unique key and
\* status updates for the lock a result holds.
RequestsEnd == \A q \in Requests : pc[q] # "idle" ~> pc[q] = "idle"

-------------------------------------------------------------------------------
(* What the source says of itself and the code does not do *)

\* RESERVATION_NOT_DONE, "예약 종료시간 이후에만 접근 가능한 기능입니다.", documented
\* for POST results: no result is recorded before the time of the reservation.
ResultsOnlyAfterwards ==
    [][\A u \in Users : result[u] = NoResult /\ result'[u] # NoResult => now >= datetime]_vars
===============================================================================
