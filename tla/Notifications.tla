----------------------------- MODULE Notifications -----------------------------
(***************************************************************************)
(* The timed notifications (reservation-notification.service.ts): a cron   *)
(* job of every minute looks, one notification type after the other, for   *)
(* the reservations that many minutes away and pushes to their members.    *)
(*                                                                         *)
(* The scheduler does not wait for the job of the minute before, so jobs   *)
(* overlap; they share the set sentNotifications, which lives in memory,   *)
(* is filled after a push has been accepted and is cleared at midnight and *)
(* by a restart.  A job takes one awaited step at a time: a query, or the  *)
(* answer of Firebase to one of the pushes it has sent in parallel.        *)
(*                                                                         *)
(* Each definition marked "Bug:" is a plausible error in the one after it, *)
(* kept to show that some property of the module would notice it.          *)
(***************************************************************************)
EXTENDS Integers, Sequences, FiniteSets

CONSTANTS
    Users,
    Reachable,      \* users whose row holds an FCM token
    Reservations,
    Timing,         \* the types in their order: minutes before a reservation
    Jobs,           \* cron jobs that may be running at the same time
    Midnights,      \* the minutes at which clearNotificationCache runs
    MaxTime,        \* the clock stops here
    MaxMoves,       \* bound on the moves of reservations, committed or open
    MaxFaults,      \* bound on failed queries and pushes and on crashes
    NoTime

Types == DOMAIN Timing
Times == 0..MaxTime

ASSUME TimingAssumption == Timing \in Seq(Int) /\ Timing # <<>>
ASSUME BoundsAssumption ==
    /\ MaxTime \in Nat
    /\ MaxMoves \in Nat
    /\ MaxFaults \in Nat
ASSUME ReachableAssumption == Reachable \subseteq Users
ASSUME NoTimeAssumption == NoTime \notin Int

\* The new time of a reservation.
Move == [res : Reservations, to : Times]

\* cacheKey.
Key == [res : Reservations, user : Users, type : Types]

\* A reservation a job has found, and the time it found it at.
Found == [res : Reservations, for : Times]

\* NotificationTarget, with the time the reservation was found at.
Target == [key : Key, for : Times]

\* What Firebase delivers: a target of the job of a minute.
Push == [key : Key, for : Times, minute : Times]

VARIABLES
    now,                \* the clock, in minutes
    up,                 \* the process runs
    datetime,           \* committed reservation_datetime, NoTime until created
    members,            \* committed rows of user_reservations
    moving,             \* the moves open edits of reservations have validated
    moves,              \* moves of reservations committed so far
    sentNotifications,
    pushes,             \* the pushes delivered so far
    pc,                 \* what a job does next, "idle" when the slot runs none
    minute,             \* the minute the job was started for
    type,               \* the notification type it is at
    found,              \* reservations it found and has not read the members of
    targets,            \* what it will push, or has pushed without an answer yet
    owed,               \* whom it has found due, except where a push or query failed
    faults

tables == <<datetime, members, moving, moves>>
job == <<pc, minute, type, found, targets, owed>>
vars == <<now, up, tables, sentNotifications, pushes, job, faults>>

TypeOK ==
    /\ now \in Times
    /\ up \in BOOLEAN
    /\ datetime \in [Reservations -> Times \union {NoTime}]
    /\ members \in [Reservations -> SUBSET Users]
    /\ moving \in SUBSET Move
    /\ moves \in 0..MaxMoves
    /\ sentNotifications \in SUBSET Key
    /\ pushes \in SUBSET Push
    /\ pc \in [Jobs -> {"idle", "findReservations", "findMembers", "push"}]
    /\ minute \in [Jobs -> Times]
    /\ type \in [Jobs -> Types]
    /\ found \in [Jobs -> SUBSET Found]
    /\ targets \in [Jobs -> SUBSET Target]
    /\ owed \in [Jobs -> SUBSET Key]
    /\ faults \in 0..MaxFaults

Init ==
    /\ now = 0
    /\ up = TRUE
    /\ datetime = [r \in Reservations |-> NoTime]
    /\ members = [r \in Reservations |-> {}]
    /\ moving = {}
    /\ moves = 0
    /\ sentNotifications = {}
    /\ pushes = {}
    /\ pc = [j \in Jobs |-> "idle"]
    /\ minute = [j \in Jobs |-> 0]
    /\ type = [j \in Jobs |-> 1]
    /\ found = [j \in Jobs |-> {}]
    /\ targets = [j \in Jobs |-> {}]
    /\ owed = [j \in Jobs |-> {}]
    /\ faults = 0

-------------------------------------------------------------------------------
(* The requests that change what the jobs read *)

\* createReservation commits, with the row of its host.
Create(r, u, t) ==
    /\ up
    /\ datetime[r] = NoTime
    /\ datetime' = [datetime EXCEPT ![r] = t]
    /\ members' = [members EXCEPT ![r] = {u}]
    /\ UNCHANGED <<now, up, moving, moves, sentNotifications, pushes, job, faults>>

\* joinReservation commits.
Join(r, u) ==
    /\ up
    /\ datetime[r] # NoTime
    /\ u \notin members[r]
    /\ members' = [members EXCEPT ![r] = @ \union {u}]
    /\ UNCHANGED <<now, up, datetime, moving, moves, sentNotifications, pushes, job, faults>>

MovesInBound == moves + Cardinality(moving) <= MaxMoves

\* updateReservation finds r not started and its new time in the future.
ValidateMove(r, t) ==
    /\ up
    /\ datetime[r] # NoTime
    /\ now < datetime[r] /\ now < t
    /\ moving' = moving \union {[res |-> r, to |-> t]}
    /\ UNCHANGED <<now, up, datetime, members, moves, sentNotifications, pushes, job, faults>>
    /\ MovesInBound'

\* Its transaction commits, whatever the clock says by then, and leaves
\* sentNotifications alone; another edit may still be about to make the same move.
CommitMove(m) ==
    /\ up
    /\ moves < MaxMoves
    /\ datetime' = [datetime EXCEPT ![m.res] = m.to]
    /\ moving' \in {moving, moving \ {m}}
    /\ moves' = moves + 1
    /\ UNCHANGED <<now, up, members, sentNotifications, pushes, job, faults>>
    /\ MovesInBound'

\* Edits fail, or leave the time alone.
DropMoves ==
    /\ up
    /\ moving' \in SUBSET moving
    /\ UNCHANGED <<now, up, datetime, members, moves, sentNotifications, pushes, job, faults>>

-------------------------------------------------------------------------------
(* The scheduler *)

Start(j) ==
    /\ pc[j] = "idle"
    /\ pc' = [pc EXCEPT ![j] = "findReservations"]
    /\ minute' = [minute EXCEPT ![j] = now + 1]
    /\ type' = [type EXCEPT ![j] = 1]
    /\ owed' = [owed EXCEPT ![j] = {}]
    /\ UNCHANGED <<found, targets>>

\* A minute begins: the running process starts a job for it, and at midnight
\* clears its cache.  While the process is down nothing is started.
Minute ==
    /\ now < MaxTime
    /\ now' = now + 1
    /\ IF up THEN \E j \in Jobs : Start(j) ELSE UNCHANGED job
    /\ sentNotifications' = IF now + 1 \in Midnights THEN {} ELSE sentNotifications
    /\ UNCHANGED <<up, tables, pushes, faults>>

-------------------------------------------------------------------------------
(* The job *)

\* Bug: the job goes on behind the last type.
NextTypeEndless(j) ==
    /\ pc' = [pc EXCEPT ![j] = "findReservations"]
    /\ type' = [type EXCEPT ![j] = @ + 1]

\* processNotificationsByType has returned: the next type, or the end of the job.
NextType(j) ==
    IF type[j] = Len(Timing)
    THEN /\ pc' = [pc EXCEPT ![j] = "idle"]
         /\ UNCHANGED type
    ELSE /\ pc' = [pc EXCEPT ![j] = "findReservations"]
         /\ type' = [type EXCEPT ![j] = @ + 1]

\* Bug: every reservation up to that many minutes away is due.
DueAnytime(r, m, i) == datetime[r] # NoTime /\ m <= datetime[r] /\ datetime[r] <= m + Timing[i]

\* The reservation lies in the minute that is Timing[i] minutes after m.
Due(r, m, i) == datetime[r] = m + Timing[i]

\* The members of what is due by then.
DueKeys(m, i) ==
    {k \in Key : k.type = i /\ Due(k.res, m, i) /\ k.user \in members[k.res] \intersect Reachable}

FindReservations(j) ==
    LET due == {r \in Reservations : Due(r, minute[j], type[j])} IN
    /\ pc[j] = "findReservations"
    /\ IF due = {}
       THEN NextType(j) /\ UNCHANGED found
       ELSE /\ pc' = [pc EXCEPT ![j] = "findMembers"]
            /\ found' = [found EXCEPT ![j] = {[res |-> r, for |-> datetime[r]] : r \in due}]
            /\ UNCHANGED type
    /\ owed' = [owed EXCEPT ![j] = @ \union DueKeys(minute[j], type[j])]
    /\ UNCHANGED <<now, up, tables, sentNotifications, pushes, minute, targets, faults>>

\* Bug: the cache is consulted for the reservation and the user, not for the type.
NewKeyAnyType(k) == \A s \in sentNotifications : s.res # k.res \/ s.user # k.user

NewKey(k) == k \notin sentNotifications

\* createNotificationTargets: the members that can be reached and are not in the cache.
TargetsOf(f, i) ==
    {[key |-> k, for |-> f.for] :
        k \in {k \in Key : /\ k.res = f.res
                          /\ k.type = i
                          /\ k.user \in members[f.res] \intersect Reachable
                          /\ NewKey(k)}}

\* The members of one of the reservations found are read; after the last, the
\* pushes of all are sent at once.
FindMembers(j) ==
    /\ pc[j] = "findMembers"
    /\ \E f \in found[j] :
           LET all == targets[j] \union TargetsOf(f, type[j]) IN
           /\ found' = [found EXCEPT ![j] = @ \ {f}]
           /\ targets' = [targets EXCEPT ![j] = all]
           /\ IF found[j] # {f} THEN UNCHANGED <<pc, type>>
              ELSE IF all = {} THEN NextType(j)
              ELSE pc' = [pc EXCEPT ![j] = "push"] /\ UNCHANGED type
    /\ UNCHANGED <<now, up, tables, sentNotifications, pushes, minute, owed, faults>>

\* The push to target t has been answered; the job goes on after the last answer.
Settle(j, t) ==
    /\ pc[j] = "push"
    /\ t \in targets[j]
    /\ targets' = [targets EXCEPT ![j] = @ \ {t}]
    /\ IF targets[j] = {t} THEN NextType(j) ELSE UNCHANGED <<pc, type>>
    /\ UNCHANGED <<now, up, tables, minute, found>>

PushTo(j, t) == [key |-> t.key, for |-> t.for, minute |-> minute[j]]

\* Firebase accepts the push, and the key enters the cache.
Sent(j, t) ==
    /\ Settle(j, t)
    /\ pushes' = pushes \union {PushTo(j, t)}
    /\ sentNotifications' = sentNotifications \union {t.key}
    /\ UNCHANGED <<owed, faults>>

-------------------------------------------------------------------------------
(* Failures *)

Fault ==
    /\ faults < MaxFaults
    /\ faults' = faults + 1

\* Bug: the key enters the cache whatever Firebase answers.
PushFailsCached(j, t) ==
    /\ Fault
    /\ Settle(j, t)
    /\ sentNotifications' = sentNotifications \union {t.key}
    /\ owed' = [owed EXCEPT ![j] = @ \ {t.key}]
    /\ UNCHANGED pushes

\* Firebase refuses the push, or its answer is lost; the error is only logged.
PushFails(j, t) ==
    /\ Fault
    /\ Settle(j, t)
    /\ pushes' \in {pushes, pushes \union {PushTo(j, t)}}
    /\ owed' = [owed EXCEPT ![j] = @ \ {t.key}]
    /\ UNCHANGED sentNotifications

\* A query fails and ends the job, with the types it had not come to.
QueryFails(j) ==
    /\ Fault
    /\ pc[j] \in {"findReservations", "findMembers"}
    /\ pc' = [pc EXCEPT ![j] = "idle"]
    /\ found' = [found EXCEPT ![j] = {}]
    /\ targets' = [targets EXCEPT ![j] = {}]
    /\ owed' = [owed EXCEPT ![j] = {k \in @ : k.type # type[j]}]
    /\ UNCHANGED <<now, up, tables, sentNotifications, pushes, minute, type>>

\* What the jobs have sent and Firebase has not answered.
Unanswered == UNION {{PushTo(j, t) : t \in targets[j]} : j \in {j \in Jobs : pc[j] = "push"}}

\* The process goes down; the cache and the jobs are lost, and Firebase may
\* still deliver what it was sent.
Crash ==
    /\ Fault
    /\ up
    /\ up' = FALSE
    /\ sentNotifications' = {}
    /\ \E delivered \in SUBSET Unanswered : pushes' = pushes \union delivered
    /\ pc' = [j \in Jobs |-> "idle"]
    /\ found' = [j \in Jobs |-> {}]
    /\ targets' = [j \in Jobs |-> {}]
    /\ owed' = [j \in Jobs |-> {}]
    /\ moving' = {}
    /\ UNCHANGED <<now, datetime, members, moves, minute, type>>

\* The clock has reached its bound and the last job has ended.
Rest ==
    /\ now = MaxTime
    /\ \A j \in Jobs : pc[j] = "idle"
    /\ UNCHANGED vars

Boot ==
    /\ ~ up
    /\ up' = TRUE
    /\ UNCHANGED <<now, tables, sentNotifications, pushes, job, faults>>

-------------------------------------------------------------------------------
Advance(j) ==
    \/ FindReservations(j) \/ FindMembers(j)
    \/ \E t \in targets[j] : Sent(j, t)

Requested ==
    \/ \E r \in Reservations, u \in Users, t \in Times : Create(r, u, t)
    \/ \E r \in Reservations, u \in Users : Join(r, u)
    \/ \E r \in Reservations, t \in Times : ValidateMove(r, t)
    \/ \E m \in moving : CommitMove(m)
    \/ DropMoves

Next ==
    \/ Minute
    \/ \E j \in Jobs :
           \/ Advance(j)
           \/ \E t \in targets[j] : PushFails(j, t)
           \/ QueryFails(j)
    \/ Requested
    \/ Crash
    \/ Boot
    \/ Rest

\* A job that runs goes on: queries and pushes are answered.  Nothing obliges
\* the clock, the clients or the failures.
Fairness == \A j \in Jobs : WF_vars(Advance(j))

Spec == Init /\ [][Next]_vars

FairSpec == Spec /\ Fairness

-------------------------------------------------------------------------------
(* Safety *)

\* For each time a reservation is set to, a member receives each notification at
\* most once: whatever overlaps, fails, restarts or forgets, one job only looks
\* for it.
OncePerTime ==
    \A p, q \in pushes : p.key = q.key /\ p.for = q.for => p = q

\* The cache suppresses nothing that has not been delivered.
CacheSound ==
    \A k \in sentNotifications : \E p \in pushes : p.key = k

\* A job that has ended has forgotten nobody: who was a member of a reservation
\* found due has been pushed the notification, by this job unless a reservation was
\* moved and an earlier one had; only a push or a query that failed excuses it.
NobodyForgotten ==
    \A j \in Jobs : pc[j] = "idle" =>
        \A k \in owed[j] :
            \E p \in pushes : p.key = k /\ (moves = 0 => p.minute = minute[j])

-------------------------------------------------------------------------------
(* The inductive invariant behind them *)

\* The jobs running are those of different minutes, none of them in the future.
MinutesDiffer ==
    /\ \A j \in Jobs : pc[j] # "idle" => up /\ minute[j] <= now
    /\ \A i, j \in Jobs : pc[i] # "idle" /\ pc[j] # "idle" /\ minute[i] = minute[j] => i = j

\* A job pushes for the type it is at, and has found only what is due by then.
TargetsAtType ==
    \A j \in Jobs :
        /\ \A t \in targets[j] : t.key.type = type[j] /\ t.for = minute[j] + Timing[type[j]]
        /\ \A f \in found[j] : f.for = minute[j] + Timing[type[j]]
        /\ pc[j] # "findMembers" => found[j] = {}
        /\ targets[j] # {} => pc[j] \in {"findMembers", "push"}

\* Every push was for the minute its job looked for.
PushesOnTime ==
    \A p \in pushes : p.minute <= now /\ p.for = p.minute + Timing[p.key.type]

\* No member comes before the reservation.
RowsFollowReservation ==
    \A r \in Reservations : members[r] # {} => datetime[r] # NoTime

\* Whom a job owes a notification is pushed it, or among what the job has still to do.
OwedServed ==
    \A j \in Jobs : \A k \in owed[j] :
        /\ k.user \in members[k.res] \intersect Reachable
        /\ \/ \E p \in pushes : p.key = k
           \/ \E f \in found[j] : f.res = k.res /\ type[j] = k.type
           \/ \E t \in targets[j] : t.key = k

\* As long as no reservation is moved, whatever was found of one is about its time.
TimesKept ==
    moves = 0 =>
        /\ \A p \in pushes : p.for = datetime[p.key.res]
        /\ \A j \in Jobs :
               /\ \A f \in found[j] : f.for = datetime[f.res]
               /\ \A t \in targets[j] : t.for = datetime[t.key.res]
               /\ \A k \in owed[j] : Due(k.res, minute[j], k.type)

IInv ==
    /\ TypeOK
    /\ MinutesDiffer
    /\ TargetsAtType
    /\ PushesOnTime
    /\ CacheSound
    /\ RowsFollowReservation
    /\ OwedServed
    /\ TimesKept

-------------------------------------------------------------------------------
(* Liveness *)

\* The job of minute m is about to look for type i, and finds r with u as a member.
Awaits(r, u, i, m) ==
    /\ \E j \in Jobs : pc[j] = "findReservations" /\ minute[j] = m /\ type[j] = i
    /\ Due(r, m, i)
    /\ u \in members[r] \intersect Reachable

Received(r, u, i, m) ==
    \E p \in pushes : p.key = [res |-> r, user |-> u, type |-> i] /\ p.minute = m

\* Without failures, the members of a reservation nobody moves receive each
\* notification from the job of the minute it is due in.
Reminded ==
    \A r \in Reservations, u \in Users, i \in Types, m \in Times :
        Awaits(r, u, i, m) ~> (Received(r, u, i, m) \/ faults > 0 \/ moves > 0)

-------------------------------------------------------------------------------
(* What the source says of itself and the code does not do *)

\* "매분마다 예약 시간 1시간 전, 30분 전, 5분 전, 5분 후 알림을 발송합니다.": without
\* failures, a member is also notified at the time a reservation was moved to.
RemindedOnceMoved ==
    \A r \in Reservations, u \in Users, i \in Types, m \in Times :
        Awaits(r, u, i, m) ~> (Received(r, u, i, m) \/ faults > 0 \/ ~ Due(r, m, i))

-------------------------------------------------------------------------------
(* What changes the time of a reservation here is what edits are shown to do *)

Schedules(r) == INSTANCE Schedule WITH
    time <- datetime[r],
    planned <- {m.to : m \in {m \in moving : m.res = r}}
===============================================================================
