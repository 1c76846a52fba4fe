-------------------------- MODULE ParticipationProofs --------------------------
(***************************************************************************)
(* Theorems about Participation, for any users, any number of requests in  *)
(* service, any bound on the clock, on moves and on faults.                *)
(***************************************************************************)
EXTENDS Participation, TLAPS

USE DEF Updating, Recording, Member, time, rows, slots,
        Schedules!Plan, Schedules!Apply, Schedules!GiveUp

\* Every request body has one of the two forms.
LEMMA Bodies ==
    /\ \A b \in StatusRequest :
           b \in Request /\ b.user \in Users /\ b.wanted \in {"DEFAULT", "READY"}
    /\ \A b \in ResultRequest :
           b \in Request /\ b.user \in Users /\ b.wanted \in ReservationResultStatus
    /\ \A b \in Request : b.user \in Users
BY DEF Request, StatusRequest, ResultRequest

\* What the request of a slot in service is about.
LEMMA InService ==
    ASSUME TypeOK, NEW q \in Requests, pc[q] # "idle"
    PROVE  /\ req[q] \in Request /\ req[q].user \in Users
           /\ pc[q] \in Updating => req[q].wanted \in {"DEFAULT", "READY"}
           /\ pc[q] \in Recording => req[q].wanted \in ReservationResultStatus
BY Bodies DEF TypeOK

-------------------------------------------------------------------------------
(* Type correctness *)

LEMMA TypeStep == TypeOK /\ RowsFollowReservation /\ [Next]_vars => TypeOK'
<1> SUFFICES ASSUME TypeOK, RowsFollowReservation, [Next]_vars
             PROVE  TypeOK'
  OBVIOUS
<1> USE BoundsAssumption DEF Outcomes
<1>a. ASSUME UNCHANGED <<pc, req, answer>>
      PROVE  \A q \in Requests :
                 /\ pc'[q] \in Updating => req'[q] \in StatusRequest
                 /\ pc'[q] \in Recording \/ answer'[q] = "recorded" => req'[q] \in ResultRequest
                 /\ answer'[q] # "none" => req'[q] \in Request
  BY <1>a DEF TypeOK
<1>1. CASE Surroundings
  <2> USE DEF TypeOK, UserReservationStatus
  <2>1. CASE Tick
    BY <1>a, <2>1 DEF Tick, Times
  <2>2. ASSUME NEW u \in Users, NEW t \in Times, Create(u, t)
        PROVE  TypeOK'
    BY <1>a, <2>2 DEF Create
  <2>3. ASSUME NEW u \in Users, Join(u)
        PROVE  TypeOK'
    BY <1>a, <2>3 DEF Join
  <2>4. ASSUME NEW t \in Times, ValidateMove(t)
        PROVE  TypeOK'
    BY <1>a, <2>4 DEF ValidateMove
  <2>5. ASSUME NEW t \in Times, CommitMove(t)
        PROVE  TypeOK'
    BY <1>a, <2>5 DEF CommitMove
  <2>6. CASE DropMoves
    BY <1>a, <2>6 DEF DropMoves
  <2> QED
    BY <1>1, <2>1, <2>2, <2>3, <2>4, <2>5, <2>6 DEF Surroundings
<1>2. ASSUME NEW q \in Requests, Arrive(q)
      PROVE  TypeOK'
  <2>1. host # NoUser => datetime \in Times
    BY DEF RowsFollowReservation, TypeOK
  <2> QED
    BY <1>2, <2>1, Bodies
       DEF Arrive, CheckTime, Pass, FindReservation, Receive, Continue, Finish, TypeOK
<1>3. ASSUME NEW q \in Requests, FindMembers(q)
      PROVE  TypeOK'
  BY <1>3, InService, ReachableAssumption DEF FindMembers, Notify, Continue, Finish, TypeOK
<1>4. ASSUME NEW q \in Requests, Reload(q) \/ Update(q)
      PROVE  TypeOK'
  BY <1>4, InService DEF Reload, Update, PublishStatus, Continue, Finish, TypeOK, UserReservationStatus
<1>5. ASSUME NEW q \in Requests, FindMembership(q) \/ InsertResult(q) \/ SaveStatus(q)
      PROVE  TypeOK'
  BY <1>5, InService DEF FindMembership, InsertResult, SaveStatus, Continue, Finish, TypeOK
<1>6. ASSUME NEW q \in Requests, CommitResult(q)
      PROVE  TypeOK'
  BY <1>6, InService
     DEF CommitResult, PublishResult, StatusOf, Finish, TypeOK, UserReservationStatus
<1>7. ASSUME NEW q \in Requests, Fail(q) \/ LoseAcknowledgement(q)
      PROVE  TypeOK'
  BY <1>7, InService
     DEF Fail, LoseAcknowledgement, PublishStatus, PublishResult, Fault, StatusOf, Finish, TypeOK,
         UserReservationStatus
<1>8. CASE Restart
  BY <1>8 DEF Restart, Fault, TypeOK
<1>9. CASE UNCHANGED vars
  BY <1>9, <1>a DEF vars, TypeOK
<1> QED
  BY <1>1, <1>2, <1>3, <1>4, <1>5, <1>6, <1>7, <1>8, <1>9 DEF Next, Advance

-------------------------------------------------------------------------------
(* The parts of the inductive invariant, one lemma each *)

\* Members stay members, whatever is written into their rows.
LEMMA MembersStay ==
    ASSUME TypeOK, [Next]_vars, NEW u \in Users, Member(u)
    PROVE  Member(u)'
<1> USE NoStatusAssumption DEF TypeOK, UserReservationStatus, ReservationResultStatus
<1>1. CASE Surroundings
  BY <1>1 DEF Surroundings, Tick, Create, Join, ValidateMove, CommitMove, DropMoves
<1>2. ASSUME NEW q \in Requests, PublishStatus(q)
      PROVE  Member(u)'
  BY <1>2, InService DEF PublishStatus
<1>3. ASSUME NEW q \in Requests, PublishResult(q)
      PROVE  Member(u)'
  BY <1>3, InService DEF PublishResult, StatusOf
<1>4. CASE UNCHANGED status
  BY <1>4
<1> QED
  BY <1>1, <1>2, <1>3, <1>4
     DEF Next, Arrive, Advance, CheckTime, FindReservation, FindMembers, Reload, Update,
         FindMembership, InsertResult, SaveStatus, CommitResult, Fail, LoseAcknowledgement,
         Restart, vars

LEMMA RowsStep == TypeOK /\ RowsFollowReservation /\ [Next]_vars => RowsFollowReservation'
<1> SUFFICES ASSUME TypeOK, RowsFollowReservation, [Next]_vars
             PROVE  RowsFollowReservation'
  OBVIOUS
<1> USE NoUserAssumption, NoTimeAssumption, NoStatusAssumption
        DEF RowsFollowReservation, UserReservationStatus
<1>a. ASSUME UNCHANGED <<pc, req>>, host # NoUser => host' # NoUser
      PROVE  \A q \in Requests :
                 /\ pc'[q] # "idle" => host' # NoUser
                 /\ pc'[q] \notin {"idle", "findMembers", "findMembership"} => Member(req[q].user)'
  <2> SUFFICES ASSUME NEW q \in Requests, pc[q] \notin {"idle", "findMembers", "findMembership"}
               PROVE  status'[req[q].user] # NoStatus
    BY <1>a
  <2>1. Member(req[q].user) /\ req[q].user \in Users
    BY InService
  <2> QED
    BY <2>1, MembersStay
<1>1. CASE Surroundings
  <2>1. CASE Tick
    BY <1>a, <2>1 DEF Tick
  <2>2. ASSUME NEW u \in Users, NEW t \in Times, Create(u, t)
        PROVE  RowsFollowReservation'
    BY <1>a, <2>2 DEF Create, TypeOK
  <2>3. ASSUME NEW u \in Users, Join(u)
        PROVE  RowsFollowReservation'
    BY <1>a, <2>3 DEF Join, TypeOK
  <2>4. ASSUME NEW t \in Times, ValidateMove(t)
        PROVE  RowsFollowReservation'
    BY <1>a, <2>4, NoTimeAssumption DEF ValidateMove
  <2>5. ASSUME NEW t \in Times, CommitMove(t)
        PROVE  RowsFollowReservation'
    BY <1>a, <2>5 DEF CommitMove, TypeOK
  <2>6. CASE DropMoves
    BY <1>a, <2>6 DEF DropMoves, TypeOK
  <2> QED
    BY <1>1, <2>1, <2>2, <2>3, <2>4, <2>5, <2>6 DEF Surroundings
<1>2. ASSUME NEW q \in Requests, Arrive(q)
      PROVE  RowsFollowReservation'
  BY <1>2 DEF Arrive, CheckTime, Pass, FindReservation, Receive, Continue, Finish, TypeOK
<1>3. ASSUME NEW q \in Requests, FindMembers(q) \/ FindMembership(q)
      PROVE  RowsFollowReservation'
  BY <1>3 DEF FindMembers, FindMembership, Continue, Finish, TypeOK
<1>4. ASSUME NEW q \in Requests, Reload(q) \/ InsertResult(q) \/ SaveStatus(q) \/ Fail(q)
      PROVE  RowsFollowReservation'
  BY <1>4 DEF Reload, InsertResult, SaveStatus, Fail, Continue, Finish, TypeOK
<1>5. ASSUME NEW q \in Requests, PublishStatus(q) \/ PublishResult(q), pc' = [pc EXCEPT ![q] = "idle"]
      PROVE  RowsFollowReservation'
  <2>1. UNCHANGED <<host, datetime, req>> /\ host # NoUser
    BY <1>5 DEF PublishStatus, PublishResult, TypeOK
  <2>2. \A p \in Requests : pc'[p] # "idle" => pc'[p] = pc[p]
    BY <1>5 DEF TypeOK
  <2>3. Member(host)'
    BY <2>1, MembersStay DEF TypeOK
  <2> QED
    BY <2>1, <2>2, <2>3, MembersStay, InService
<1>6. CASE Restart
  BY <1>6 DEF Restart
<1>7. CASE UNCHANGED vars
  BY <1>7, <1>a DEF vars
<1> QED
  BY <1>1, <1>2, <1>3, <1>4, <1>5, <1>6, <1>7
     DEF Next, Advance, CommitResult, LoseAcknowledgement, Update, Finish

LEMMA ExclusiveStep == TypeOK /\ ResultsExclusive /\ [Next]_vars => ResultsExclusive'
<1> SUFFICES ASSUME TypeOK, ResultsExclusive, [Next]_vars
             PROVE  ResultsExclusive'
  OBVIOUS
<1> USE DEF TypeOK, ResultsExclusive
<1>1. CASE UNCHANGED <<result, pc, req>>
  BY <1>1
<1>2. ASSUME NEW q \in Requests, Arrive(q)
      PROVE  ResultsExclusive'
  BY <1>2 DEF Arrive, CheckTime, Pass, FindReservation, Receive, Continue, Finish
<1>3. ASSUME NEW q \in Requests, FindMembers(q) \/ Reload(q) \/ FindMembership(q)
      PROVE  ResultsExclusive'
  BY <1>3 DEF FindMembers, Reload, FindMembership, Continue, Finish
<1>4. ASSUME NEW q \in Requests, InsertResult(q)
      PROVE  ResultsExclusive'
  BY <1>4 DEF InsertResult, ResultPending, Continue, Finish
<1>5. ASSUME NEW q \in Requests, SaveStatus(q) \/ Fail(q)
      PROVE  ResultsExclusive'
  BY <1>5 DEF SaveStatus, Fail, Continue, Finish
<1>6. ASSUME NEW q \in Requests, PublishStatus(q) \/ PublishResult(q),
             pc' = [pc EXCEPT ![q] = "idle"]
      PROVE  ResultsExclusive'
  BY <1>6, InService DEF PublishStatus, PublishResult
<1>7. CASE Restart
  BY <1>7 DEF Restart
<1> QED
  BY <1>1, <1>2, <1>3, <1>4, <1>5, <1>6, <1>7
     DEF Next, Surroundings, Tick, Create, Join, ValidateMove, CommitMove, DropMoves, Advance,
         Update, CommitResult, LoseAcknowledgement, Finish, vars

\* The clock does not go back, and a request collects the times the reservation gets.
LEMMA CheckedStep == TypeOK /\ RowsFollowReservation /\ CheckedInTime /\ [Next]_vars => CheckedInTime'
<1> SUFFICES ASSUME TypeOK, RowsFollowReservation, CheckedInTime, [Next]_vars,
                    NEW p \in Requests, pc'[p] \in Updating
             PROVE  datetime' \in held'[p] /\ \E d \in held'[p] : now' >= d - Hour
  BY DEF CheckedInTime
<1> DEFINE Fine == datetime' \in held'[p] /\ \E d \in held'[p] : now' >= d - Hour
<1> USE BoundsAssumption, NoTimeAssumption DEF TypeOK
<1>a. ASSUME pc[p] \in Updating, now' \in {now, now + 1},
             held[p] \subseteq held'[p], datetime' \in {datetime} \union held'[p]
      PROVE  Fine
  <2>1. PICK d \in held[p] : now >= d - Hour
    BY <1>a DEF CheckedInTime
  <2>2. d \in held'[p] /\ now' >= d - Hour
    BY <1>a, <2>1 DEF Times
  <2>3. datetime' \in held'[p]
    BY <1>a DEF CheckedInTime
  <2> QED
    BY <2>2, <2>3
<1>1. CASE Tick
  BY <1>1, <1>a DEF Tick
<1>2. ASSUME NEW u \in Users, NEW t \in Times, Create(u, t)
      PROVE  Fine
  BY <1>2 DEF Create, RowsFollowReservation
<1>3. CASE UNCHANGED <<now, datetime, pc, held>>
  BY <1>3, <1>a
<1>4. ASSUME NEW t \in Times, CommitMove(t)
      PROVE  Fine
  BY <1>4, <1>a DEF CommitMove
<1>5. ASSUME NEW q \in Requests, NEW body \in StatusRequest, CheckTime(q, body)
      PROVE  Fine
  <2>1. CASE q = p
    <3>1. host # NoUser /\ ~ (now < datetime - Hour) /\ Pass(q) /\ UNCHANGED <<now, datetime>>
      BY <1>5, <2>1 DEF CheckTime, Finish
    <3>2. datetime \in Times
      BY <3>1 DEF RowsFollowReservation
    <3>3. now >= datetime - Hour
      BY <3>1, <3>2 DEF Times
    <3>4. held'[p] = {datetime}
      BY <3>1, <2>1 DEF Pass
    <3> QED
      BY <3>1, <3>3, <3>4
  <2>2. CASE q # p
    BY <1>5, <1>a, <2>2 DEF CheckTime, Pass, Finish
  <2> QED
    BY <2>1, <2>2
<1>6. ASSUME NEW q \in Requests, NEW body \in ResultRequest, FindReservation(q, body)
      PROVE  Fine
  BY <1>6, <1>a DEF FindReservation, Continue, Finish
<1>7. ASSUME NEW q \in Requests, Advance(q) \/ Fail(q) \/ LoseAcknowledgement(q)
      PROVE  Fine
  <2>1. UNCHANGED <<now, datetime>> /\ pc[p] \in Updating /\ held'[p] = held[p]
    BY <1>7 DEF Advance, FindMembers, Reload, Update, PublishStatus, FindMembership, InsertResult,
                SaveStatus, CommitResult, PublishResult, Fail, LoseAcknowledgement, Continue, Finish
  <2> QED
    BY <2>1, <1>a
<1>8. CASE Restart
  BY <1>8 DEF Restart
<1> QED
  BY <1>1, <1>2, <1>3, <1>4, <1>5, <1>6, <1>7, <1>8
     DEF Next, Surroundings, Join, ValidateMove, DropMoves, Arrive, vars

LEMMA ToldStep == TypeOK /\ RowsFollowReservation /\ HostTold /\ [Next]_vars => HostTold'
<1> SUFFICES ASSUME TypeOK, RowsFollowReservation, HostTold, [Next]_vars
             PROVE  HostTold'
  OBVIOUS
<1> USE DEF TypeOK, HostTold
<1>1. ASSUME UNCHANGED <<host, told>>,
             \A p \in Requests : pc'[p] \in {"reload", "update"} =>
                                   req'[p] = req[p] /\ pc[p] \in {"reload", "update"}
      PROVE  HostTold'
  BY <1>1
<1>2. ASSUME NEW u \in Users, NEW t \in Times, Create(u, t)
      PROVE  HostTold'
  BY <1>2 DEF Create, RowsFollowReservation
<1>3. ASSUME NEW q \in Requests, FindMembers(q)
      PROVE  HostTold'
  <2> SUFFICES ASSUME NEW p \in Requests, pc'[p] \in {"reload", "update"},
                      req'[p].wanted = "READY", host' \in Reachable \ {req'[p].user}
               PROVE  host' \in told'[req'[p].user]
    BY DEF HostTold
  <2>a. UNCHANGED <<host, req>> /\ req[p].user \in Users
    BY <1>3, InService DEF FindMembers, Continue, Finish
  <2>b. \A u \in Users : told[u] \subseteq told'[u]
    BY <1>3 DEF FindMembers, Notify
  <2>1. UNCHANGED <<host, req>> /\ told[req[p].user] \subseteq told'[req[p].user]
    BY <2>a, <2>b
  <2>2. CASE p = q
    <3>1. Member(host) /\ req[q].user \in Users
      BY <1>3, <2>1, InService DEF FindMembers, RowsFollowReservation
    <3>2. told' = [told EXCEPT ![req[q].user] =
                       @ \union {v \in Reachable \ {req[q].user} : Member(v)}]
      BY <1>3, <2>1, <2>2 DEF FindMembers, Notify, Continue, Finish
    <3> QED
      BY <2>1, <2>2, <3>1, <3>2
  <2>3. CASE p # q
    BY <1>3, <2>1, <2>3 DEF FindMembers, Continue, Finish
  <2> QED
    BY <2>2, <2>3
<1>4. ASSUME NEW q \in Requests, Arrive(q)
      PROVE  HostTold'
  BY <1>1, <1>4 DEF Arrive, CheckTime, Pass, FindReservation, Receive, Continue, Finish
<1>5. ASSUME NEW q \in Requests,
             Reload(q) \/ Update(q) \/ FindMembership(q) \/ InsertResult(q) \/ SaveStatus(q)
             \/ CommitResult(q) \/ Fail(q) \/ LoseAcknowledgement(q)
      PROVE  HostTold'
  <2>1. /\ UNCHANGED <<host, told, req>>
        /\ \A p \in Requests : pc'[p] \in {"reload", "update"} => pc[p] \in {"reload", "update"}
    BY <1>5 DEF Reload, Update, PublishStatus, FindMembership, InsertResult, SaveStatus,
                CommitResult, PublishResult, Fail, LoseAcknowledgement, Continue, Finish
  <2> QED
    BY <1>1, <2>1
<1>6. CASE Restart
  BY <1>6 DEF Restart
<1>7. CASE UNCHANGED <<host, told, pc, req>>
  BY <1>1, <1>7
<1> QED
  BY <1>2, <1>3, <1>4, <1>5, <1>6, <1>7
     DEF Next, Surroundings, Tick, Join, ValidateMove, CommitMove, DropMoves, Advance, vars

LEMMA StatusStep ==
    TypeOK /\ RowsFollowReservation /\ StatusHasResult /\ [Next]_vars => StatusHasResult'
<1> SUFFICES ASSUME TypeOK, RowsFollowReservation, StatusHasResult, [Next]_vars
             PROVE  StatusHasResult'
  OBVIOUS
<1> USE NoStatusAssumption, NoResultAssumption
        DEF TypeOK, StatusHasResult, UserReservationStatus, ReservationResultStatus
<1>1. CASE UNCHANGED <<status, result>>
  BY <1>1
<1>2. ASSUME NEW u \in Users, NEW t \in Times, Create(u, t)
      PROVE  StatusHasResult'
  BY <1>2 DEF Create
<1>3. ASSUME NEW u \in Users, Join(u)
      PROVE  StatusHasResult'
  BY <1>3 DEF Join
<1>4. ASSUME NEW q \in Requests, PublishStatus(q)
      PROVE  StatusHasResult'
  BY <1>4, InService DEF PublishStatus
<1>5. ASSUME NEW q \in Requests, PublishResult(q)
      PROVE  StatusHasResult'
  BY <1>5, InService DEF PublishResult, StatusOf
<1> QED
  BY <1>1, <1>2, <1>3, <1>4, <1>5
     DEF Next, Surroundings, Tick, ValidateMove, CommitMove, DropMoves, Arrive, Advance, CheckTime,
         FindReservation, FindMembers, Reload, Update, FindMembership, InsertResult, SaveStatus,
         CommitResult, Fail, LoseAcknowledgement, Restart, vars

\* No step changes a committed result.
LEMMA ResultsStay ==
    ASSUME TypeOK, ResultsExclusive, [Next]_vars, NEW u \in Users, result[u] # NoResult
    PROVE  result'[u] = result[u]
<1>1. ASSUME NEW q \in Requests, PublishResult(q)
      PROVE  result'[u] = result[u]
  BY <1>1 DEF PublishResult, ResultsExclusive, TypeOK
<1> QED
  BY <1>1
     DEF Next, Surroundings, Tick, Create, Join, ValidateMove, CommitMove, DropMoves, Arrive, Advance,
         CheckTime, FindReservation, FindMembers, Reload, Update, PublishStatus, FindMembership,
         InsertResult, SaveStatus, CommitResult, Fail, LoseAcknowledgement, Restart, vars

LEMMA AnswersStep ==
    TypeOK /\ ResultsExclusive /\ ResultAnswersHold /\ [Next]_vars => ResultAnswersHold'
<1> SUFFICES ASSUME TypeOK, ResultsExclusive, ResultAnswersHold, [Next]_vars,
                    NEW p \in Requests, answer'[p] \in {"recorded", "ResultAlreadyExists"}
             PROVE  IF answer'[p] = "recorded"
                    THEN result'[req'[p].user] = req'[p].wanted
                    ELSE result'[req'[p].user] # NoResult
  BY NoResultAssumption DEF ResultAnswersHold, TypeOK
<1> USE NoResultAssumption DEF TypeOK, ResultAnswersHold
<1>a. ASSUME req'[p] = req[p], answer'[p] = answer[p]
      PROVE  IF answer'[p] = "recorded"
             THEN result'[req'[p].user] = req'[p].wanted
             ELSE result'[req'[p].user] # NoResult
  <2>1. req[p].user \in Users /\ result[req[p].user] # NoResult
    BY <1>a, Bodies
  <2>2. result'[req[p].user] = result[req[p].user]
    BY <2>1, ResultsStay
  <2> QED
    BY <1>a, <2>1, <2>2
<1>1. ASSUME NEW q \in Requests, q # p,
             req' = [req EXCEPT ![q] = req'[q]], answer' = [answer EXCEPT ![q] = answer'[q]]
      PROVE  IF answer'[p] = "recorded"
             THEN result'[req'[p].user] = req'[p].wanted
             ELSE result'[req'[p].user] # NoResult
  BY <1>1, <1>a
<1>2. ASSUME NEW q \in Requests, Arrive(q)
      PROVE  q # p /\ req' = [req EXCEPT ![q] = req'[q]] /\ answer' = [answer EXCEPT ![q] = answer'[q]]
  BY <1>2 DEF Arrive, CheckTime, Pass, FindReservation, Receive, Continue, Finish
<1>3. ASSUME NEW q \in Requests,
             FindMembers(q) \/ Reload(q) \/ Update(q) \/ FindMembership(q) \/ SaveStatus(q)
             \/ Fail(q) \/ LoseAcknowledgement(q)
      PROVE  q # p /\ req' = [req EXCEPT ![q] = req'[q]] /\ answer' = [answer EXCEPT ![q] = answer'[q]]
  BY <1>3 DEF FindMembers, Reload, Update, PublishStatus, FindMembership, SaveStatus, Fail,
              LoseAcknowledgement, PublishResult, Continue, Finish
<1>4. ASSUME NEW q \in Requests, q = p, InsertResult(q)
      PROVE  IF answer'[p] = "recorded"
             THEN result'[req'[p].user] = req'[p].wanted
             ELSE result'[req'[p].user] # NoResult
  BY <1>4 DEF InsertResult, Continue, Finish
<1>5. ASSUME NEW q \in Requests, q = p, CommitResult(q)
      PROVE  IF answer'[p] = "recorded"
             THEN result'[req'[p].user] = req'[p].wanted
             ELSE result'[req'[p].user] # NoResult
  BY <1>5, InService DEF CommitResult, PublishResult, Finish
<1>6. ASSUME NEW q \in Requests, q # p, InsertResult(q) \/ CommitResult(q)
      PROVE  req' = [req EXCEPT ![q] = req'[q]] /\ answer' = [answer EXCEPT ![q] = answer'[q]]
  BY <1>6 DEF InsertResult, CommitResult, PublishResult, Continue, Finish
<1>7. CASE Restart
  BY <1>7 DEF Restart
<1>8. CASE UNCHANGED <<req, answer>>
  BY <1>8, <1>a
<1> QED
  BY <1>1, <1>2, <1>3, <1>4, <1>5, <1>6, <1>7, <1>8
     DEF Next, Surroundings, Tick, Create, Join, ValidateMove, CommitMove, DropMoves, Advance, vars

LEMMA HeardStep ==
    TypeOK /\ RowsFollowReservation /\ HostTold /\ HostHearsReadiness /\ [Next]_vars
        => HostHearsReadiness'
<1> SUFFICES ASSUME TypeOK, RowsFollowReservation, HostTold, HostHearsReadiness, [Next]_vars
             PROVE  HostHearsReadiness'
  OBVIOUS
<1> USE DEF TypeOK, HostHearsReadiness
<1>1. ASSUME UNCHANGED host,
             \A u \in Users : told[u] \subseteq told'[u]
                             /\ (status'[u] = "READY" => status[u] = "READY")
      PROVE  HostHearsReadiness'
  BY <1>1
<1>2. ASSUME NEW u \in Users, NEW t \in Times, Create(u, t)
      PROVE  HostHearsReadiness'
  BY <1>2, NoStatusAssumption DEF Create, RowsFollowReservation, UserReservationStatus
<1>3. ASSUME NEW u \in Users, Join(u)
      PROVE  HostHearsReadiness'
  BY <1>1, <1>3 DEF Join
<1>4. ASSUME NEW q \in Requests, FindMembers(q)
      PROVE  HostHearsReadiness'
  BY <1>1, <1>4 DEF FindMembers, Notify
<1>5. ASSUME NEW q \in Requests, PublishStatus(q)
      PROVE  HostHearsReadiness'
  BY <1>5, InService DEF PublishStatus, HostTold
<1>6. ASSUME NEW q \in Requests, PublishResult(q)
      PROVE  HostHearsReadiness'
  BY <1>1, <1>6 DEF PublishResult, StatusOf
<1>7. CASE UNCHANGED <<host, status, told>>
  BY <1>1, <1>7
<1> QED
  BY <1>2, <1>3, <1>4, <1>5, <1>6, <1>7
     DEF Next, Surroundings, Tick, ValidateMove, CommitMove, DropMoves, Arrive, Advance, CheckTime,
         FindReservation, Reload, Update, FindMembership, InsertResult, SaveStatus, CommitResult,
         Fail, LoseAcknowledgement, Restart, vars

-------------------------------------------------------------------------------
(* The theorems *)

\* What every other theorem rests on: rows appear after their reservation, results
\* exclude each other, times checked stay checked, and the host is told before a
\* status is saved.
THEOREM Invariance == Spec => []IInv
<1>1. Init => IInv
  <2> SUFFICES ASSUME Init
               PROVE  IInv
    OBVIOUS
  <2>1. RowsFollowReservation /\ ResultsExclusive /\ CheckedInTime /\ HostTold
    BY NoTimeAssumption
       DEF Init, RowsFollowReservation, ResultsExclusive, CheckedInTime, HostTold
  <2>2. StatusHasResult /\ ResultAnswersHold /\ HostHearsReadiness
    BY NoStatusAssumption
       DEF Init, StatusHasResult, ResultAnswersHold, HostHearsReadiness, UserReservationStatus
  <2>3. TypeOK
    BY BoundsAssumption DEF Init, TypeOK, Times, Outcomes
  <2> QED
    BY <2>1, <2>2, <2>3 DEF IInv
<1>2. IInv /\ [Next]_vars => IInv'
  BY TypeStep, RowsStep, ExclusiveStep, CheckedStep, ToldStep, StatusStep, AnswersStep, HeardStep
     DEF IInv
<1> QED
  BY <1>1, <1>2, PTL DEF Spec

\* Every variable keeps its type, and each slot in service holds a request of
\* the kind its next statement serves.
THEOREM TypeCorrect == Spec => []TypeOK
<1>1. IInv => TypeOK
  BY DEF IInv
<1> QED
  BY <1>1, Invariance, PTL

\* Only members have results, and a final status always has the result it shows.
THEOREM FinalStatusHasResult == Spec => []StatusHasResult
<1>1. IInv => StatusHasResult
  BY DEF IInv
<1> QED
  BY <1>1, Invariance, PTL

\* What the answers of createReservationResult say of the result stays true.
THEOREM ResultAnswersTrue == Spec => []ResultAnswersHold
<1>1. IInv => ResultAnswersHold
  BY DEF IInv
<1> QED
  BY <1>1, Invariance, PTL

\* The host has been told of every other member shown as ready.
THEOREM HostsHear == Spec => []HostHearsReadiness
<1>1. IInv => HostHearsReadiness
  BY DEF IInv
<1> QED
  BY <1>1, Invariance, PTL

\* Participation implements Ledger: committing a result records it for a member
\* without one, creating and joining let users enter, and no other step changes who
\* is a member or has which result.
THEOREM ImplementsLedger == Spec => LedgerSpec
<1>1. Init => Ledgers!Init
  BY DEF Init, Ledgers!Init, Member
<1>2. IInv /\ [Next]_vars => [Ledgers!Next]_(Ledgers!vars)
  <2> SUFFICES ASSUME IInv, [Next]_vars
               PROVE  Ledgers!Next \/ UNCHANGED <<{u \in Users : Member(u)}, result>>
    BY DEF Ledgers!vars
  <2> USE DEF IInv, TypeOK, Member
  <2>1. ASSUME NEW u \in Users, ~ Member(u), UNCHANGED result,
               status' = [status EXCEPT ![u] = "DEFAULT"]
        PROVE  Ledgers!Next
    <3>1. Ledgers!Enter(u)
      BY <2>1, NoStatusAssumption DEF Ledgers!Enter, UserReservationStatus
    <3> QED
      BY <3>1 DEF Ledgers!Next
  <2>2. ASSUME NEW u \in Users, NEW t \in Times, Create(u, t)
        PROVE  Ledgers!Next
    BY <2>1, <2>2 DEF Create, RowsFollowReservation
  <2>3. ASSUME NEW u \in Users, Join(u)
        PROVE  Ledgers!Next
    BY <2>1, <2>3 DEF Join
  <2>4. ASSUME NEW q \in Requests, PublishResult(q)
        PROVE  Ledgers!Next
    <3>1. /\ req[q].user \in Users /\ req[q].wanted \in ReservationResultStatus
          /\ Member(req[q].user) /\ result[req[q].user] = NoResult
      BY <2>4, Bodies DEF PublishResult, Recording, RowsFollowReservation, ResultsExclusive
    <3>2. StatusOf(req[q].wanted) # NoStatus
      BY NoStatusAssumption DEF StatusOf, UserReservationStatus
    <3>3. Ledgers!Record(req[q].user, req[q].wanted)
      BY <2>4, <3>1, <3>2 DEF PublishResult, Ledgers!Record
    <3> QED
      BY <3>1, <3>3 DEF Ledgers!Next
  <2>5. ASSUME NEW q \in Requests, PublishStatus(q)
        PROVE  UNCHANGED <<{u \in Users : Member(u)}, result>>
    BY <2>5, InService, NoStatusAssumption
       DEF PublishStatus, RowsFollowReservation, StatusRequest, UserReservationStatus, Updating
  <2>6. CASE UNCHANGED <<status, result>>
    BY <2>6
  <2> QED
    BY <2>2, <2>3, <2>4, <2>5, <2>6
       DEF Next, Surroundings, Tick, ValidateMove, CommitMove, DropMoves, Arrive, Advance, CheckTime,
           FindReservation, FindMembers, Reload, Update, FindMembership, InsertResult,
           SaveStatus, CommitResult, Fail, LoseAcknowledgement, Restart, vars
<1> QED
  BY <1>1, <1>2, Invariance, PTL DEF Spec, LedgerSpec, Ledgers!Spec

\* Whoever becomes ready does so on a check of a time the reservation had while the
\* request was in service, however often it is moved meanwhile.
THEOREM ReadinessInTime == Spec => ReadyInTime
<1> DEFINE InTime(u) ==
        status[u] # "READY" /\ status'[u] = "READY" =>
            \E q \in Requests :
                /\ pc[q] = "update" /\ pc'[q] = "idle" /\ req[q].user = u
                /\ \E d \in held[q] : now >= d - Hour
<1>1. ASSUME IInv, [Next]_vars, NEW u \in Users
      PROVE  InTime(u)
  <2> SUFFICES ASSUME status[u] # "READY", status'[u] = "READY"
               PROVE  \E q \in Requests :
                          /\ pc[q] = "update" /\ pc'[q] = "idle" /\ req[q].user = u
                          /\ \E d \in held[q] : now >= d - Hour
    OBVIOUS
  <2> USE DEF IInv, TypeOK
  <2>1. PICK q \in Requests : PublishStatus(q) /\ (Update(q) \/ LoseAcknowledgement(q))
    <3>1. ASSUME NEW q \in Requests
          PROVE  ~ PublishResult(q)
      BY <1>1, <3>1 DEF PublishResult, StatusOf
    <3> QED
      BY <1>1, <3>1
         DEF Next, Surroundings, Tick, Create, Join, ValidateMove, CommitMove, DropMoves, Arrive, Advance,
             CheckTime, FindReservation, FindMembers, Reload, Update, FindMembership, InsertResult,
             SaveStatus, CommitResult, Fail, LoseAcknowledgement, Restart, vars
  <2>2. pc[q] = "update" /\ pc'[q] = "idle" /\ req[q].user = u
    BY <1>1, <2>1 DEF PublishStatus, Update, LoseAcknowledgement, Finish
  <2>3. \E d \in held[q] : now >= d - Hour
    BY <1>1, <2>2 DEF CheckedInTime
  <2> QED
    BY <2>2, <2>3
<1>2. IInv /\ [Next]_vars => [\A u \in Users : InTime(u)]_vars
  BY <1>1
<1> QED
  BY <1>2, Invariance, PTL DEF Spec, ReadyInTime
===============================================================================
