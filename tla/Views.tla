--------------------------------- MODULE Views ---------------------------------
(***************************************************************************)
(* What the read-only requests of one user, Me, are answered while the     *)
(* tables change: the list of reservations page by page, the details, the  *)
(* members and the results of a reservation, the statistics of the user,   *)
(* and poking another member (reservations.service.ts,                     *)
(* reservation-results.service.ts, user-statistics.service.ts).            *)
(*                                                                         *)
(* None of them writes a row, so one request at a time loses nothing.  At  *)
(* READ COMMITTED each statement sees the rows of its own moment, also     *)
(* inside the transaction of getReservationDetail; so each action is one   *)
(* statement, and the tables change between them.  Left out: the columns   *)
(* that are only copied to the answer, and the pictures and profile codes  *)
(* that decorate it (a URL that cannot be signed is left out of it).       *)
(*                                                                         *)
(* Each definition marked "Bug:" is a plausible error in the one after it, *)
(* kept to show that some property of the module would notice it.          *)
(***************************************************************************)
EXTENDS Tables, Sequences, SequencesExt

CONSTANTS
    Me,                 \* the user whose requests are followed
    MaxParticipants,    \* 30 in the source
    PageSizes,          \* the limits a list request may carry
    NoReservation, NoWalk

ASSUME MeAssumption == Me \in Users
ASSUME PageSizesAssumption == PageSizes \subseteq Nat \ {0}

VARIABLES
    pc,         \* the statement that is next, or how the last request was answered
    res,        \* the reservation the request is about
    got,        \* what the request has read
    base,       \* what was so at its first statement
    walk        \* the pages of a list read one after the other

view == <<pc, res, got, base, walk>>
vars == <<tables, view>>

-------------------------------------------------------------------------------
(* The request in service *)

Refused == {"NotFound", "AccessDenied", "NotDone", "NotMember", "Self", "NoToken",
            "SendFailed", "ServerError"}
Shown == {"listed", "detailed", "membersShown", "resultsShown", "counted", "poked"}
Idle == {"none"} \union Refused \union Shown

Reading == {"findOwn", "countDetail", "answerDetail", "findMembers", "checkAccess",
            "findResults", "findOwnResult", "findOtherResults", "signResults",
            "countSuccesses", "findMemberships", "findPoked", "send"}

\* The request has found a reservation.
About == (Reading \ {"countSuccesses"}) \union {"detailed", "membersShown", "resultsShown", "poked"}

Listing == {"countPage", "findParticipants"}

\* What a request has read and answers: the reservation's host and time, whether
\* the user takes part in it, numbers, and the users shown (or poked).
Got == [host : Users \union {NoUser}, time : Times \union {NoTime}, member : BOOLEAN,
        count : Nat, successes : Nat, shown : SUBSET Users,
        canEdit : BOOLEAN, canJoin : BOOLEAN]
Nothing == [host |-> NoUser, time |-> NoTime, member |-> FALSE, count |-> 0,
            successes |-> 0, shown |-> {}, canEdit |-> FALSE, canJoin |-> FALSE]

\* What was so at its first statement, for the properties to compare with.
Base == [members : SUBSET Users, recorded : SUBSET Users, moves : 0..MaxMoves]

NoBase == [members |-> {}, recorded |-> {}, moves |-> 0]

\* The request is refused, or fails, and answers nothing else.
End(outcome) ==
    /\ pc' = outcome
    /\ res' = NoReservation
    /\ got' = Nothing
    /\ base' = NoBase
    /\ walk' = NoWalk
    /\ UNCHANGED tables

\* Bug: a reservation that does not exist is not refused.
BeginUnchecked(r, next, first, present) ==
    /\ pc \in Idle
    /\ pc' = next /\ res' = r /\ got' = first /\ base' = present
    /\ walk' = NoWalk
    /\ UNCHANGED tables

\* A request of Me about r reads its row first.
Begin(r, next, first, present) ==
    /\ pc \in Idle
    /\ IF Created(r)
       THEN /\ pc' = next /\ res' = r /\ got' = first /\ base' = present
            /\ walk' = NoWalk
            /\ UNCHANGED tables
       ELSE End("NotFound")

\* A further statement of the request.
Read(label, next, read) ==
    /\ pc = label
    /\ pc' = next
    /\ got' = read
    /\ UNCHANGED <<tables, res, base, walk>>

-------------------------------------------------------------------------------
(* getReservationDetail *)

FindDetail(r) ==
    Begin(r, "findOwn", [Nothing EXCEPT !.host = host[r], !.time = time[r]],
          [NoBase EXCEPT !.members = members[r]])

FindOwn == Read("findOwn", "countDetail", [got EXCEPT !.member = Me \in members[res]])

CountDetail ==
    Read("countDetail", "answerDetail", [got EXCEPT !.count = Cardinality(members[res])])

\* Bug: a host who is no member may join, and so may everybody.
AnswerDetailOpen ==
    Read("answerDetail", "detailed", [got EXCEPT !.canJoin = got.count < MaxParticipants])

\* The pictures' URLs are signed, and the flags computed from what was read.
AnswerDetail ==
    Read("answerDetail", "detailed",
         [got EXCEPT !.canEdit = got.host = Me /\ got.time > now,
                     !.canJoin = /\ ~ got.member
                                 /\ got.host # Me
                                 /\ got.count < MaxParticipants])

-------------------------------------------------------------------------------
(* getMembers and GetReservationMemberResponse *)

FindForMembers(r) ==
    Begin(r, "findMembers", [Nothing EXCEPT !.host = host[r]], NoBase)

\* GetReservationMemberResponse: all members are counted, and Me is not listed.
MembersAnswer(rows) == [got EXCEPT !.count = Cardinality(rows), !.shown = rows \ {Me}]

\* Who is not among the members is refused.
FindMembers ==
    \/ /\ Read("findMembers", "membersShown", MembersAnswer(members[res]))
       /\ Me \in members[res]
    \/ /\ pc = "findMembers" /\ End("NotMember")
       /\ Me \notin members[res]

-------------------------------------------------------------------------------
(* getReservationResults *)

FindForResults(r) ==
    Begin(r, "checkAccess", [Nothing EXCEPT !.time = time[r]],
          [NoBase EXCEPT !.recorded = Recorded(r), !.moves = moves])

\* Bug: the reservation's time is not compared with the clock.
CheckAccessAnyTime ==
    \/ pc = "checkAccess" /\ End("AccessDenied") /\ Me \notin members[res]
    \/ Read("checkAccess", "findResults", got) /\ Me \in members[res]

\* The membership is read, then the clock is compared with the time read before.
CheckAccess ==
    \/ pc = "checkAccess" /\ End("AccessDenied") /\ Me \notin members[res]
    \/ pc = "checkAccess" /\ End("NotDone") /\ Me \in members[res] /\ now < got.time
    \/ Read("checkAccess", "findResults", got) /\ Me \in members[res] /\ got.time <= now

\* The user's own result and the others' are read at once, in any order.
OwnResult == [got EXCEPT !.shown = @ \union (Recorded(res) \intersect {Me})]
OtherResults == [got EXCEPT !.shown = @ \union (Recorded(res) \ {Me})]

FindResults ==
    \/ Read("findResults", "findOtherResults", OwnResult)
    \/ Read("findResults", "findOwnResult", OtherResults)
    \/ Read("findOtherResults", "signResults", OtherResults)
    \/ Read("findOwnResult", "signResults", OwnResult)

\* The pictures of the results are read and their URLs signed.
AnswerResults == Read("signResults", "resultsShown", got)

-------------------------------------------------------------------------------
(* getMyInfo and getUserStatistics *)

Entries == {r \in Reservations : Me \in members[r]}

Successful == {r \in Reservations : result[r][Me] \in {"SUCCESS", "HALF_SUCCESS"}}

CountReservations ==
    /\ pc \in Idle
    /\ pc' = "countSuccesses"
    /\ res' = NoReservation
    /\ got' = [Nothing EXCEPT !.count = Cardinality(Entries)]
    /\ base' = NoBase
    /\ walk' = NoWalk
    /\ UNCHANGED tables

\* Bug: the results of everybody are counted.
CountSuccessesOfAll ==
    Read("countSuccesses", "counted",
         [got EXCEPT !.successes =
              Cardinality({e \in Reservations \X Users :
                               result[e[1]][e[2]] \in {"SUCCESS", "HALF_SUCCESS"}})])

CountSuccesses ==
    Read("countSuccesses", "counted", [got EXCEPT !.successes = Cardinality(Successful)])

\* Any error of the two counts is answered with zeros.
CountNothing == Read("countSuccesses", "counted", Nothing)

-------------------------------------------------------------------------------
(* kokUserInReservation *)

FindForPoke(r, u) ==
    \/ u # Me /\ Begin(r, "findMemberships", [Nothing EXCEPT !.shown = {u}], NoBase)
    \/ u = Me /\ pc \in Idle /\ End(IF Created(r) THEN "Self" ELSE "NotFound")

\* Bug: only the membership of the user who pokes is checked.
FindMembershipsOfPoker ==
    \/ Read("findMemberships", "findPoked", got) /\ Me \in members[res]
    \/ pc = "findMemberships" /\ End("AccessDenied") /\ Me \notin members[res]

FindMemberships ==
    LET both == {Me} \union got.shown \subseteq members[res] IN
    \/ Read("findMemberships", "findPoked", got) /\ both
    \/ pc = "findMemberships" /\ End("AccessDenied") /\ ~ both

\* The row of the other user holds a token at that moment, or it does not; the
\* setting kokAlarmSetting is not read.
FindPoked ==
    \/ Read("findPoked", "send", got)
    \/ pc = "findPoked" /\ End("NoToken")

\* Firebase accepts the message or does not; every error of it becomes one.
Send ==
    \/ Read("send", "poked", got)
    \/ pc = "send" /\ End("SendFailed")

-------------------------------------------------------------------------------
(* getReservations *)

\* GetReservationsQueryDto; without a status all reservations are asked for.
StatusFilter == {"ALL", "AFTER", "BEFORE"}

Query == [status : StatusFilter, order : {"ASC", "DESC"}, limit : PageSizes]

\* The reservations of Me that the filter lets through at the moment asOf.
Matching(query, asOf) ==
    {r \in Entries : CASE query.status = "AFTER" -> time[r] >= asOf
                       [] query.status = "BEFORE" -> time[r] < asOf
                       [] OTHER -> TRUE}

InOrder(r, s, order) == IF order = "ASC" THEN time[r] <= time[s] ELSE time[r] >= time[s]

\* The rows by time; the order of rows with the same time is the database's.
Orderings(rows, order) ==
    {s \in SetToSeqs(rows) : \A i, j \in 1..Len(s) : i < j => InOrder(s[i], s[j], order)}

\* Bug: pages are counted from zero.
OffsetFromZero(query, page) == page * query.limit

Offset(query, page) == (page - 1) * query.limit

\* PaginationMetadata.
LastPage(w) == (w.total + w.query.limit - 1) \div w.query.limit
HasNext(w) == w.page < LastPage(w)

\* The rows of the page, by the filter and the clock of this request.
FindPage(w) ==
    \E s \in Orderings(Matching(w.query, now), w.query.order) :
        LET from == Offset(w.query, w.page)
            to == Min({from + w.query.limit, Len(s)}) IN
        /\ pc' = "countPage"
        /\ walk' = [w EXCEPT !.asOf = now, !.slice = SubSeq(s, from + 1, to), !.total = 0,
                             !.listed = @ \union Matching(w.query, now)]
        /\ res' = NoReservation
        /\ got' = Nothing
        /\ base' = NoBase
        /\ UNCHANGED tables

\* A client asks for the first page.
ListFirst(query) ==
    /\ pc \in Idle
    /\ FindPage([query |-> query, page |-> 1, asOf |-> now, slice |-> <<>>, total |-> 0,
                 collected |-> <<>>, entries |-> Matching(query, now), listed |-> {},
                 moves |-> moves])

\* It asks for the next one as long as it is told that there is one.
ListNext ==
    /\ pc = "listed"
    /\ HasNext(walk)
    /\ FindPage([walk EXCEPT !.page = @ + 1])

\* The second statement of findAndCount; if it counts none the list is empty.
CountPage ==
    LET total == Cardinality(Matching(walk.query, walk.asOf)) IN
    /\ pc = "countPage"
    /\ IF total = 0
       THEN pc' = "listed" /\ walk' = [walk EXCEPT !.slice = <<>>]
       ELSE pc' = "findParticipants" /\ walk' = [walk EXCEPT !.total = total]
    /\ UNCHANGED <<tables, res, got, base>>

\* getParticipantInfoMap and getImageUrlMap, and the answer.
FindParticipants ==
    /\ pc = "findParticipants"
    /\ pc' = "listed"
    /\ walk' = [walk EXCEPT !.collected = @ \o walk.slice, !.slice = <<>>]
    /\ UNCHANGED <<tables, res, got, base>>

-------------------------------------------------------------------------------
\* A statement fails, and with it the request.  Errors of the statistics' counts,
\* of signing a picture's URL and of Firebase are caught, and are not of this kind.
Fail ==
    /\ pc \in (Reading \ {"answerDetail", "countSuccesses", "send"}) \union Listing
    /\ End("ServerError")

Arrive ==
    \/ \E r \in Reservations :
           \/ FindDetail(r) \/ FindForMembers(r) \/ FindForResults(r)
           \/ \E u \in Users : FindForPoke(r, u)
    \/ CountReservations
    \/ \E query \in Query : ListFirst(query)
    \/ ListNext

Advance ==
    \/ FindOwn \/ CountDetail \/ AnswerDetail
    \/ FindMembers
    \/ CheckAccess \/ FindResults \/ AnswerResults
    \/ CountSuccesses \/ CountNothing
    \/ FindMemberships \/ FindPoked \/ Send
    \/ CountPage \/ FindParticipants

Init ==
    /\ TablesInit
    /\ pc = "none"
    /\ res = NoReservation
    /\ got = Nothing
    /\ base = NoBase
    /\ walk = NoWalk

Next ==
    \/ Change /\ UNCHANGED view
    \/ Arrive \/ Advance \/ Fail

Spec == Init /\ [][Next]_vars

-------------------------------------------------------------------------------
(* Types *)

Walk == [query : Query, page : Nat \ {0}, asOf : Times, slice : Seq(Reservations),
         total : Nat, collected : Seq(Reservations), entries : SUBSET Reservations,
         listed : SUBSET Reservations, moves : 0..MaxMoves]

\* Requests that read a reservation have found one that exists.
TypeOK ==
    /\ TablesTypeOK
    /\ pc \in Idle \union Reading \union Listing
    /\ res \in Reservations \union {NoReservation}
    /\ got \in Got
    /\ base \in Base
    /\ walk \in Walk \union {NoWalk}
    /\ pc \in Listing \union {"listed"} => walk \in Walk
    /\ pc \in About => res \in Reservations /\ Created(res)

-------------------------------------------------------------------------------
(* Safety *)

\* Details are true of some moment while they were read: who was a member when
\* the request began is shown as one, a host or a member is never invited to join,
\* and the number of participants lies between the ones at the two ends.
DetailHonest ==
    pc = "detailed" =>
        /\ Me \in base.members => got.member
        /\ got.member => Me \in members[res]
        /\ got.host = Me \/ Me \in base.members => ~ got.canJoin
        /\ Cardinality(base.members) <= got.count /\ got.count <= Cardinality(members[res])

\* Results are shown to members only, all that were recorded when the request
\* began are among them, and the reservation is over, unless an edit that began
\* before its time was committed in the meantime.
ResultsAfterwards ==
    pc = "resultsShown" =>
        /\ Me \in members[res]
        /\ base.recorded \subseteq got.shown /\ got.shown \subseteq Recorded(res)
        /\ now < time[res] => base.moves < moves

\* Whom a user is shown as a member, or pokes, takes part in the same reservation,
\* though the memberships are read before and may be followed by other changes.
PeersOnly ==
    pc \in {"membersShown", "findPoked", "send", "poked"} =>
        {Me} \union got.shown \subseteq members[res]

\* The two counts of the statistics are not of one moment: there are more
\* successes than reservations only if the user has joined one since the first.
SuccessesJoined ==
    pc = "counted" =>
        /\ got.count <= Cardinality(Entries)
        /\ got.successes > got.count => got.count < Cardinality(Entries)

\* Since the first page no reservation was moved and none dropped out of the list
\* that was in it when some page was read, and no two have the same time.  A
\* reservation that came in and dropped out again has shifted the pages twice.
Undisturbed ==
    /\ walk.moves = moves
    /\ walk.listed \subseteq Matching(walk.query, walk.asOf)
    /\ \A r, s \in Entries : time[r] = time[s] => r = s

\* Whoever reads page after page of an undisturbed list until there is no next one
\* has seen every reservation that was in it at the first page, in spite of others
\* that come in between; and if no page was cut from a list with others in it, has
\* seen each of them once, in order.
WalkComplete ==
    pc = "listed" /\ ~ HasNext(walk) /\ Undisturbed =>
        /\ walk.entries \subseteq ToSet(walk.collected)
        /\ walk.listed = walk.entries =>
               walk.collected \in Orderings(walk.entries, walk.query.order)

-------------------------------------------------------------------------------
(* The inductive invariant behind all of them but WalkComplete *)

\* What has been read so far is not more than what is so by now, for rows are
\* only added, and not less than what was so at the first statement.
DetailSoFar ==
    pc \in {"findOwn", "countDetail", "answerDetail", "detailed"} =>
        /\ base.members \subseteq members[res]
        /\ got.member => Me \in members[res]
        /\ pc # "findOwn" => (Me \in base.members => got.member)
        /\ pc \in {"answerDetail", "detailed"} =>
               /\ Cardinality(base.members) <= got.count
               /\ got.count <= Cardinality(members[res])

\* The time that was read is the reservation's unless it was moved.
ResultsSoFar ==
    pc \in {"checkAccess", "findResults", "findOwnResult", "findOtherResults", "signResults",
           "resultsShown"} =>
        /\ got.time \in Times
        /\ base.moves <= moves
        /\ base.moves = moves => got.time = time[res]
        /\ base.recorded \subseteq Recorded(res)
        /\ got.shown \subseteq Recorded(res)
        /\ pc # "checkAccess" => Me \in members[res] /\ got.time <= now
        /\ pc \in {"findOtherResults", "signResults", "resultsShown"} =>
               base.recorded \intersect {Me} \subseteq got.shown
        /\ pc \in {"findOwnResult", "signResults", "resultsShown"} =>
               base.recorded \ {Me} \subseteq got.shown

\* A user's successes are among its reservations.
CountsSoFar ==
    pc \in {"countSuccesses", "counted"} =>
        got.count <= Cardinality(Entries) /\ got.successes <= Cardinality(Entries)

IInv ==
    /\ TypeOK
    /\ RowsFollowReservation
    /\ DetailSoFar
    /\ DetailHonest
    /\ ResultsSoFar
    /\ PeersOnly
    /\ CountsSoFar

-------------------------------------------------------------------------------
(* The inductive invariant behind WalkComplete *)

\* A reservation stays in the list by whose clock it was in one, unless it is moved
\* or the filter asks for the ones to come.
WalkGrows ==
    pc \in Listing \union {"listed"} =>
        /\ walk.asOf <= now
        /\ walk.moves <= moves
        /\ walk.entries \subseteq walk.listed
        /\ walk.listed \subseteq Entries
        /\ walk.moves = moves /\ walk.query.status # "AFTER" =>
               walk.listed \subseteq Matching(walk.query, walk.asOf)

\* Those of the rows that come before r.
Ahead(r, rows, order) ==
    {s \in rows : IF order = "ASC" THEN time[s] < time[r] ELSE time[s] > time[r]}

\* How many reservations of the list come before r.
Place(r) == Cardinality(Ahead(r, walk.listed, walk.query.order))

\* The offset at which the next page would begin.
Covered == walk.page * walk.query.limit

\* What the pages have shown so far, the one in service included.
SoFar == walk.collected \o walk.slice

\* Of the reservations there were at first, those that by now have a place before
\* the end of the page have been seen: newcomers only move them back.
WalkSoFar ==
    pc \in Listing \union {"listed"} /\ Undisturbed =>
        /\ \A r \in walk.entries : Place(r) < Covered => r \in ToSet(SoFar)
        /\ walk.listed = walk.entries =>
               /\ Len(SoFar) = Min({Covered, Cardinality(walk.entries)})
               /\ \A i \in DOMAIN SoFar :
                      SoFar[i] \in walk.entries /\ Place(SoFar[i]) = i - 1
        /\ pc # "countPage" /\ ~ HasNext(walk) => Cardinality(walk.listed) <= Covered
        /\ pc = "listed" => walk.slice = <<>>

WalkInv == WalkGrows /\ WalkSoFar
===============================================================================
