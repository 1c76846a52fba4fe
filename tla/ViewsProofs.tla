------------------------------ MODULE ViewsProofs ------------------------------
(***************************************************************************)
(* Theorems about Views, for any users, reservations, page sizes and       *)
(* bounds on the clock, on moves and on rows.                              *)
(***************************************************************************)
EXTENDS Views, FiniteSetTheorems, SequenceTheorems, TLAPS

USE DEF Created

-------------------------------------------------------------------------------
(* The tables *)

LEMMA TablesStep ==
    ASSUME TablesTypeOK, RowsFollowReservation, Change
    PROVE  TablesTypeOK' /\ RowsFollowReservation'
<1> USE DEF TablesTypeOK, RowsFollowReservation, Recorded
<1>1. CASE Tick
  BY <1>1, BoundsAssumption DEF Tick, Times
<1>2. ASSUME NEW m \in moving, CommitMove(m)
      PROVE  TablesTypeOK' /\ RowsFollowReservation'
  <2>1. m.res \in Reservations /\ m.to \in Times
    BY DEF Move
  <2> QED
    BY <1>2, <2>1, BoundsAssumption DEF CommitMove, Move
<1>3. ASSUME NEW r \in Reservations, NEW u \in Users, NEW t \in Times, Create(r, u, t)
      PROVE  TablesTypeOK' /\ RowsFollowReservation'
  BY <1>3, NobodyAssumption DEF Create, Rosters!Open
<1>4. ASSUME NEW r \in Reservations, NEW u \in Users, Join(r, u)
      PROVE  TablesTypeOK' /\ RowsFollowReservation'
  BY <1>4 DEF Join, Rosters!Enter
<1>5. ASSUME NEW r \in Reservations, NEW t \in Times, ValidateMove(r, t)
      PROVE  TablesTypeOK' /\ RowsFollowReservation'
  BY <1>5 DEF ValidateMove, Move
<1>6. ASSUME NEW r \in Reservations, NEW u \in Users, NEW s \in Results, Record(r, u, s)
      PROVE  TablesTypeOK' /\ RowsFollowReservation'
  BY <1>6 DEF Record
<1>7. CASE DropMoves
  BY <1>7 DEF DropMoves
<1> QED
  BY <1>1, <1>2, <1>3, <1>4, <1>5, <1>6, <1>7 DEF Change

\* Nothing that a reader has seen goes away, except the time of a moved reservation.
LEMMA TablesGrow ==
    ASSUME TablesTypeOK, RowsFollowReservation, Change, NEW r \in Reservations
    PROVE  /\ members[r] \subseteq members'[r]
           /\ Recorded(r) \subseteq {u \in Users : result'[r][u] # NoResult}
           /\ now <= now' /\ moves <= moves'
           /\ Created(r) => host'[r] = host[r]
           /\ Created(r) /\ moves' = moves => time'[r] = time[r]
<1> USE DEF TablesTypeOK, RowsFollowReservation, Recorded
<1>1. CASE Tick
  BY <1>1 DEF Tick, Times
<1>2. ASSUME NEW m \in moving, CommitMove(m)
      PROVE  UNCHANGED <<members, now, result, host>> /\ moves' = moves + 1
  BY <1>2 DEF CommitMove
<1>3. ASSUME NEW s \in Reservations, NEW u \in Users, NEW t \in Times, Create(s, u, t)
      PROVE  /\ members[r] \subseteq members'[r]
             /\ UNCHANGED <<now, moves, result>>
             /\ Created(r) => host'[r] = host[r] /\ time'[r] = time[r]
  BY <1>3 DEF Create, Rosters!Open
<1>4. ASSUME NEW s \in Reservations, NEW u \in Users, Join(s, u)
      PROVE  members[r] \subseteq members'[r] /\ UNCHANGED <<now, moves, result, host, time>>
  BY <1>4 DEF Join, Rosters!Enter
<1>5. ASSUME NEW s \in Reservations, NEW t \in Times, ValidateMove(s, t)
      PROVE  UNCHANGED <<members, now, moves, result, host, time>>
  BY <1>5 DEF ValidateMove
<1>6. ASSUME NEW s \in Reservations, NEW u \in Users, NEW o \in Results, Record(s, u, o)
      PROVE  /\ UNCHANGED <<members, now, moves, host, time>>
             /\ \A v \in Users : result[r][v] # NoResult => result'[r][v] # NoResult
  BY <1>6 DEF Record
<1>7. now \in Int /\ moves \in Int
  BY BoundsAssumption DEF Times
<1>8. CASE DropMoves
  BY <1>7, <1>8 DEF DropMoves
<1> QED
  BY <1>1, <1>2, <1>3, <1>4, <1>5, <1>6, <1>7, <1>8 DEF Change

-------------------------------------------------------------------------------
(* Type correctness *)

USE DEF tables, view, Refused, Shown, Idle, Reading, Listing, About

LEMMA NothingType == Nothing \in Got /\ NoBase \in Base
BY BoundsAssumption DEF Nothing, Got, NoBase, Base

LEMMA EndType ==
    ASSUME TypeOK, NEW o \in Refused, End(o)
    PROVE  TypeOK'
BY NothingType DEF End, TypeOK, TablesTypeOK

LEMMA BeginType ==
    ASSUME TypeOK, NEW r \in Reservations, NEW next \in Reading \ {"countSuccesses"},
           NEW first \in Got, NEW present \in Base, Begin(r, next, first, present)
    PROVE  TypeOK'
<1>1. CASE Created(r)
  BY <1>1 DEF Begin, TypeOK, TablesTypeOK
<1>2. CASE ~ Created(r)
  BY <1>2, EndType DEF Begin
<1> QED
  BY <1>1, <1>2

LEMMA ReadType ==
    ASSUME TypeOK, NEW label \in Reading, NEW next \in (Reading \union Shown) \ {"listed"},
           next \in About => label \in About, NEW read \in Got, Read(label, next, read)
    PROVE  TypeOK'
BY DEF Read, TypeOK, TablesTypeOK

\* The rows of a page are a sequence of reservations.
LEMMA PageType ==
    ASSUME NEW query \in Query, NEW page \in Nat \ {0}, NEW rows \in SUBSET Reservations,
           NEW s \in Orderings(rows, query.order)
    PROVE  LET from == Offset(query, page)
               to == Min({from + query.limit, Len(s)}) IN
           SubSeq(s, from + 1, to) \in Seq(Reservations)
<1> DEFINE from == Offset(query, page)
<1> DEFINE to == Min({from + query.limit, Len(s)})
<1>1. Cardinality(rows) \in Nat
  BY FiniteAssumption, FS_Subset, FS_CardinalityType
<1>2. s \in [1..Cardinality(rows) -> rows]
  BY DEF Orderings, SetToSeqs
<1>3. Len(s) = Cardinality(rows) /\ Len(s) \in Nat
  BY <1>1, <1>2
<1>4. from \in Nat /\ query.limit \in Nat
  <2>1. query.limit \in PageSizes
    BY DEF Query
  <2>2. query.limit \in Nat
    BY <2>1, PageSizesAssumption, Zenon
  <2>3. page - 1 \in Nat
    OBVIOUS
  <2>4. \A m, n \in Nat : m * n \in Nat
    OBVIOUS
  <2> QED
    BY <2>2, <2>3, <2>4 DEF Offset
<1>5. to \in Int /\ to <= Len(s)
  <2>1. \E x \in {from + query.limit, Len(s)} : \A y \in {from + query.limit, Len(s)} : x <= y
    BY <1>3, <1>4
  <2> QED
    BY <2>1, <1>3, <1>4 DEF Min
<1>6. \A i \in (from + 1)..to : s[i] \in Reservations
  BY <1>2, <1>3, <1>4, <1>5
<1>7. SubSeq(s, from + 1, to) \in Seq(Reservations)
  <2> HIDE DEF from, to
  <2>1. from + 1 \in Int
    BY <1>4
  <2> QED
    BY ONLY <1>5, <1>6, <2>1, SubSeqProperties
<1> QED
  BY <1>7

\* Reading a page keeps the walk one.
LEMMA FindPageType ==
    ASSUME TypeOK, NEW w \in Walk, FindPage(w)
    PROVE  TypeOK'
<1>1. w.query \in Query /\ w.page \in Nat \ {0}
  BY DEF Walk
<1>2. now \in Times /\ Matching(w.query, now) \in SUBSET Reservations
  BY DEF TypeOK, TablesTypeOK, Matching, Entries
<1>3. PICK s \in Orderings(Matching(w.query, now), w.query.order) :
          walk' = [w EXCEPT !.asOf = now,
                            !.slice = SubSeq(s, Offset(w.query, w.page) + 1,
                                             Min({Offset(w.query, w.page) + w.query.limit, Len(s)})),
                            !.total = 0,
                            !.listed = @ \union Matching(w.query, now)]
          /\ pc' = "countPage" /\ res' = NoReservation /\ got' = Nothing /\ base' = NoBase
          /\ UNCHANGED tables
  BY DEF FindPage
<1> DEFINE slice == SubSeq(s, Offset(w.query, w.page) + 1,
                           Min({Offset(w.query, w.page) + w.query.limit, Len(s)}))
<1>4. slice \in Seq(Reservations)
  BY <1>1, <1>2, PageType
<1> HIDE DEF slice
<1>5. [w EXCEPT !.asOf = now, !.slice = slice, !.total = 0,
                !.listed = @ \union Matching(w.query, now)] \in Walk
  BY <1>2, <1>4 DEF Walk
<1>6. walk' \in Walk
  BY <1>3, <1>5 DEF slice
<1> QED
  BY <1>3, <1>6, NothingType DEF TypeOK, TablesTypeOK

LEMMA ListType ==
    ASSUME TypeOK,
           \/ \E query \in Query : ListFirst(query)
           \/ ListNext \/ CountPage \/ FindParticipants
    PROVE  TypeOK'
<1>1. ASSUME NEW query \in Query, ListFirst(query)
      PROVE  TypeOK'
  <2> DEFINE w == [query |-> query, page |-> 1, asOf |-> now, slice |-> <<>>, total |-> 0,
                   collected |-> <<>>, entries |-> Matching(query, now), listed |-> {},
                   moves |-> moves]
  <2>1. w \in Walk
    BY DEF Walk, TypeOK, TablesTypeOK, Matching, Entries
  <2>2. FindPage(w)
    BY <1>1 DEF ListFirst
  <2> HIDE DEF w
  <2> QED
    BY <2>1, <2>2, FindPageType
<1>2. CASE ListNext
  <2> DEFINE w == [walk EXCEPT !.page = @ + 1]
  <2>1. w \in Walk
    <3>1. walk \in Walk
      BY <1>2 DEF ListNext, TypeOK
    <3>2. PICK page : page = walk.page + 1
      OBVIOUS
    <3>3. page \in Nat \ {0}
      BY <3>1, <3>2 DEF Walk
    <3>4. [walk EXCEPT !.page = page] \in Walk
      BY <3>1, <3>3 DEF Walk
    <3> QED
      BY <3>2, <3>4
  <2>2. FindPage(w)
    BY <1>2 DEF ListNext
  <2> HIDE DEF w
  <2> QED
    BY <2>1, <2>2, FindPageType
<1>3. CASE CountPage
  <2> DEFINE total == Cardinality(Matching(walk.query, walk.asOf))
  <2>1. total \in Nat
    BY FiniteAssumption, FS_Subset, FS_CardinalityType DEF Matching, Entries
  <2> HIDE DEF total
  <2>2. walk \in Walk /\ walk' \in {[walk EXCEPT !.slice = <<>>], [walk EXCEPT !.total = total]}
        /\ pc' \in {"listed", "findParticipants"} /\ UNCHANGED <<tables, res, got, base>>
    BY <1>3 DEF CountPage, TypeOK, total
  <2>3. <<>> \in Seq(Reservations)
    OBVIOUS
  <2>4. walk' \in Walk
    BY <2>1, <2>2, <2>3 DEF Walk
  <2> QED
    BY <2>2, <2>4 DEF TypeOK, TablesTypeOK
<1>4. CASE FindParticipants
  <2>1. walk \in Walk
    BY <1>4 DEF FindParticipants, TypeOK
  <2>2. walk.collected \o walk.slice \in Seq(Reservations)
    BY <2>1 DEF Walk
  <2>3. <<>> \in Seq(Reservations)
    OBVIOUS
  <2> DEFINE next == [walk EXCEPT !.collected = @ \o walk.slice, !.slice = <<>>]
  <2>4. next \in Walk
    BY <2>1, <2>2, <2>3 DEF Walk
  <2> QED
    BY <1>4, <2>4 DEF FindParticipants, TypeOK, TablesTypeOK
<1> QED
  BY <1>1, <1>2, <1>3, <1>4

LEMMA MembersFinite ==
    ASSUME TypeOK, NEW r \in Reservations
    PROVE  IsFiniteSet(members[r]) /\ Cardinality(members[r]) \in Nat
<1>1. members[r] \in SUBSET Users
  BY DEF TypeOK, TablesTypeOK
<1> QED
  BY <1>1, FiniteAssumption, FS_Subset, FS_CardinalityType

LEMMA EntriesFinite ==
    IsFiniteSet(Entries) /\ Cardinality(Entries) \in Nat
BY FiniteAssumption, FS_Subset, FS_CardinalityType DEF Entries

LEMMA SuccessfulFinite ==
    IsFiniteSet(Successful) /\ Cardinality(Successful) \in Nat
BY FiniteAssumption, FS_Subset, FS_CardinalityType DEF Successful

LEMMA ArriveType ==
    ASSUME TypeOK, NEW r \in Reservations,
           \/ FindDetail(r) \/ FindForMembers(r) \/ FindForResults(r)
           \/ \E u \in Users : FindForPoke(r, u)
    PROVE  TypeOK'
<1> USE NothingType DEF Nothing, Got, NoBase, Base
<1>1. host[r] \in Users \union {NoUser} /\ time[r] \in Times \union {NoTime}
      /\ members[r] \in SUBSET Users /\ Recorded(r) \in SUBSET Users /\ moves \in 0..MaxMoves
  BY DEF TypeOK, TablesTypeOK, Recorded
<1>2. [Nothing EXCEPT !.host = host[r], !.time = time[r]] \in Got
      /\ [NoBase EXCEPT !.members = members[r]] \in Base
  BY <1>1
<1>3. [Nothing EXCEPT !.host = host[r]] \in Got
  BY <1>1
<1>4. [Nothing EXCEPT !.time = time[r]] \in Got
      /\ [NoBase EXCEPT !.recorded = Recorded(r), !.moves = moves] \in Base
  BY <1>1
<1>5. ASSUME NEW u \in Users
      PROVE  [Nothing EXCEPT !.shown = {u}] \in Got
  OBVIOUS
<1> HIDE DEF Nothing, Got, NoBase, Base
<1>6. CASE FindDetail(r)
  BY <1>2, <1>6, BeginType DEF FindDetail
<1>7. CASE FindForMembers(r)
  BY <1>3, <1>7, BeginType DEF FindForMembers
<1>8. CASE FindForResults(r)
  BY <1>4, <1>8, BeginType DEF FindForResults
<1>9. ASSUME NEW u \in Users, FindForPoke(r, u)
      PROVE  TypeOK'
  BY <1>5, <1>9, BeginType, EndType DEF FindForPoke
<1> QED
  BY <1>6, <1>7, <1>8, <1>9

LEMMA AdvanceType ==
    ASSUME TypeOK, Advance
    PROVE  TypeOK'
<1>1. got \in Got
  BY DEF TypeOK
<1>2. CASE FindOwn
  <2> DEFINE member == Me \in members[res]
  <2>1. member \in BOOLEAN
    OBVIOUS
  <2>2. Read("findOwn", "countDetail", [got EXCEPT !.member = member])
    BY <1>2 DEF FindOwn
  <2> HIDE DEF member
  <2>3. [got EXCEPT !.member = member] \in Got
    BY <1>1, <2>1 DEF Got
  <2> QED
    BY <2>2, <2>3, ReadType
<1>3. CASE CountDetail
  <2>1. res \in Reservations
    BY <1>3 DEF CountDetail, Read, TypeOK
  <2>2. [got EXCEPT !.count = Cardinality(members[res])] \in Got
    BY <1>1, <2>1, MembersFinite DEF Got
  <2> QED
    BY <1>3, <2>2, ReadType DEF CountDetail
<1>4. CASE AnswerDetail
  <2> DEFINE read == [got EXCEPT !.canEdit = got.host = Me /\ got.time > now,
                                 !.canJoin = /\ ~ got.member
                                             /\ got.host # Me
                                             /\ got.count < MaxParticipants]
  <2>1. read \in Got
    BY <1>1 DEF Got
  <2>2. Read("answerDetail", "detailed", read)
    BY <1>4 DEF AnswerDetail
  <2> HIDE DEF read
  <2> QED
    BY <2>1, <2>2, ReadType
<1>5. CASE FindMembers
  <2>1. CASE pc = "findMembers" /\ End("NotMember")
    BY <2>1, EndType
  <2> DEFINE read == MembersAnswer(members[res])
  <2>2. CASE Read("findMembers", "membersShown", read)
    <3>1. res \in Reservations /\ members[res] \in SUBSET Users
      BY <2>2 DEF Read, TypeOK, TablesTypeOK
    <3>2. read \in Got
      BY <1>1, <3>1, MembersFinite DEF Got, MembersAnswer
    <3> HIDE DEF read
    <3> QED
      BY <2>2, <3>2, ReadType
  <2> QED
    BY <1>5, <2>1, <2>2 DEF FindMembers
<1>6. CASE CheckAccess
  BY <1>1, <1>6, ReadType, EndType DEF CheckAccess
<1>7. CASE FindResults
  <2>1. OwnResult \in Got /\ OtherResults \in Got
    BY <1>1 DEF OwnResult, OtherResults, Got, Recorded
  <2> QED
    BY <1>7, <2>1, ReadType DEF FindResults
<1>8. CASE AnswerResults
  BY <1>1, <1>8, ReadType DEF AnswerResults
<1>9. CASE CountSuccesses
  <2>1. [got EXCEPT !.successes = Cardinality(Successful)] \in Got
    BY <1>1, SuccessfulFinite DEF Got
  <2> QED
    BY <1>9, <2>1, ReadType DEF CountSuccesses
<1>10. CASE CountNothing
  BY <1>10, NothingType, ReadType DEF CountNothing
<1>11. CASE FindMemberships
  BY <1>1, <1>11, ReadType, EndType DEF FindMemberships
<1>12. CASE FindPoked
  BY <1>1, <1>12, ReadType, EndType DEF FindPoked
<1>13. CASE Send
  BY <1>1, <1>13, ReadType, EndType DEF Send
<1> QED
  BY <1>2, <1>3, <1>4, <1>5, <1>6, <1>7, <1>8, <1>9, <1>10, <1>11, <1>12, <1>13, ListType
     DEF Advance

LEMMA TypeStep == TypeOK /\ RowsFollowReservation /\ [Next]_vars => TypeOK'
<1> SUFFICES ASSUME TypeOK, RowsFollowReservation, [Next]_vars
             PROVE  TypeOK'
  OBVIOUS
<1>1. CASE Change /\ UNCHANGED view
  <2>1. TablesTypeOK' /\ \A r \in Reservations : Created(r) => host'[r] = host[r]
    BY <1>1, TablesStep, TablesGrow DEF TypeOK
  <2> QED
    BY <1>1, <2>1 DEF TypeOK
<1>2. CASE CountReservations
  <2>1. [Nothing EXCEPT !.count = Cardinality(Entries)] \in Got
    BY NothingType, EntriesFinite DEF Got
  <2> QED
    BY <1>2, <2>1, NothingType DEF CountReservations, TypeOK, TablesTypeOK
<1>3. CASE Fail
  BY <1>3, EndType DEF Fail
<1>4. CASE UNCHANGED vars
  BY <1>4 DEF vars, TypeOK, TablesTypeOK
<1> QED
  BY <1>1, <1>2, <1>3, <1>4, ArriveType, ListType, AdvanceType DEF Next, Arrive

-------------------------------------------------------------------------------
(* The parts of the inductive invariant *)

\* Requests change no table, and where each kind of step leads.
LEMMA ReadersOnly == Arrive \/ Advance \/ Fail => UNCHANGED tables
BY DEF Arrive, FindDetail, FindForMembers, FindForResults, FindForPoke, CountReservations, ListFirst,
       ListNext, FindPage, Advance, FindOwn, CountDetail, AnswerDetail, FindMembers, CheckAccess,
       FindResults, AnswerResults, CountSuccesses, CountNothing, FindMemberships, FindPoked, Send,
       CountPage, FindParticipants, Fail, Begin, Read, End

LEMMA RowsStep == TypeOK /\ RowsFollowReservation /\ [Next]_vars => RowsFollowReservation'
<1>1. CASE Change
  BY <1>1, TablesStep DEF TypeOK
<1>2. CASE UNCHANGED tables
  BY <1>2 DEF RowsFollowReservation, Recorded
<1> QED
  BY <1>1, <1>2, ReadersOnly DEF Next, vars

LEMMA PeersStep == TypeOK /\ RowsFollowReservation /\ PeersOnly /\ [Next]_vars => PeersOnly'
<1> SUFFICES ASSUME TypeOK, RowsFollowReservation, PeersOnly, [Next]_vars,
                    pc' \in {"membersShown", "findPoked", "send", "poked"}
             PROVE  {Me} \union got'.shown \subseteq members'[res']
  BY DEF PeersOnly
<1>1. CASE Change /\ UNCHANGED view
  <2>1. res \in Reservations /\ {Me} \union got.shown \subseteq members[res]
    BY <1>1 DEF PeersOnly, TypeOK
  <2>2. members[res] \subseteq members'[res]
    BY <1>1, <2>1, TablesGrow DEF TypeOK
  <2> QED
    BY <1>1, <2>1, <2>2
<1>2. CASE Read("findMembers", "membersShown", MembersAnswer(members[res])) /\ Me \in members[res]
  BY <1>2 DEF Read, TypeOK, Got, MembersAnswer
<1>3. CASE FindMemberships
  BY <1>3 DEF FindMemberships, Read, End
<1>4. CASE FindPoked \/ Send
  BY <1>4 DEF FindPoked, Send, Read, End, PeersOnly
<1>5. CASE Arrive
  BY <1>5 DEF Arrive, FindDetail, FindForMembers, FindForResults, FindForPoke, CountReservations,
              ListFirst, ListNext, FindPage, Begin, End
<1>6. CASE Fail
  BY <1>6 DEF Fail, End
<1>7. CASE UNCHANGED vars
  BY <1>7 DEF vars, PeersOnly
<1> QED
  BY <1>1, <1>2, <1>3, <1>4, <1>5, <1>6, <1>7
     DEF Next, Advance, FindOwn, CountDetail, AnswerDetail, FindMembers, CheckAccess, FindResults,
         AnswerResults, CountSuccesses, CountNothing, CountPage, FindParticipants, Read, End

LEMMA DetailStep ==
    TypeOK /\ RowsFollowReservation /\ DetailSoFar /\ DetailHonest /\ [Next]_vars
        => DetailSoFar' /\ DetailHonest'
<1> DEFINE StillSo ==
        /\ base'.members \subseteq members'[res']
        /\ got'.member => Me \in members'[res']
        /\ pc' # "findOwn" => (Me \in base'.members => got'.member)
        /\ pc' \in {"answerDetail", "detailed"} =>
               /\ Cardinality(base'.members) <= got'.count
               /\ got'.count <= Cardinality(members'[res'])
        /\ pc' = "detailed" /\ (got'.host = Me \/ Me \in base'.members) => ~ got'.canJoin
<1> SUFFICES ASSUME TypeOK, RowsFollowReservation, DetailSoFar, DetailHonest, [Next]_vars,
                    pc' \in {"findOwn", "countDetail", "answerDetail", "detailed"}
             PROVE  StillSo
  BY DEF DetailSoFar, DetailHonest
<1>a. got \in Got /\ base \in Base
  BY DEF TypeOK
<1>1. CASE Change /\ UNCHANGED view
  <2>1. res \in Reservations
    BY <1>1 DEF TypeOK
  <2>2. members[res] \subseteq members'[res]
    BY <1>1, <2>1, TablesGrow DEF TypeOK
  <2>3. members'[res] \in SUBSET Users
    BY <1>1, <2>1, TablesStep DEF TypeOK, TablesTypeOK
  <2>4. /\ Cardinality(members[res]) \in Nat /\ Cardinality(members'[res]) \in Nat
        /\ Cardinality(members[res]) <= Cardinality(members'[res])
    BY <2>1, <2>2, <2>3, MembersFinite, FiniteAssumption, FS_Subset, FS_CardinalityType
  <2>5. got.count \in Nat /\ Cardinality(base.members) \in Nat
    BY <1>a, FiniteAssumption, FS_Subset, FS_CardinalityType DEF Got, Base
  <2> QED
    BY <1>1, <2>2, <2>4, <2>5 DEF DetailSoFar, DetailHonest
<1>2. ASSUME NEW r \in Reservations, FindDetail(r)
      PROVE  StillSo
  BY <1>2 DEF FindDetail, Begin, End, Nothing, NoBase
<1>3. CASE FindOwn
  BY <1>3, <1>a DEF FindOwn, Read, Got, DetailSoFar
<1>4. CASE CountDetail
  <2>1. res \in Reservations /\ base.members \subseteq members[res]
    BY <1>4 DEF CountDetail, Read, DetailSoFar, TypeOK
  <2>2. Cardinality(base.members) <= Cardinality(members[res])
        /\ Cardinality(members[res]) \in Nat
    BY <2>1, MembersFinite, FS_Subset
  <2> QED
    BY <1>4, <1>a, <2>1, <2>2 DEF CountDetail, Read, Got, DetailSoFar
<1>5. CASE AnswerDetail
  BY <1>5, <1>a DEF AnswerDetail, Read, Got, DetailSoFar
<1>6. CASE Arrive /\ pc' # "findOwn"
  BY <1>6 DEF Arrive, FindDetail, FindForMembers, FindForResults, FindForPoke, CountReservations,
              ListFirst, ListNext, FindPage, Begin, End
<1>7. ASSUME Arrive, pc' = "findOwn"
      PROVE  \E r \in Reservations : FindDetail(r)
  BY <1>7 DEF Arrive, FindForMembers, FindForResults, FindForPoke, CountReservations,
              ListFirst, ListNext, FindPage, Begin, End
<1>8. CASE Fail
  BY <1>8 DEF Fail, End
<1>9. CASE UNCHANGED vars
  BY <1>9 DEF vars, DetailSoFar, DetailHonest
<1> QED
  BY <1>1, <1>2, <1>3, <1>4, <1>5, <1>6, <1>7, <1>8, <1>9
     DEF Next, Advance, FindMembers, CheckAccess, FindResults, AnswerResults, CountSuccesses,
         CountNothing, FindMemberships, FindPoked, Send, CountPage, FindParticipants, Read, End

LEMMA CountsStep == TypeOK /\ RowsFollowReservation /\ CountsSoFar /\ [Next]_vars => CountsSoFar'
<1> DEFINE later == {r \in Reservations : Me \in members'[r]}
<1> SUFFICES ASSUME TypeOK, RowsFollowReservation, CountsSoFar, [Next]_vars,
                    pc' \in {"countSuccesses", "counted"}
             PROVE  got'.count <= Cardinality(later) /\ got'.successes <= Cardinality(later)
  BY DEF CountsSoFar, Entries
<1>a. got \in Got
  BY DEF TypeOK
<1>b. IsFiniteSet(later) /\ Cardinality(later) \in Nat
  BY FiniteAssumption, FS_Subset, FS_CardinalityType
<1>1. CASE Change /\ UNCHANGED view
  <2>1. Entries \subseteq later
    BY <1>1, TablesGrow DEF TypeOK, Entries
  <2>2. Cardinality(Entries) <= Cardinality(later)
    BY <1>b, <2>1, FS_Subset
  <2>3. got.count \in Nat /\ got.successes \in Nat
    BY <1>a DEF Got
  <2> QED
    BY <1>1, <1>b, <2>2, <2>3, EntriesFinite DEF CountsSoFar
<1>2. ASSUME UNCHANGED tables
      PROVE  later = Entries
  BY <1>2 DEF Entries
<1>3. CASE CountReservations
  <2>1. later = Entries
    BY <1>2, <1>3 DEF CountReservations
  <2>2. got' = [Nothing EXCEPT !.count = Cardinality(Entries)]
    BY <1>3 DEF CountReservations
  <2>3. got'.count = Cardinality(Entries) /\ got'.successes = 0
    BY <2>2 DEF Nothing
  <2>4. Cardinality(later) = Cardinality(Entries)
    BY <2>1
  <2> HIDE DEF later
  <2> QED
    BY <2>3, <2>4, EntriesFinite
<1>4. CASE CountSuccesses
  <2>1. Successful \subseteq Entries
    <3>1. ASSUME NEW r \in Reservations, result[r][Me] \in {"SUCCESS", "HALF_SUCCESS"}
          PROVE  Me \in members[r]
      BY <3>1, ResultsAssumption, MeAssumption DEF RowsFollowReservation, Recorded
    <3> QED
      BY <3>1 DEF Successful, Entries
  <2>2. Cardinality(Successful) <= Cardinality(Entries)
    BY <2>1, EntriesFinite, FS_Subset
  <2> QED
    BY <1>2, <1>4, <1>a, <2>2 DEF CountSuccesses, Read, Got, CountsSoFar
<1>5. CASE CountNothing
  BY <1>2, <1>5, EntriesFinite DEF CountNothing, Read, Nothing
<1>6. ASSUME NEW r \in Reservations,
             \/ FindDetail(r) \/ FindForMembers(r) \/ FindForResults(r)
             \/ \E u \in Users : FindForPoke(r, u)
      PROVE  FALSE
  BY <1>6 DEF FindDetail, FindForMembers, FindForResults, FindForPoke, Begin, End
<1>7. ASSUME \/ \E query \in Query : ListFirst(query)
             \/ ListNext \/ Fail
      PROVE  FALSE
  BY <1>7 DEF ListFirst, ListNext, FindPage, Fail, End
<1>8. CASE UNCHANGED vars
  BY <1>2, <1>8 DEF vars, CountsSoFar
<1> QED
  BY <1>1, <1>3, <1>4, <1>5, <1>6, <1>7, <1>8
     DEF Next, Arrive, Advance, FindOwn, CountDetail, AnswerDetail, FindMembers, CheckAccess,
         FindResults, AnswerResults, FindMemberships, FindPoked, Send, CountPage, FindParticipants,
         Read, End

LEMMA ResultsStep ==
    TypeOK /\ RowsFollowReservation /\ ResultsSoFar /\ [Next]_vars => ResultsSoFar'
<1> DEFINE Reads == {"checkAccess", "findResults", "findOwnResult", "findOtherResults",
                     "signResults", "resultsShown"}
           RecordedLater == {u \in Users : result'[res'][u] # NoResult}
           StillSo ==
               /\ got'.time \in Times
               /\ base'.moves <= moves'
               /\ base'.moves = moves' => got'.time = time'[res']
               /\ base'.recorded \subseteq RecordedLater
               /\ got'.shown \subseteq RecordedLater
               /\ pc' # "checkAccess" => Me \in members'[res'] /\ got'.time <= now'
               /\ pc' \in {"findOtherResults", "signResults", "resultsShown"} =>
                      base'.recorded \intersect {Me} \subseteq got'.shown
               /\ pc' \in {"findOwnResult", "signResults", "resultsShown"} =>
                      base'.recorded \ {Me} \subseteq got'.shown
<1> SUFFICES ASSUME TypeOK, RowsFollowReservation, ResultsSoFar, [Next]_vars, pc' \in Reads
             PROVE  StillSo
  BY DEF ResultsSoFar, Recorded
<1>a. got \in Got /\ base \in Base /\ moves \in Nat /\ now \in Nat
  BY BoundsAssumption DEF TypeOK, TablesTypeOK, Times
<1>1. CASE Change /\ UNCHANGED view
  <2>1. res \in Reservations /\ Created(res)
    BY <1>1 DEF TypeOK
  <2>2. /\ members[res] \subseteq members'[res]
        /\ Recorded(res) \subseteq RecordedLater
        /\ now <= now' /\ moves <= moves'
        /\ moves' = moves => time'[res] = time[res]
    BY <1>1, <2>1, TablesGrow DEF TypeOK
  <2>3. moves' \in Nat /\ now' \in Nat /\ base.moves \in Nat
    BY <1>1, <1>a, TablesStep, BoundsAssumption DEF TypeOK, TablesTypeOK, Times, Base
  <2>4. got.time \in Nat /\ got.time \in Times
    BY <1>1, BoundsAssumption DEF ResultsSoFar, Times
  <2>5. base.moves <= moves' /\ (base.moves = moves' => got.time = time'[res])
    BY <1>1, <1>a, <2>2, <2>3 DEF ResultsSoFar
  <2>6. pc # "checkAccess" => Me \in members'[res] /\ got.time <= now'
    BY <1>1, <1>a, <2>2, <2>3, <2>4 DEF ResultsSoFar
  <2>7. base.recorded \subseteq RecordedLater /\ got.shown \subseteq RecordedLater
    BY <1>1, <2>2 DEF ResultsSoFar
  <2> HIDE DEF RecordedLater
  <2> QED
    BY <1>1, <2>4, <2>5, <2>6, <2>7 DEF ResultsSoFar
<1>2. ASSUME UNCHANGED <<tables, res>>
      PROVE  RecordedLater = Recorded(res)
  BY <1>2 DEF Recorded
<1>3. ASSUME NEW r \in Reservations, FindForResults(r)
      PROVE  StillSo
  <2>1. /\ res' = r /\ pc' = "checkAccess" /\ UNCHANGED tables
        /\ got' = [Nothing EXCEPT !.time = time[r]]
        /\ base' = [NoBase EXCEPT !.recorded = Recorded(r), !.moves = moves]
    BY <1>3 DEF FindForResults, Begin, End
  <2>2. RecordedLater = Recorded(r)
    BY <2>1 DEF Recorded
  <2>3. time[r] \in Times
    BY <1>3 DEF FindForResults, Begin, End, TypeOK, TablesTypeOK
  <2> HIDE DEF RecordedLater
  <2> QED
    BY <1>a, <2>1, <2>2, <2>3 DEF Nothing, NoBase
<1>4. CASE CheckAccess
  BY <1>2, <1>4, <1>a DEF CheckAccess, Read, End, ResultsSoFar
<1>5. CASE FindResults
  BY <1>2, <1>5, <1>a DEF FindResults, OwnResult, OtherResults, Read, ResultsSoFar, Got
<1>6. CASE AnswerResults
  BY <1>2, <1>6 DEF AnswerResults, Read, ResultsSoFar
<1>7. ASSUME NEW r \in Reservations,
             FindDetail(r) \/ FindForMembers(r) \/ \E u \in Users : FindForPoke(r, u)
      PROVE  FALSE
  BY <1>7 DEF FindDetail, FindForMembers, FindForPoke, Begin, End
<1>8. ASSUME \/ \E query \in Query : ListFirst(query)
             \/ ListNext \/ CountReservations \/ Fail
      PROVE  FALSE
  BY <1>8 DEF ListFirst, ListNext, FindPage, CountReservations, Fail, End
<1>9. CASE UNCHANGED vars
  BY <1>2, <1>9 DEF vars, ResultsSoFar
<1> QED
  BY <1>1, <1>3, <1>4, <1>5, <1>6, <1>7, <1>8, <1>9
     DEF Next, Arrive, Advance, FindOwn, CountDetail, AnswerDetail, FindMembers, CountSuccesses,
         CountNothing, FindMemberships, FindPoked, Send, CountPage, FindParticipants, Read, End

-------------------------------------------------------------------------------
(* The theorems *)

\* What the other theorems rest on: rows are only added and a time only changes with
\* a move, so what a request has read is not more than what is so by now, and not
\* less than what was so at its first statement.
THEOREM Invariance == Spec => []IInv
<1>1. Init => IInv
  <2> SUFFICES ASSUME Init
               PROVE  IInv
    OBVIOUS
  <2>1. TypeOK
    BY NothingType, BoundsAssumption
       DEF Init, TablesInit, TypeOK, TablesTypeOK, Times
  <2>2. RowsFollowReservation
    BY DEF Init, TablesInit, RowsFollowReservation, Recorded
  <2>3. DetailSoFar /\ DetailHonest /\ ResultsSoFar /\ PeersOnly /\ CountsSoFar
    BY DEF Init, DetailSoFar, DetailHonest, ResultsSoFar, PeersOnly, CountsSoFar
  <2> QED
    BY <2>1, <2>2, <2>3 DEF IInv
<1>2. IInv /\ [Next]_vars => IInv'
  BY TypeStep, RowsStep, DetailStep, ResultsStep, PeersStep, CountsStep DEF IInv
<1> QED
  BY <1>1, <1>2, PTL DEF Spec

\* Every variable keeps its type, and requests that read a reservation found it.
THEOREM TypeCorrect == Spec => []TypeOK
<1>1. IInv => TypeOK
  BY DEF IInv
<1> QED
  BY <1>1, Invariance, PTL

\* Details lie between what was so at the first statement and what is so now, and
\* neither a host nor a member is invited to join.
THEOREM DetailsTrue == Spec => []DetailHonest
<1>1. IInv => DetailHonest
  BY DEF IInv
<1> QED
  BY <1>1, Invariance, PTL

\* Results are shown to members, none that was there at first is missing, and only a
\* move committed meanwhile lets them be seen before the reservation's time.
THEOREM ResultsShownAfterwards == Spec => []ResultsAfterwards
<1>1. IInv => ResultsAfterwards
  <2> SUFFICES ASSUME IInv, pc = "resultsShown"
               PROVE  /\ Me \in members[res]
                      /\ base.recorded \subseteq got.shown /\ got.shown \subseteq Recorded(res)
                      /\ now < time[res] => base.moves < moves
    BY DEF ResultsAfterwards
  <2>1. /\ base \in Base /\ moves \in 0..MaxMoves /\ now \in 0..MaxTime
        /\ res \in Reservations /\ Created(res) /\ time[res] \in 0..MaxTime
    BY DEF IInv, TypeOK, TablesTypeOK, Times
  <2>2. /\ base.moves <= moves /\ (base.moves = moves => got.time = time[res])
        /\ got.time <= now /\ got.time \in 0..MaxTime
        /\ Me \in members[res]
        /\ base.recorded \subseteq got.shown /\ got.shown \subseteq Recorded(res)
    BY DEF IInv, ResultsSoFar, Times
  <2>3. base.moves \in Nat
    BY <2>1, BoundsAssumption DEF Base
  <2> QED
    BY <2>1, <2>2, <2>3, BoundsAssumption
<1> QED
  BY <1>1, Invariance, PTL

\* Whom a user is shown as a member, or pokes, takes part in the same reservation.
THEOREM OnlyPeers == Spec => []PeersOnly
<1>1. IInv => PeersOnly
  BY DEF IInv
<1> QED
  BY <1>1, Invariance, PTL

\* More successes than reservations are counted only for a user who has joined one
\* since the first count.
THEOREM SuccessesFromJoins == Spec => []SuccessesJoined
<1>1. IInv => SuccessesJoined
  <2> SUFFICES ASSUME IInv, pc = "counted"
               PROVE  /\ got.count <= Cardinality(Entries)
                      /\ got.successes > got.count => got.count < Cardinality(Entries)
    BY DEF SuccessesJoined
  <2>1. got.count \in Nat /\ got.successes \in Nat
    BY DEF IInv, TypeOK, Got
  <2>2. got.count <= Cardinality(Entries) /\ got.successes <= Cardinality(Entries)
    BY DEF IInv, CountsSoFar
  <2> QED
    BY <2>1, <2>2, EntriesFinite
<1> QED
  BY <1>1, Invariance, PTL

-------------------------------------------------------------------------------
(* What readers see of the writers is what the writers are shown to implement *)

\* The members of each reservation and their results are those of Ledger.
THEOREM LedgersFollowed ==
    ASSUME NEW r \in Reservations
    PROVE  Spec => Ledgers(r)!Spec
<1>1. Init => Ledgers(r)!Init
  BY DEF Init, TablesInit, Ledgers!Init
<1>2. IInv /\ [Next]_vars => [Ledgers(r)!Next]_(Ledgers(r)!vars)
  <2> SUFFICES ASSUME TablesTypeOK, RowsFollowReservation, Change
               PROVE  Ledgers(r)!Next \/ UNCHANGED <<members[r], result[r]>>
    BY ReadersOnly DEF IInv, TypeOK, Next, vars, Ledgers!vars
  <2> USE DEF TablesTypeOK
  <2>1. ASSUME NEW s \in Reservations, NEW u \in Users, NEW t \in Times, Create(s, u, t)
        PROVE  Ledgers(r)!Next \/ UNCHANGED <<members[r], result[r]>>
    <3>1. CASE s = r
      <4>1. members[r] = {}
        BY <2>1, <3>1 DEF Create, Rosters!Open, RowsFollowReservation, Created
      <4>2. Ledgers(r)!Enter(u)
        BY <2>1, <3>1, <4>1 DEF Create, Rosters!Open, Ledgers!Enter
      <4> QED
        BY <4>2 DEF Ledgers!Next
    <3>2. CASE s # r
      BY <2>1, <3>2 DEF Create, Rosters!Open
    <3> QED
      BY <3>1, <3>2
  <2>2. ASSUME NEW s \in Reservations, NEW u \in Users, Join(s, u)
        PROVE  Ledgers(r)!Next \/ UNCHANGED <<members[r], result[r]>>
    <3>1. CASE s = r
      <4>1. Ledgers(r)!Enter(u)
        BY <2>2, <3>1 DEF Join, Rosters!Enter, Ledgers!Enter
      <4> QED
        BY <4>1 DEF Ledgers!Next
    <3>2. CASE s # r
      BY <2>2, <3>2 DEF Join, Rosters!Enter
    <3> QED
      BY <3>1, <3>2
  <2>3. ASSUME NEW s \in Reservations, NEW u \in Users, NEW o \in Results, Record(s, u, o)
        PROVE  Ledgers(r)!Next \/ UNCHANGED <<members[r], result[r]>>
    <3>1. CASE s = r
      <4>1. Ledgers(r)!Record(u, o)
        BY <2>3, <3>1 DEF Record, Ledgers!Record
      <4> QED
        BY <4>1 DEF Ledgers!Next
    <3>2. CASE s # r
      BY <2>3, <3>2 DEF Record
    <3> QED
      BY <3>1, <3>2
  <2> QED
    BY <2>1, <2>2, <2>3 DEF Change, Tick, CommitMove, DropMoves, ValidateMove
<1> QED
  BY <1>1, <1>2, Invariance, PTL DEF Spec, Ledgers!Spec

\* The time of each reservation, and the moves of it that open edits have validated,
\* are those of Schedule, however many edits of however many reservations are open.
THEOREM SchedulesFollowed ==
    ASSUME NEW r \in Reservations
    PROVE  Spec => Schedules(r)!Spec
<1> DEFINE planned == {m.to : m \in {m \in moving : m.res = r}}
           at == IF Created(r) THEN time[r] ELSE NoTime
<1>1. Init => Schedules(r)!Init
  BY DEF Init, TablesInit, Schedules!Init, Created
<1>2. IInv /\ [Next]_vars => [Schedules(r)!Next]_(Schedules(r)!vars)
  <2> SUFFICES ASSUME TablesTypeOK, Change
               PROVE  Schedules(r)!Next \/ UNCHANGED <<now, at, planned>>
    BY ReadersOnly DEF IInv, TypeOK, Next, vars, Schedules!vars, Created
  <2> USE DEF TablesTypeOK, Created
  <2>1. ASSUME NEW s \in Reservations, NEW u \in Users, NEW t \in Times, Create(s, u, t)
        PROVE  Schedules(r)!Next \/ UNCHANGED <<now, at, planned>>
    <3>1. CASE s = r
      <4>1. Schedules(r)!Open(t)
        BY <2>1, <3>1, NobodyAssumption DEF Create, Rosters!Open, Schedules!Open
      <4> QED
        BY <4>1 DEF Schedules!Next, Schedules!Times, Times
    <3>2. CASE s # r
      BY <2>1, <3>2 DEF Create, Rosters!Open
    <3> QED
      BY <3>1, <3>2
  <2>2. ASSUME NEW s \in Reservations, NEW t \in Times, ValidateMove(s, t)
        PROVE  Schedules(r)!Next \/ UNCHANGED <<now, at, planned>>
    <3>1. moving' = moving \union {[res |-> s, to |-> t]} /\ UNCHANGED <<now, host, time>>
      BY <2>2 DEF ValidateMove
    <3>2. CASE s = r
      <4>1. planned' = planned \union {t}
        <5> DEFINE new == [res |-> s, to |-> t]
        <5>1. new.res = s /\ new.to = t /\ moving' = moving \union {new}
          BY <3>1
        <5> HIDE DEF new
        <5> QED
          BY <3>2, <5>1
      <4>2. at = time[r] /\ at # NoTime /\ now < at /\ now < t
        BY <2>2, <3>2, NobodyAssumption DEF ValidateMove
      <4>3. Schedules(r)!Plan(t)
        BY <3>1, <4>1, <4>2 DEF Schedules!Plan
      <4> QED
        BY <4>3 DEF Schedules!Next, Schedules!Times, Times
    <3>3. CASE s # r
      <4>1. planned' = planned
        BY <3>1, <3>3
      <4> QED
        BY <3>1, <4>1
    <3> QED
      BY <3>2, <3>3
  <2>3. ASSUME NEW m \in moving, CommitMove(m)
        PROVE  Schedules(r)!Next \/ UNCHANGED <<now, at, planned>>
    <3>1. m.res \in Reservations /\ m.to \in Times
      BY DEF Move
    <3>2. /\ time' = [time EXCEPT ![m.res] = m.to]
          /\ moving' \in {moving, moving \ {m}}
          /\ UNCHANGED <<now, host>>
      BY <2>3 DEF CommitMove
    <3>3. CASE m.res = r /\ Created(r)
      <4>1. m.to \in planned /\ planned' \in {planned, planned \ {m.to}}
        <5>1. m.to \in planned
          BY <3>3
        <5>2. CASE moving' = moving
          BY <5>1, <5>2
        <5>3. CASE moving' = moving \ {m}
          <6>1. \A n \in moving : n.res = r /\ n.to = m.to => n = m
            BY <3>3 DEF Move
          <6>2. planned' = planned \ {m.to}
            BY <5>3, <6>1
          <6> QED
            BY <5>1, <6>2
        <5> QED
          BY <3>2, <5>1, <5>2, <5>3
      <4>2. Schedules(r)!Apply(m.to)
        BY <3>1, <3>2, <3>3, <4>1 DEF Schedules!Apply
      <4> QED
        BY <3>1, <4>2 DEF Schedules!Next, Schedules!Times, Times
    <3>4. CASE ~ (m.res = r /\ Created(r))
      <4>1. at' = at
        BY <3>1, <3>2, <3>4
      <4>2. planned' \in SUBSET planned
        BY <3>2
      <4>3. Schedules(r)!GiveUp
        BY <3>2, <4>1, <4>2 DEF Schedules!GiveUp
      <4> QED
        BY <4>3 DEF Schedules!Next
    <3> QED
      BY <3>3, <3>4
  <2>4. CASE DropMoves
    <3>1. planned' \in SUBSET planned /\ UNCHANGED <<now, at>>
      BY <2>4 DEF DropMoves
    <3>2. Schedules(r)!GiveUp
      BY <3>1 DEF Schedules!GiveUp
    <3> QED
      BY <3>2 DEF Schedules!Next
  <2>5. CASE Tick
    BY <2>5 DEF Tick, Schedules!Next, Schedules!Tick
  <2>6. CASE UNCHANGED <<now, host, time, moving>>
    BY <2>6
  <2> QED
    BY <2>1, <2>2, <2>3, <2>4, <2>5, <2>6 DEF Change, Join, Rosters!Enter, Record
<1> QED
  BY <1>1, <1>2, Invariance, PTL DEF Spec, Schedules!Spec
===============================================================================
