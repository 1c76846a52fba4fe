--------------------------- MODULE MembershipProofs ---------------------------
(***************************************************************************)
(* Theorems about Membership, for any sets of users, reservations and      *)
(* connections, any maximum and any number of faults.                      *)
(***************************************************************************)
EXTENDS Membership, FiniteSetTheorems, TLAPS

USE DEF Joining, Creating

-------------------------------------------------------------------------------
(* Type correctness *)

LEMMA TypeInit == Init => TypeOK
BY MaxFaultsAssumption DEF Init, TypeOK, Outcomes

LEMMA TypeStep == TypeOK /\ [Next]_vars => TypeOK'
<1> SUFFICES ASSUME TypeOK, [Next]_vars
             PROVE  TypeOK'
  OBVIOUS
<1> USE DEF TypeOK, Outcomes, Request
<1>1. ASSUME NEW c \in Connections, NEW u \in Users, NEW r \in Reservations,
             SaveReservation(c, u, r) \/ FindReservation(c, u, r)
      PROVE  TypeOK'
  BY <1>1 DEF SaveReservation, FindReservation, Receive, Continue, Finish
<1>2. ASSUME NEW c \in Connections, SaveMember(c)
      PROVE  TypeOK'
  BY <1>2 DEF SaveMember, Continue
<1>3. ASSUME NEW c \in Connections, CommitCreate(c)
      PROVE  TypeOK'
  BY <1>3 DEF CommitCreate, PublishReservation, Finish
<1>4. ASSUME NEW c \in Connections, FindExisting(c) \/ Count(c) \/ Insert(c)
      PROVE  TypeOK'
  BY <1>4 DEF FindExisting, Count, Insert, Continue, Finish
<1>5. ASSUME NEW c \in Connections, CommitJoin(c)
      PROVE  TypeOK'
  BY <1>5 DEF CommitJoin, PublishMember, Finish
<1>6. ASSUME NEW c \in Connections, Abort(c)
      PROVE  TypeOK'
  BY <1>6, MaxFaultsAssumption DEF Abort, Fault, Finish
<1>7. ASSUME NEW c \in Connections, LoseAcknowledgement(c)
      PROVE  TypeOK'
  BY <1>7, MaxFaultsAssumption
     DEF LoseAcknowledgement, Fault, PublishReservation, PublishMember, Finish
<1>8. CASE Restart
  BY <1>8, MaxFaultsAssumption DEF Restart, Fault
<1>9. CASE UNCHANGED vars
  BY <1>9 DEF vars
<1> QED
  BY <1>1, <1>2, <1>3, <1>4, <1>5, <1>6, <1>7, <1>8, <1>9 DEF Next, Arrive, Advance

\* Every variable of Membership keeps its type, and no transaction runs without
\* the request it serves.
THEOREM TypeCorrect == Spec => []TypeOK
BY TypeInit, TypeStep, PTL DEF Spec

-------------------------------------------------------------------------------
(* The parts of the inductive invariant, one lemma each *)

LEMMA IdsStep == TypeOK /\ IdsOwned /\ [Next]_vars => IdsOwned'
<1> SUFFICES ASSUME TypeOK, IdsOwned, [Next]_vars
             PROVE  IdsOwned'
  OBVIOUS
<1> USE NoUserAssumption DEF TypeOK, IdsOwned, Request, Exists
<1>1. ASSUME NEW c \in Connections, NEW u \in Users, NEW r \in Reservations,
             SaveReservation(c, u, r)
      PROVE  IdsOwned'
  BY <1>1 DEF SaveReservation, Receive, Continue
<1>2. ASSUME NEW c \in Connections, NEW u \in Users, NEW r \in Reservations,
             FindReservation(c, u, r)
      PROVE  IdsOwned'
  BY <1>2 DEF FindReservation, Receive, Continue, Finish
<1>3. ASSUME NEW c \in Connections, SaveMember(c)
      PROVE  IdsOwned'
  BY <1>3 DEF SaveMember, Continue
<1>4. ASSUME NEW c \in Connections, PublishReservation(c), pc' = [pc EXCEPT ![c] = "idle"]
      PROVE  IdsOwned'
  BY <1>4 DEF PublishReservation
<1>5. ASSUME NEW c \in Connections, FindExisting(c) \/ Count(c) \/ Insert(c)
      PROVE  IdsOwned'
  BY <1>5 DEF FindExisting, Count, Insert, Continue, Finish
<1>6. ASSUME NEW c \in Connections, PublishMember(c), pc' = [pc EXCEPT ![c] = "idle"]
      PROVE  IdsOwned'
  BY <1>6 DEF PublishMember
<1>7. ASSUME NEW c \in Connections, Abort(c)
      PROVE  IdsOwned'
  BY <1>7 DEF Abort, Finish
<1>8. CASE Restart
  BY <1>8 DEF Restart
<1>9. CASE UNCHANGED vars
  BY <1>9 DEF vars
<1> QED
  BY <1>1, <1>2, <1>3, <1>4, <1>5, <1>6, <1>7, <1>8, <1>9
     DEF Next, Arrive, Advance, CommitCreate, CommitJoin, LoseAcknowledgement, Finish

LEMMA HostStep == TypeOK /\ IdsOwned /\ HostIsMember /\ [Next]_vars => HostIsMember'
<1> SUFFICES ASSUME TypeOK, IdsOwned, HostIsMember, [Next]_vars
             PROVE  HostIsMember'
  OBVIOUS
<1> USE NoUserAssumption DEF TypeOK, HostIsMember, Request, Exists
<1>1. ASSUME NEW c \in Connections, PublishReservation(c)
      PROVE  HostIsMember'
  BY <1>1 DEF PublishReservation
<1>2. ASSUME NEW c \in Connections, PublishMember(c)
      PROVE  HostIsMember'
  BY <1>2 DEF PublishMember, IdsOwned
<1>3. CASE UNCHANGED <<host, members>>
  BY <1>3
<1> QED
  BY <1>1, <1>2, <1>3
     DEF Next, Arrive, Advance, SaveReservation, FindReservation, SaveMember, CommitCreate,
         FindExisting, Count, Insert, CommitJoin, Abort, LoseAcknowledgement, Restart, vars

LEMMA KeysStep == TypeOK /\ IdsOwned /\ KeysExclusive /\ [Next]_vars => KeysExclusive'
<1> SUFFICES ASSUME TypeOK, IdsOwned, KeysExclusive, [Next]_vars
             PROVE  KeysExclusive'
  OBVIOUS
<1> USE DEF TypeOK, KeysExclusive, Request
<1>1. ASSUME NEW c \in Connections, NEW u \in Users, NEW r \in Reservations,
             SaveReservation(c, u, r) \/ FindReservation(c, u, r)
      PROVE  KeysExclusive'
  BY <1>1 DEF SaveReservation, FindReservation, Receive, Continue, Finish
<1>2. ASSUME NEW c \in Connections, SaveMember(c) \/ FindExisting(c) \/ Count(c)
      PROVE  KeysExclusive'
  BY <1>2 DEF SaveMember, FindExisting, Count, Continue, Finish
<1>3. ASSUME NEW c \in Connections, PublishReservation(c), pc' = [pc EXCEPT ![c] = "idle"]
      PROVE  KeysExclusive'
  BY <1>3 DEF PublishReservation, IdsOwned
<1>4. ASSUME NEW c \in Connections, Insert(c)
      PROVE  KeysExclusive'
  BY <1>4 DEF Insert, KeyHeld, Continue, Finish
<1>5. ASSUME NEW c \in Connections, PublishMember(c), pc' = [pc EXCEPT ![c] = "idle"]
      PROVE  KeysExclusive'
  <2>1. ASSUME NEW d \in Connections, pc'[d] = "commitJoin"
        PROVE  d # c /\ pc[d] = "commitJoin" /\ req[d] # req[c]
    BY <1>5, <2>1 DEF PublishMember
  <2>2. ASSUME NEW d \in Connections, pc'[d] = "commitJoin"
        PROVE  req[d].user \notin members'[req[d].res]
    BY <1>5, <2>1, <2>2 DEF PublishMember
  <2> QED
    BY <1>5, <2>1, <2>2 DEF PublishMember
<1>6. ASSUME NEW c \in Connections, Abort(c)
      PROVE  KeysExclusive'
  BY <1>6 DEF Abort, Finish
<1>7. CASE Restart
  BY <1>7 DEF Restart
<1>8. CASE UNCHANGED vars
  BY <1>8 DEF vars
<1> QED
  BY <1>1, <1>2, <1>3, <1>4, <1>5, <1>6, <1>7, <1>8
     DEF Next, Arrive, Advance, CommitCreate, CommitJoin, LoseAcknowledgement, Finish

\* The transactions past the count are among the connections of the pool.
LEMMA PastCheckFinite ==
    ASSUME NEW r
    PROVE  /\ IsFiniteSet(PastCheck(r))
           /\ Cardinality(PastCheck(r)) \in Nat
           /\ Cardinality(PastCheck(r)) <= Cardinality(Connections)
           /\ Cardinality(Connections) \in Nat
BY ConnectionsAssumption, FS_Subset, FS_CardinalityType DEF PastCheck

\* A transaction that leaves the count behind it or ends gives up one place.
LEMMA PlacesShrink ==
    ASSUME NEW r, PastCheck(r)' \subseteq PastCheck(r)
    PROVE  /\ Cardinality(PastCheck(r)') \in Nat
           /\ Cardinality(PastCheck(r)') <= Cardinality(PastCheck(r))
BY PastCheckFinite, FS_Subset, FS_CardinalityType

LEMMA PlacesStep == TypeOK /\ IdsOwned /\ HostIsMember /\ PlacesBounded /\ [Next]_vars => PlacesBounded'
<1> SUFFICES ASSUME TypeOK, IdsOwned, HostIsMember, PlacesBounded, [Next]_vars,
                    NEW r \in Reservations
             PROVE  /\ IsFiniteSet(members'[r])
                    /\ Cardinality(members'[r]) + Cardinality(PastCheck(r)') <= Limit
  BY DEF PlacesBounded, Limit
<1> USE DEF TypeOK, Request
<1>a. /\ IsFiniteSet(members[r])
      /\ Cardinality(members[r]) \in Nat
      /\ Cardinality(members[r]) + Cardinality(PastCheck(r)) <= Limit
      /\ Limit = MaxParticipants - 1 + Cardinality(Connections)
      /\ MaxParticipants \in Nat \ {0}
  BY FS_CardinalityType, MaxParticipantsAssumption DEF PlacesBounded, Limit
<1>b. ASSUME members'[r] = members[r], PastCheck(r)' \subseteq PastCheck(r)
      PROVE  /\ IsFiniteSet(members'[r])
             /\ Cardinality(members'[r]) + Cardinality(PastCheck(r)') <= Limit
  BY <1>a, <1>b, PlacesShrink, PastCheckFinite
<1>1. ASSUME NEW c \in Connections, NEW u \in Users, NEW s \in Reservations,
             SaveReservation(c, u, s) \/ FindReservation(c, u, s)
      PROVE  /\ members'[r] = members[r]
             /\ PastCheck(r)' \subseteq PastCheck(r)
  BY <1>1 DEF SaveReservation, FindReservation, Receive, Continue, Finish, PastCheck
<1>2. ASSUME NEW c \in Connections, SaveMember(c) \/ FindExisting(c) \/ Insert(c) \/ Abort(c)
      PROVE  /\ members'[r] = members[r]
             /\ PastCheck(r)' \subseteq PastCheck(r)
  BY <1>2 DEF SaveMember, FindExisting, Insert, Abort, Continue, Finish, PastCheck
<1>3. ASSUME NEW c \in Connections, Count(c)
      PROVE  /\ IsFiniteSet(members'[r])
             /\ Cardinality(members'[r]) + Cardinality(PastCheck(r)') <= Limit
  <2>1. CASE req[c].res = r /\ Cardinality(members[r]) < MaxParticipants
    <3>1. /\ Cardinality(PastCheck(r)') \in Nat
          /\ Cardinality(PastCheck(r)') <= Cardinality(Connections)
      BY ConnectionsAssumption, FS_Subset, FS_CardinalityType DEF PastCheck
    <3>2. members'[r] = members[r]
      BY <1>3 DEF Count
    <3>3. Cardinality(Connections) \in Nat
      BY PastCheckFinite
    <3> QED
      BY <1>a, <2>1, <3>1, <3>2, <3>3
  <2>2. CASE ~ (req[c].res = r /\ Cardinality(members[r]) < MaxParticipants)
    <3>1. members'[r] = members[r] /\ PastCheck(r)' \subseteq PastCheck(r)
      BY <1>3, <1>a, <2>2 DEF Count, Continue, Finish, PastCheck
    <3> QED
      BY <1>b, <3>1
  <2> QED
    BY <2>1, <2>2
<1>4. ASSUME NEW c \in Connections, PublishReservation(c), pc' = [pc EXCEPT ![c] = "idle"]
      PROVE  /\ IsFiniteSet(members'[r])
             /\ Cardinality(members'[r]) + Cardinality(PastCheck(r)') <= Limit
  <2>1. PastCheck(r)' \subseteq PastCheck(r)
    BY <1>4 DEF PublishReservation, PastCheck
  <2>2. CASE req[c].res = r
    <3>1. ~ Exists(r)
      BY <1>4, <2>2 DEF PublishReservation, IdsOwned, Creating
    <3>2. members[r] = {} /\ PastCheck(r) = {}
      BY <3>1 DEF HostIsMember, IdsOwned, PastCheck, Joining
    <3>3. members'[r] = {req[c].user} /\ PastCheck(r)' = {}
      BY <1>4, <2>1, <2>2, <3>2 DEF PublishReservation
    <3>4. Cardinality(Connections) \in Nat /\ Cardinality(Connections) # 0
      BY PastCheckFinite, ConnectionsAssumption, FS_EmptySet
    <3>5. /\ IsFiniteSet({req[c].user}) /\ Cardinality({req[c].user}) = 1
          /\ Cardinality({}) = 0
      BY FS_EmptySet, FS_Singleton
    <3>6. /\ IsFiniteSet(members'[r]) /\ Cardinality(members'[r]) = 1
          /\ Cardinality(PastCheck(r)') = 0
      BY <3>3, <3>5
    <3> QED
      BY <1>a, <3>4, <3>6
  <2>3. CASE req[c].res # r
    BY <1>4, <1>b, <2>1, <2>3 DEF PublishReservation
  <2> QED
    BY <2>2, <2>3
<1>5. ASSUME NEW c \in Connections, PublishMember(c), pc' = [pc EXCEPT ![c] = "idle"]
      PROVE  /\ IsFiniteSet(members'[r])
             /\ Cardinality(members'[r]) + Cardinality(PastCheck(r)') <= Limit
  <2>1. CASE req[c].res = r
    <3>1. c \in PastCheck(r) /\ PastCheck(r)' = PastCheck(r) \ {c}
      BY <1>5, <2>1 DEF PublishMember, PastCheck
    <3>2. Cardinality(PastCheck(r)') = Cardinality(PastCheck(r)) - 1
      BY <3>1, PastCheckFinite, FS_RemoveElement
    <3>3. members'[r] = members[r] \union {req[c].user}
      BY <1>5, <2>1 DEF PublishMember
    <3>a. /\ IsFiniteSet(members[r] \union {req[c].user})
          /\ Cardinality(members[r] \union {req[c].user}) =
                 IF req[c].user \in members[r]
                 THEN Cardinality(members[r]) ELSE Cardinality(members[r]) + 1
      BY <1>a, FS_AddElement
    <3>4. /\ IsFiniteSet(members'[r])
          /\ Cardinality(members'[r]) \in Nat
          /\ Cardinality(members'[r]) <= Cardinality(members[r]) + 1
      BY <1>a, <3>3, <3>a
    <3> QED
      BY <1>a, <3>2, <3>4, PastCheckFinite
  <2>2. CASE req[c].res # r
    <3>1. members'[r] = members[r] /\ PastCheck(r)' \subseteq PastCheck(r)
      BY <1>5, <2>2 DEF PublishMember, PastCheck
    <3> QED
      BY <1>b, <3>1
  <2> QED
    BY <2>1, <2>2
<1>6. CASE Restart
  <2>1. members'[r] = members[r] /\ PastCheck(r)' \subseteq PastCheck(r)
    BY <1>6 DEF Restart, PastCheck
  <2> QED
    BY <1>b, <2>1
<1>7. CASE UNCHANGED vars
  <2>1. members'[r] = members[r] /\ PastCheck(r)' \subseteq PastCheck(r)
    BY <1>7 DEF vars, PastCheck
  <2> QED
    BY <1>b, <2>1
<1> QED
  BY <1>b, <1>1, <1>2, <1>3, <1>4, <1>5, <1>6, <1>7
     DEF Next, Arrive, Advance, CommitCreate, CommitJoin, LoseAcknowledgement, Finish

\* Nobody leaves a reservation, so what its members told of it stays true.
LEMMA MembersGrow ==
    ASSUME TypeOK, [Next]_vars, NEW r \in Reservations
    PROVE  members[r] \subseteq members'[r]
BY DEF TypeOK, Request, Next, Arrive, Advance, SaveReservation, FindReservation, SaveMember,
       CommitCreate, PublishReservation, FindExisting, Count, Insert, CommitJoin, PublishMember,
       Abort, LoseAcknowledgement, Restart, vars

LEMMA AnswersStep ==
    TypeOK /\ PlacesBounded /\ PlacesBounded' /\ AnswersHold /\ [Next]_vars => AnswersHold'
<1> SUFFICES ASSUME TypeOK, PlacesBounded, PlacesBounded', AnswersHold, [Next]_vars,
                    NEW d \in Connections
             PROVE  /\ answer'[d] \in {"created", "joined", "AlreadyJoined", "UniqueViolation"} =>
                          req'[d].user \in members'[req'[d].res]
                    /\ answer'[d] = "Full" => Cardinality(members'[req'[d].res]) >= MaxParticipants
  BY DEF AnswersHold
<1> DEFINE True == /\ answer'[d] \in {"created", "joined", "AlreadyJoined", "UniqueViolation"} =>
                         req'[d].user \in members'[req'[d].res]
                   /\ answer'[d] = "Full" => Cardinality(members'[req'[d].res]) >= MaxParticipants
<1> USE DEF TypeOK, Request
<1>a. \A r \in Reservations : members[r] \subseteq members'[r]
  BY MembersGrow
<1>b. ASSUME NEW r \in Reservations, Cardinality(members[r]) >= MaxParticipants
      PROVE  Cardinality(members'[r]) >= MaxParticipants
  BY <1>a, <1>b, FS_Subset, FS_CardinalityType, MaxParticipantsAssumption DEF PlacesBounded
<1>c. ASSUME req'[d] = req[d], answer'[d] = answer[d], req[d] \in Request
      PROVE  True
  <2>1. req[d].res \in Reservations
    BY <1>c
  <2> QED
    BY <1>a, <1>b, <1>c, <2>1 DEF AnswersHold
<1>d. ASSUME answer'[d] \in {"none", "NotFound", "ServerError"}
      PROVE  True
  BY <1>d
<1>1. ASSUME NEW c \in Connections, NEW u \in Users, NEW s \in Reservations,
             SaveReservation(c, u, s) \/ FindReservation(c, u, s)
      PROVE  True
  <2>1. CASE c = d
    BY <1>1, <1>d, <2>1 DEF SaveReservation, FindReservation, Continue, Finish
  <2>2. CASE c # d /\ answer[d] # "none"
    BY <1>1, <1>c, <2>2 DEF SaveReservation, FindReservation, Receive, Continue, Finish
  <2>3. CASE c # d /\ answer[d] = "none"
    BY <1>1, <1>d, <2>3 DEF SaveReservation, FindReservation, Continue, Finish
  <2> QED
    BY <2>1, <2>2, <2>3
<1>2. ASSUME NEW c \in Connections, c # d, answer' = [answer EXCEPT ![c] = answer'[c]], req' = req
      PROVE  True
  <2>1. CASE answer[d] # "none"
    BY <1>2, <1>c, <2>1
  <2>2. CASE answer[d] = "none"
    BY <1>2, <1>d, <2>2
  <2> QED
    BY <2>1, <2>2
<1>3. ASSUME NEW c \in Connections, c = d, SaveMember(c) \/ Abort(c) \/ LoseAcknowledgement(c)
      PROVE  True
  BY <1>3, <1>d DEF SaveMember, Abort, LoseAcknowledgement, Continue, Finish
<1>4. ASSUME NEW c \in Connections, c = d, FindExisting(c) \/ Insert(c)
      PROVE  True
  BY <1>4 DEF FindExisting, Insert, Continue, Finish
<1>5. ASSUME NEW c \in Connections, c = d, Count(c)
      PROVE  True
  BY <1>5 DEF Count, Continue, Finish
<1>6. ASSUME NEW c \in Connections, c = d, CommitCreate(c)
      PROVE  True
  BY <1>6 DEF CommitCreate, PublishReservation, Finish
<1>7. ASSUME NEW c \in Connections, c = d, CommitJoin(c)
      PROVE  True
  BY <1>7 DEF CommitJoin, PublishMember, Finish
<1>8. CASE Restart
  BY <1>8, <1>d DEF Restart
<1>9. CASE UNCHANGED vars
  <2>1. CASE answer[d] # "none"
    BY <1>9, <1>c, <2>1 DEF vars
  <2>2. CASE answer[d] = "none"
    BY <1>9, <1>d, <2>2 DEF vars
  <2> QED
    BY <2>1, <2>2
<1> HIDE DEF True
<1>10. ASSUME NEW c \in Connections, Advance(c) \/ Abort(c) \/ LoseAcknowledgement(c)
       PROVE  True
  <2>1. CASE c # d
    <3>1. answer' = [answer EXCEPT ![c] = answer'[c]] /\ req' = req
      BY <1>10 DEF Advance, SaveMember, CommitCreate, PublishReservation, FindExisting, Count,
                  Insert, CommitJoin, PublishMember, Abort, LoseAcknowledgement, Continue, Finish
    <3> QED
      BY <1>2, <2>1, <3>1
  <2>2. CASE c = d
    BY <1>3, <1>4, <1>5, <1>6, <1>7, <1>10, <2>2 DEF Advance
  <2> QED
    BY <2>1, <2>2
<1> QED
  BY <1>1, <1>8, <1>9, <1>10 DEF Next, Arrive, True

-------------------------------------------------------------------------------
(* The theorems *)

LEMMA InvInit == Init => IInv
<1> SUFFICES ASSUME Init
             PROVE  IInv
  OBVIOUS
<1>1. IdsOwned /\ HostIsMember /\ KeysExclusive /\ AnswersHold
  BY NoUserAssumption
     DEF Init, IdsOwned, HostIsMember, KeysExclusive, AnswersHold, Exists
<1>2. ASSUME NEW r \in Reservations
      PROVE  IsFiniteSet(members[r]) /\ Cardinality(members[r]) + Cardinality(PastCheck(r)) <= Limit
  <2>1. members[r] = {} /\ PastCheck(r) = {}
    BY DEF Init, PastCheck
  <2> QED
    BY <2>1, FS_EmptySet, PastCheckFinite, MaxParticipantsAssumption DEF Limit
<1> QED
  BY TypeInit, <1>1, <1>2 DEF IInv, PlacesBounded

LEMMA InvStep == IInv /\ [Next]_vars => IInv'
BY TypeStep, IdsStep, HostStep, KeysStep, PlacesStep, AnswersStep DEF IInv

\* What every other theorem rests on: ids in use belong to one request or one
\* reservation, uncommitted rows keep their keys to themselves, members and joins
\* past their count stay below the limit together, and answers stay true.
THEOREM Invariance == Spec => []IInv
BY InvInit, InvStep, PTL DEF Spec

\* Whatever joins interleave, no reservation has more members than the maximum
\* and all but one of the connections of the pool together.
THEOREM Overshoot == Spec => []OvershootBounded
<1>1. IInv => OvershootBounded
  <2> SUFFICES ASSUME IInv, NEW r \in Reservations
               PROVE  Cardinality(members[r]) <= Limit
    BY DEF OvershootBounded
  <2>1. Limit \in Int
    BY PastCheckFinite, MaxParticipantsAssumption DEF Limit
  <2> QED
    BY <2>1, PastCheckFinite, FS_CardinalityType DEF IInv, PlacesBounded
<1> QED
  BY <1>1, Invariance, PTL

\* A reservation and its host's membership appear together, and the host stays.
THEOREM HostsTakePart == Spec => []HostIsMember
<1>1. IInv => HostIsMember
  BY DEF IInv
<1> QED
  BY <1>1, Invariance, PTL

\* What the answers of createReservation and joinReservation say stays true.
THEOREM AnswersTrue == Spec => []AnswersHold
<1>1. IInv => AnswersHold
  BY DEF IInv
<1> QED
  BY <1>1, Invariance, PTL

\* Each successful join is the one that made its user a member.
THEOREM JoinsSucceedOnce == Spec => JoinedOnce
<1>1. ASSUME IInv, [Next]_vars, NEW d \in Connections,
             answer[d] # "joined", answer'[d] = "joined"
      PROVE  /\ req[d].user \notin members[req[d].res]
             /\ req[d].user \in members'[req[d].res]
  <2> USE DEF IInv, TypeOK, Request
  <2>1. CommitJoin(d)
    BY <1>1 DEF Next, Arrive, Advance, SaveReservation, FindReservation, SaveMember, CommitCreate,
                FindExisting, Count, Insert, CommitJoin, Abort, LoseAcknowledgement, Restart, vars,
                Continue, Finish
  <2> QED
    BY <1>1, <2>1 DEF CommitJoin, PublishMember, KeysExclusive
<1>2. IInv /\ [Next]_vars =>
          [\A c \in Connections :
               answer[c] # "joined" /\ answer'[c] = "joined" =>
                   /\ req[c].user \notin members[req[c].res]
                   /\ req[c].user \in members'[req[c].res]]_vars
  BY <1>1
<1> QED
  BY <1>2, Invariance, PTL DEF Spec, JoinedOnce

\* The instance of Roster counts as this module does.
LEMMA SameCardinality == \A S : Rosters!Cardinality(S) = Cardinality(S)
BY DEF Cardinality, Rosters!Cardinality

\* Membership implements Roster: a commit maps to Open or Enter, any other step
\* to a stutter.
THEOREM ImplementsRoster == Spec => RosterSpec
<1>1. Init => Rosters!Init
  BY DEF Init, Rosters!Init
<1>2. IInv /\ [Next]_vars => [Rosters!Next]_(Rosters!vars)
  <2> SUFFICES ASSUME IInv, [Next]_vars
               PROVE  [Rosters!Next]_(Rosters!vars)
    OBVIOUS
  <2> USE DEF IInv, TypeOK, Request
  <2>1. ASSUME NEW c \in Connections, PublishReservation(c)
        PROVE  Rosters!Next
    <3>1. PICK r \in Reservations, u \in Users : r = req[c].res /\ u = req[c].user
      BY <2>1 DEF PublishReservation
    <3>2. Rosters!Open(r, u)
      BY <2>1, <3>1 DEF PublishReservation, Rosters!Open, IdsOwned, HostIsMember, Exists
    <3> QED
      BY <3>2 DEF Rosters!Next
  <2>2. ASSUME NEW c \in Connections, PublishMember(c)
        PROVE  Rosters!Next
    <3>1. PICK r \in Reservations : r = req[c].res
      BY <2>2 DEF PublishMember
    <3>a. c \in PastCheck(r)
      BY <2>2, <3>1 DEF PublishMember, PastCheck
    <3>2. Cardinality(PastCheck(r)) \in Nat /\ Cardinality(PastCheck(r)) # 0
      BY <3>a, PastCheckFinite, FS_EmptySet
    <3>3. /\ Limit \in Int
          /\ Cardinality(members[r]) \in Nat
          /\ Cardinality(members[r]) + Cardinality(PastCheck(r)) <= Limit
      BY PastCheckFinite, MaxParticipantsAssumption, FS_CardinalityType DEF Limit, PlacesBounded
    <3>4. Cardinality(members[r]) < Limit
      BY <3>2, <3>3
    <3>5. host[r] # NoUser /\ req[c].user \notin members[r]
      BY <2>2, <3>1 DEF PublishMember, IdsOwned, KeysExclusive, Exists
    <3>6. members' = [members EXCEPT ![r] = @ \union {req[c].user}] /\ UNCHANGED host
      BY <2>2, <3>1 DEF PublishMember
    <3>7. Rosters!Enter(r, req[c].user)
      BY <3>4, <3>5, <3>6, SameCardinality DEF Rosters!Enter
    <3>8. req[c].user \in Users
      BY <2>2 DEF PublishMember
    <3> QED
      BY <3>7, <3>8 DEF Rosters!Next
  <2>3. CASE UNCHANGED <<host, members>>
    BY <2>3 DEF Rosters!vars
  <2> QED
    BY <2>1, <2>2, <2>3
       DEF Next, Arrive, Advance, SaveReservation, FindReservation, SaveMember, CommitCreate,
           FindExisting, Count, Insert, CommitJoin, Abort, LoseAcknowledgement, Restart, vars
<1> QED
  BY <1>1, <1>2, Invariance, PTL DEF Spec, RosterSpec, Rosters!Spec
===============================================================================
