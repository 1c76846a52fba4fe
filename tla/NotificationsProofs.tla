-------------------------- MODULE NotificationsProofs --------------------------
(***************************************************************************)
(* Theorems about Notifications, for any sets of users, reservations and   *)
(* overlapping jobs, any notification times, and any number of moves,      *)
(* failures and midnights.                                                 *)
(***************************************************************************)
EXTENDS Notifications, TLAPS

-------------------------------------------------------------------------------
(* Type correctness *)

LEMMA TypesFromOne == 1 \in Types /\ Len(Timing) \in Nat /\ Types = 1..Len(Timing)
BY TimingAssumption DEF Types

LEMMA NextTypeType ==
    ASSUME TypeOK, NEW j \in Jobs, NextType(j)
    PROVE  /\ pc' \in [Jobs -> {"idle", "findReservations", "findMembers", "push"}]
           /\ type' \in [Jobs -> Types]
<1>1. type[j] \in 1..Len(Timing) /\ type[j] # Len(Timing) => type[j] + 1 \in 1..Len(Timing)
  BY TypesFromOne DEF TypeOK
<1> QED
  BY <1>1, TypesFromOne DEF TypeOK, NextType

LEMMA SettleType ==
    ASSUME TypeOK, NEW j \in Jobs, NEW t, Settle(j, t)
    PROVE  /\ t \in Target
           /\ PushTo(j, t) \in Push
           /\ pc' \in [Jobs -> {"idle", "findReservations", "findMembers", "push"}]
           /\ type' \in [Jobs -> Types]
           /\ targets' \in [Jobs -> SUBSET Target]
<1>1. t \in Target
  BY DEF Settle, TypeOK
<1>2. PushTo(j, t) \in Push
  BY <1>1 DEF PushTo, Target, Push, TypeOK
<1>3. targets' \in [Jobs -> SUBSET Target]
  BY DEF Settle, TypeOK
<1>4. CASE targets[j] = {t}
  BY <1>1, <1>2, <1>3, <1>4, NextTypeType DEF Settle
<1>5. CASE targets[j] # {t}
  BY <1>1, <1>2, <1>3, <1>5 DEF Settle, TypeOK
<1> QED
  BY <1>4, <1>5

LEMMA UnansweredType == TypeOK => Unanswered \subseteq Push
<1> SUFFICES ASSUME TypeOK, NEW p \in Unanswered
             PROVE  p \in Push
  OBVIOUS
<1>1. PICK j \in Jobs : \E t \in targets[j] : p = PushTo(j, t)
  BY DEF Unanswered
<1>2. PICK t \in targets[j] : p = PushTo(j, t)
  BY <1>1
<1>3. t \in Target /\ minute[j] \in Times
  BY DEF TypeOK
<1> QED
  BY <1>2, <1>3 DEF PushTo, Target, Push

LEMMA FoundType ==
    ASSUME TypeOK, NEW m \in Times, NEW i \in Types
    PROVE  {[res |-> r, for |-> datetime[r]] : r \in {r \in Reservations : Due(r, m, i)}}
               \subseteq Found
<1>1. ASSUME NEW r \in Reservations, Due(r, m, i)
      PROVE  datetime[r] \in Times
  <2>1. m + Timing[i] \in Int
    BY TimingAssumption, BoundsAssumption DEF Types, Times
  <2> QED
    BY <1>1, <2>1, NoTimeAssumption DEF Due, TypeOK
<1> QED
  BY <1>1 DEF Found

LEMMA TargetsType ==
    ASSUME NEW f \in Found, NEW i
    PROVE  TargetsOf(f, i) \subseteq Target
BY DEF TargetsOf, Target, Found

\* Requests change what jobs read, and nothing of the jobs.
LEMMA RequestsOnly ==
    Requested => UNCHANGED <<now, up, sentNotifications, pushes, job, faults>>
BY DEF Requested, Create, Join, ValidateMove, CommitMove, DropMoves

\* Rows of user_reservations are only added.
LEMMA MembersStay ==
    ASSUME TypeOK, RowsFollowReservation, Requested, NEW r \in Reservations
    PROVE  members[r] \subseteq members'[r]
BY DEF Requested, Create, Join, ValidateMove, CommitMove, DropMoves, RowsFollowReservation, TypeOK

LEMMA TypeInit == Init => TypeOK
BY TypesFromOne, BoundsAssumption DEF Init, TypeOK, Times

LEMMA TypeStep == TypeOK /\ [Next]_vars => TypeOK'
<1> SUFFICES ASSUME TypeOK, [Next]_vars
             PROVE  TypeOK'
  OBVIOUS
<1> USE BoundsAssumption DEF tables, job
<1>1. CASE Requested
  <2>1. ASSUME NEW r \in Reservations, NEW u \in Users, NEW t \in Times, Create(r, u, t)
        PROVE  TypeOK'
    BY <2>1 DEF Create, TypeOK
  <2>2. ASSUME NEW r \in Reservations, NEW u \in Users, Join(r, u)
        PROVE  TypeOK'
    BY <2>2 DEF Join, TypeOK
  <2>3. ASSUME NEW r \in Reservations, NEW t \in Times, ValidateMove(r, t)
        PROVE  TypeOK'
    BY <2>3 DEF ValidateMove, Move, TypeOK
  <2>4. ASSUME NEW m \in moving, CommitMove(m)
        PROVE  TypeOK'
    <3>1. m.res \in Reservations /\ m.to \in Times
      BY DEF TypeOK, Move
    <3> QED
      BY <2>4, <3>1 DEF CommitMove, TypeOK
  <2>5. CASE DropMoves
    BY <2>5 DEF DropMoves, TypeOK
  <2> QED
    BY <1>1, <2>1, <2>2, <2>3, <2>4, <2>5 DEF Requested
<1>2. CASE Minute
  <2>1. now + 1 \in Times
    BY <1>2 DEF Minute, TypeOK, Times
  <2>2. CASE up
    <3>1. PICK j \in Jobs : Start(j)
      BY <1>2, <2>2 DEF Minute
    <3> QED
      BY <1>2, <2>1, <3>1, TypesFromOne DEF Minute, Start, TypeOK
  <2>3. CASE ~ up
    BY <1>2, <2>1, <2>3 DEF Minute, TypeOK
  <2> QED
    BY <2>2, <2>3
<1>3. ASSUME NEW j \in Jobs, FindReservations(j)
      PROVE  TypeOK'
  <2> DEFINE due == {r \in Reservations : Due(r, minute[j], type[j])}
  <2>1. owed' \in [Jobs -> SUBSET Key]
    BY <1>3 DEF FindReservations, DueKeys, TypeOK
  <2>2. CASE due = {}
    BY <1>3, <2>1, <2>2, NextTypeType DEF FindReservations, TypeOK
  <2>3. CASE due # {}
    <3>1. {[res |-> r, for |-> datetime[r]] : r \in due} \subseteq Found
      BY FoundType DEF TypeOK
    <3> HIDE DEF due
    <3> QED
      BY <1>3, <2>1, <2>3, <3>1 DEF FindReservations, TypeOK, due
  <2> QED
    BY <2>2, <2>3
<1>4. ASSUME NEW j \in Jobs, FindMembers(j)
      PROVE  TypeOK'
  <2>1. PICK f \in found[j] :
            LET all == targets[j] \union TargetsOf(f, type[j]) IN
            /\ found' = [found EXCEPT ![j] = @ \ {f}]
            /\ targets' = [targets EXCEPT ![j] = all]
            /\ IF found[j] # {f} THEN UNCHANGED <<pc, type>>
               ELSE IF all = {} THEN NextType(j)
               ELSE pc' = [pc EXCEPT ![j] = "push"] /\ UNCHANGED type
    BY <1>4 DEF FindMembers
  <2>2. targets[j] \union TargetsOf(f, type[j]) \subseteq Target
    BY TargetsType DEF TypeOK
  <2>3. /\ found' \in [Jobs -> SUBSET Found]
        /\ targets' \in [Jobs -> SUBSET Target]
    BY <2>1, <2>2 DEF TypeOK
  <2>4. /\ pc' \in [Jobs -> {"idle", "findReservations", "findMembers", "push"}]
        /\ type' \in [Jobs -> Types]
    BY <2>1, NextTypeType DEF TypeOK
  <2> QED
    BY <1>4, <2>3, <2>4 DEF FindMembers, TypeOK
<1>5. ASSUME NEW j \in Jobs, NEW t \in targets[j], Sent(j, t)
      PROVE  TypeOK'
  <2>1. Settle(j, t)
    BY <1>5 DEF Sent
  <2>2. /\ t \in Target
        /\ PushTo(j, t) \in Push
        /\ pc' \in [Jobs -> {"idle", "findReservations", "findMembers", "push"}]
        /\ type' \in [Jobs -> Types]
        /\ targets' \in [Jobs -> SUBSET Target]
    BY <2>1, SettleType
  <2>3. UNCHANGED <<now, up, tables, minute, found>>
    BY <2>1 DEF Settle
  <2>4. pushes' \in SUBSET Push
    BY <1>5, <2>2 DEF Sent, TypeOK
  <2>5. sentNotifications' \in SUBSET Key
    BY <1>5, <2>2 DEF Sent, Target, TypeOK
  <2>6. faults' \in 0..MaxFaults
    BY <1>5 DEF Sent, Fault, TypeOK
  <2>7. owed' \in [Jobs -> SUBSET Key]
    BY <1>5 DEF Sent, TypeOK
  <2> QED
    BY <2>2, <2>3, <2>4, <2>5, <2>6, <2>7 DEF TypeOK
<1>6. ASSUME NEW j \in Jobs, NEW t \in targets[j], PushFails(j, t)
      PROVE  TypeOK'
  <2>1. Settle(j, t)
    BY <1>6 DEF PushFails
  <2>2. /\ t \in Target
        /\ PushTo(j, t) \in Push
        /\ pc' \in [Jobs -> {"idle", "findReservations", "findMembers", "push"}]
        /\ type' \in [Jobs -> Types]
        /\ targets' \in [Jobs -> SUBSET Target]
    BY <2>1, SettleType
  <2>3. UNCHANGED <<now, up, tables, minute, found>>
    BY <2>1 DEF Settle
  <2>4. pushes' \in SUBSET Push
    BY <1>6, <2>2 DEF PushFails, TypeOK
  <2>5. sentNotifications' \in SUBSET Key
    BY <1>6, <2>2 DEF PushFails, Target, TypeOK
  <2>6. faults' \in 0..MaxFaults
    BY <1>6 DEF PushFails, Fault, TypeOK
  <2>7. owed' \in [Jobs -> SUBSET Key]
    BY <1>6 DEF PushFails, TypeOK
  <2> QED
    BY <2>2, <2>3, <2>4, <2>5, <2>6, <2>7 DEF TypeOK
<1>7. ASSUME NEW j \in Jobs, QueryFails(j)
      PROVE  TypeOK'
  BY <1>7 DEF QueryFails, Fault, TypeOK
<1>8. CASE Crash
  <2>1. Unanswered \subseteq Push
    BY UnansweredType
  <2>2. PICK delivered \in SUBSET Unanswered : pushes' = pushes \union delivered
    BY <1>8 DEF Crash
  <2>3. pushes' \in SUBSET Push
    BY <2>1, <2>2 DEF TypeOK
  <2>4. /\ pc' \in [Jobs -> {"idle", "findReservations", "findMembers", "push"}]
        /\ found' \in [Jobs -> SUBSET Found]
        /\ targets' \in [Jobs -> SUBSET Target]
        /\ owed' \in [Jobs -> SUBSET Key]
    BY <1>8 DEF Crash
  <2>5. /\ UNCHANGED <<now, datetime, members, moves, minute, type>>
        /\ up' \in BOOLEAN /\ moving' = {} /\ sentNotifications' = {}
    BY <1>8 DEF Crash
  <2>6. faults' \in 0..MaxFaults
    BY <1>8 DEF Crash, Fault, TypeOK
  <2> QED
    BY <2>3, <2>4, <2>5, <2>6 DEF TypeOK
<1>9. CASE Boot
  BY <1>9 DEF Boot, TypeOK
<1>10. CASE UNCHANGED vars
  BY <1>10 DEF vars, TypeOK
<1> QED
  BY <1>1, <1>2, <1>3, <1>4, <1>5, <1>6, <1>7, <1>8, <1>9, <1>10 DEF Next, Advance, Rest

\* Every variable of Notifications keeps its type: jobs never run past the last
\* type, and only target times a reservation was found at.
THEOREM TypeCorrect == Spec => []TypeOK
BY TypeInit, TypeStep, PTL DEF Spec

-------------------------------------------------------------------------------
(* The parts of the inductive invariant, one lemma each *)

\* After NextType the job is at the beginning of a type, or has ended.
LEMMA NextTypeEffect ==
    ASSUME TypeOK, NEW j \in Jobs, NextType(j)
    PROVE  /\ pc'[j] \in {"idle", "findReservations"}
           /\ \A i \in Jobs \ {j} : pc'[i] = pc[i] /\ type'[i] = type[i]
BY DEF NextType, TypeOK

\* An answered push leaves the others outstanding, or ends the type.
LEMMA SettleEffect ==
    ASSUME TypeOK, NEW j \in Jobs, NEW t, Settle(j, t)
    PROVE  /\ targets'[j] = targets[j] \ {t}
           /\ \A i \in Jobs \ {j} :
                  pc'[i] = pc[i] /\ type'[i] = type[i] /\ targets'[i] = targets[i]
           /\ \/ targets'[j] = {} /\ pc'[j] \in {"idle", "findReservations"}
              \/ pc'[j] = "push" /\ type'[j] = type[j]
<1>1. /\ targets'[j] = targets[j] \ {t}
      /\ \A i \in Jobs \ {j} : targets'[i] = targets[i]
  BY DEF Settle, TypeOK
<1>2. CASE targets[j] = {t}
  BY <1>1, <1>2, NextTypeEffect DEF Settle
<1>3. CASE targets[j] # {t}
  BY <1>1, <1>3 DEF Settle
<1> QED
  BY <1>2, <1>3

\* Reading the members of a reservation adds targets, or ends the type.
LEMMA FindMembersEffect ==
    ASSUME TypeOK, NEW j \in Jobs, FindMembers(j)
    PROVE  \E f \in found[j] :
               /\ found'[j] = found[j] \ {f}
               /\ targets'[j] = targets[j] \union TargetsOf(f, type[j])
               /\ \A i \in Jobs \ {j} : /\ pc'[i] = pc[i]
                                        /\ type'[i] = type[i]
                                        /\ found'[i] = found[i]
                                        /\ targets'[i] = targets[i]
               /\ \/ pc'[j] = "findMembers" /\ type'[j] = type[j]
                  \/ pc'[j] = "push" /\ type'[j] = type[j] /\ found'[j] = {}
                  \/ /\ pc'[j] \in {"idle", "findReservations"}
                     /\ found'[j] = {}
                     /\ targets'[j] = {}
<1>1. PICK f \in found[j] :
          LET all == targets[j] \union TargetsOf(f, type[j]) IN
          /\ found' = [found EXCEPT ![j] = @ \ {f}]
          /\ targets' = [targets EXCEPT ![j] = all]
          /\ IF found[j] # {f} THEN UNCHANGED <<pc, type>>
             ELSE IF all = {} THEN NextType(j)
             ELSE pc' = [pc EXCEPT ![j] = "push"] /\ UNCHANGED type
  BY DEF FindMembers
<1>2. /\ found'[j] = found[j] \ {f}
      /\ targets'[j] = targets[j] \union TargetsOf(f, type[j])
      /\ \A i \in Jobs \ {j} : found'[i] = found[i] /\ targets'[i] = targets[i]
  BY <1>1 DEF TypeOK
<1>3. CASE found[j] # {f}
  BY <1>1, <1>2, <1>3 DEF FindMembers
<1>4. CASE found[j] = {f} /\ targets'[j] = {}
  BY <1>1, <1>2, <1>4, NextTypeEffect
<1>5. CASE found[j] = {f} /\ targets'[j] # {}
  BY <1>1, <1>2, <1>5 DEF TypeOK
<1> QED
  BY <1>2, <1>3, <1>4, <1>5

LEMMA MinutesStep == TypeOK /\ MinutesDiffer /\ [Next]_vars => MinutesDiffer'
<1> SUFFICES ASSUME TypeOK, MinutesDiffer, [Next]_vars
             PROVE  MinutesDiffer'
  OBVIOUS
<1>0. now \in Int /\ \A j \in Jobs : minute[j] \in Int
  BY BoundsAssumption DEF TypeOK, Times
<1>1. ASSUME UNCHANGED <<now, up, minute>>,
             \A j \in Jobs : pc'[j] # "idle" => pc[j] # "idle"
      PROVE  MinutesDiffer'
  BY <1>1 DEF MinutesDiffer
<1>2. CASE Minute
  <2>1. CASE up
    <3>1. PICK j \in Jobs : Start(j)
      BY <1>2, <2>1 DEF Minute
    <3>2. /\ minute'[j] = now + 1 /\ now' = now + 1 /\ up'
          /\ \A i \in Jobs \ {j} : minute'[i] = minute[i] /\ pc'[i] = pc[i]
      BY <1>2, <2>1, <3>1 DEF Minute, Start, TypeOK
    <3> QED
      BY <1>0, <3>2 DEF MinutesDiffer
  <2>2. CASE ~ up
    BY <1>0, <1>2, <2>2 DEF Minute, MinutesDiffer, job
  <2> QED
    BY <2>1, <2>2
<1>3. CASE Requested \/ UNCHANGED vars
  BY <1>1, <1>3, RequestsOnly DEF vars, job
<1>4. ASSUME NEW j \in Jobs, FindReservations(j)
      PROVE  MinutesDiffer'
  BY <1>1, <1>4, NextTypeEffect DEF FindReservations, TypeOK
<1>5. ASSUME NEW j \in Jobs, FindMembers(j)
      PROVE  MinutesDiffer'
  <2>1. pc[j] # "idle" /\ UNCHANGED <<now, up, minute>>
    BY <1>5 DEF FindMembers
  <2> QED
    BY <1>1, <1>5, <2>1, FindMembersEffect
<1>6. ASSUME NEW j \in Jobs, NEW t \in targets[j], Settle(j, t)
      PROVE  MinutesDiffer'
  <2>1. pc[j] # "idle" /\ UNCHANGED <<now, up, minute>>
    BY <1>6 DEF Settle
  <2> QED
    BY <1>1, <1>6, <2>1, SettleEffect
<1>7. ASSUME NEW j \in Jobs, QueryFails(j)
      PROVE  MinutesDiffer'
  BY <1>1, <1>7 DEF QueryFails, TypeOK
<1>8. CASE Crash
  BY <1>8 DEF Crash, MinutesDiffer
<1>9. CASE Boot
  BY <1>9 DEF Boot, MinutesDiffer, job
<1> QED
  BY <1>2, <1>3, <1>4, <1>5, <1>6, <1>7, <1>8, <1>9 DEF Next, Advance, Rest, Sent, PushFails

LEMMA TargetsStep == TypeOK /\ TargetsAtType /\ [Next]_vars => TargetsAtType'
<1> SUFFICES ASSUME TypeOK, TargetsAtType, [Next]_vars
             PROVE  TargetsAtType'
  OBVIOUS
<1> DEFINE Fine(j) ==
        /\ \A t \in targets[j] : t.key.type = type[j] /\ t.for = minute[j] + Timing[type[j]]
        /\ \A f \in found[j] : f.for = minute[j] + Timing[type[j]]
        /\ pc[j] # "findMembers" => found[j] = {}
        /\ targets[j] # {} => pc[j] \in {"findMembers", "push"}
<1>1. \A j \in Jobs : Fine(j)
  BY DEF TargetsAtType
<1>2. ASSUME NEW j \in Jobs, Fine(j)',
             \A i \in Jobs \ {j} :
                 /\ pc'[i] = pc[i]
                 /\ minute'[i] = minute[i]
                 /\ type'[i] = type[i]
                 /\ found'[i] = found[i]
                 /\ targets'[i] = targets[i]
      PROVE  TargetsAtType'
  <2>1. \A i \in Jobs \ {j} : Fine(i)'
    BY <1>1, <1>2
  <2> QED
    BY <1>2, <2>1 DEF TargetsAtType
<1>3. CASE UNCHANGED job
  BY <1>3 DEF TargetsAtType, job
<1>4. CASE Minute
  <2>1. CASE up
    <3>1. PICK j \in Jobs : Start(j)
      BY <1>4, <2>1 DEF Minute
    <3>2. targets'[j] = {} /\ found'[j] = {}
      BY <1>1, <3>1 DEF Start
    <3> QED
      BY <1>2, <3>1, <3>2 DEF Start, TypeOK
  <2>2. CASE ~ up
    BY <1>3, <1>4, <2>2 DEF Minute
  <2> QED
    BY <2>1, <2>2
<1>5. ASSUME NEW j \in Jobs, FindReservations(j)
      PROVE  TargetsAtType'
  <2> DEFINE due == {r \in Reservations : Due(r, minute[j], type[j])}
  <2>1. targets[j] = {} /\ found[j] = {} /\ UNCHANGED <<minute, targets>>
    BY <1>1, <1>5 DEF FindReservations
  <2>2. CASE due = {}
    <3>1. NextType(j) /\ UNCHANGED found
      BY <1>5, <2>2 DEF FindReservations
    <3> QED
      BY <1>2, <2>1, <3>1, NextTypeEffect
  <2>3. CASE due # {}
    <3>1. /\ pc' = [pc EXCEPT ![j] = "findMembers"]
          /\ found' = [found EXCEPT ![j] = {[res |-> r, for |-> datetime[r]] : r \in due}]
          /\ UNCHANGED type
      BY <1>5, <2>3 DEF FindReservations
    <3>2. \A f \in found'[j] : f.for = minute[j] + Timing[type[j]]
      BY <3>1 DEF TypeOK, Due
    <3> QED
      BY <1>2, <2>1, <3>1, <3>2 DEF TypeOK
  <2> QED
    BY <2>2, <2>3
<1>6. ASSUME NEW j \in Jobs, FindMembers(j)
      PROVE  TargetsAtType'
  <2>1. UNCHANGED minute
    BY <1>6 DEF FindMembers
  <2>2. PICK f \in found[j] :
            /\ found'[j] = found[j] \ {f}
            /\ targets'[j] = targets[j] \union TargetsOf(f, type[j])
            /\ \A i \in Jobs \ {j} : /\ pc'[i] = pc[i]
                                     /\ type'[i] = type[i]
                                     /\ found'[i] = found[i]
                                     /\ targets'[i] = targets[i]
            /\ \/ pc'[j] = "findMembers" /\ type'[j] = type[j]
               \/ pc'[j] = "push" /\ type'[j] = type[j] /\ found'[j] = {}
               \/ /\ pc'[j] \in {"idle", "findReservations"}
                  /\ found'[j] = {}
                  /\ targets'[j] = {}
    BY <1>6, FindMembersEffect
  <2>3. \A t \in TargetsOf(f, type[j]) : t.key.type = type[j] /\ t.for = f.for
    BY DEF TargetsOf
  <2>4. f.for = minute[j] + Timing[type[j]]
    BY <1>1
  <2>5. \A t \in targets'[j] : t.key.type = type[j] /\ t.for = minute[j] + Timing[type[j]]
    BY <1>1, <2>2, <2>3, <2>4
  <2>6. \A g \in found'[j] : g.for = minute[j] + Timing[type[j]]
    BY <1>1, <2>2
  <2>7. Fine(j)'
    BY <2>1, <2>2, <2>5, <2>6
  <2> QED
    BY <1>2, <2>1, <2>2, <2>7
<1>7. ASSUME NEW j \in Jobs, NEW t \in targets[j], Settle(j, t)
      PROVE  TargetsAtType'
  <2>1. UNCHANGED <<minute, found>> /\ found[j] = {}
    BY <1>1, <1>7 DEF Settle
  <2>2. /\ targets'[j] = targets[j] \ {t}
        /\ \A i \in Jobs \ {j} :
               pc'[i] = pc[i] /\ type'[i] = type[i] /\ targets'[i] = targets[i]
        /\ \/ targets'[j] = {} /\ pc'[j] \in {"idle", "findReservations"}
           \/ pc'[j] = "push" /\ type'[j] = type[j]
    BY <1>7, SettleEffect
  <2>3. Fine(j)'
    BY <1>1, <2>1, <2>2
  <2> QED
    BY <1>2, <2>1, <2>2, <2>3
<1>8. ASSUME NEW j \in Jobs, QueryFails(j)
      PROVE  TargetsAtType'
  BY <1>1, <1>8 DEF QueryFails, TypeOK, TargetsAtType
<1>9. CASE Crash
  BY <1>9 DEF Crash, TargetsAtType
<1>10. CASE Requested \/ Boot \/ UNCHANGED vars
  BY <1>3, <1>10, RequestsOnly DEF Boot, vars
<1> QED
  BY <1>4, <1>5, <1>6, <1>7, <1>8, <1>9, <1>10 DEF Next, Advance, Rest, Sent, PushFails

\* What a job pushes is on time, if the job is.
LEMMA PushToOnTime ==
    ASSUME TypeOK, MinutesDiffer, TargetsAtType, NEW j \in Jobs, NEW t \in targets[j]
    PROVE  LET p == PushTo(j, t) IN
           p.minute <= now /\ p.for = p.minute + Timing[p.key.type]
BY DEF MinutesDiffer, TargetsAtType, PushTo

LEMMA PushesStep ==
    TypeOK /\ MinutesDiffer /\ TargetsAtType /\ PushesOnTime /\ [Next]_vars => PushesOnTime'
<1> SUFFICES ASSUME TypeOK, MinutesDiffer, TargetsAtType, PushesOnTime, [Next]_vars
             PROVE  PushesOnTime'
  OBVIOUS
<1>1. CASE UNCHANGED <<now, pushes>>
  BY <1>1 DEF PushesOnTime
<1>2. CASE Minute
  <2>1. now \in Int /\ now' = now + 1 /\ UNCHANGED pushes
    BY <1>2, BoundsAssumption DEF Minute, TypeOK, Times
  <2>2. \A p \in pushes : p.minute \in Int
    BY BoundsAssumption DEF TypeOK, Push, Times
  <2> QED
    BY <2>1, <2>2 DEF PushesOnTime
<1>3. ASSUME NEW j \in Jobs, NEW t \in targets[j],
             UNCHANGED now, pushes' \in {pushes, pushes \union {PushTo(j, t)}}
      PROVE  PushesOnTime'
  BY <1>3, PushToOnTime DEF PushesOnTime
<1>4. CASE Crash
  <2>1. PICK delivered \in SUBSET Unanswered : pushes' = pushes \union delivered
    BY <1>4 DEF Crash
  <2>2. ASSUME NEW p \in Unanswered
        PROVE  p.minute <= now /\ p.for = p.minute + Timing[p.key.type]
    <3>1. PICK j \in Jobs : \E t \in targets[j] : p = PushTo(j, t)
      BY DEF Unanswered
    <3>2. PICK t \in targets[j] : p = PushTo(j, t)
      BY <3>1
    <3> QED
      BY <3>2, PushToOnTime
  <2>3. UNCHANGED now
    BY <1>4 DEF Crash
  <2> QED
    BY <2>1, <2>2, <2>3 DEF PushesOnTime
<1>5. ASSUME NEW j \in Jobs, NEW t \in targets[j], Sent(j, t) \/ PushFails(j, t)
      PROVE  PushesOnTime'
  BY <1>3, <1>5 DEF Sent, PushFails, Settle
<1>6. ASSUME NEW j \in Jobs, FindReservations(j) \/ FindMembers(j) \/ QueryFails(j)
      PROVE  PushesOnTime'
  BY <1>1, <1>6 DEF FindReservations, FindMembers, QueryFails
<1>7. CASE Requested \/ Boot \/ UNCHANGED vars
  BY <1>1, <1>7, RequestsOnly DEF Boot, vars
<1> QED
  BY <1>2, <1>4, <1>5, <1>6, <1>7 DEF Next, Advance, Rest

LEMMA CacheStep == CacheSound /\ [Next]_vars => CacheSound'
<1> SUFFICES ASSUME CacheSound, [Next]_vars
             PROVE  CacheSound'
  OBVIOUS
<1>1. CASE sentNotifications' \subseteq sentNotifications /\ pushes \subseteq pushes'
  BY <1>1 DEF CacheSound
<1>2. ASSUME NEW j \in Jobs, NEW t \in targets[j], Sent(j, t)
      PROVE  CacheSound'
  <2>1. PushTo(j, t).key = t.key
    BY DEF PushTo
  <2> QED
    BY <1>2, <2>1 DEF Sent, CacheSound
<1>3. ASSUME NEW j \in Jobs, NEW t \in targets[j], PushFails(j, t)
      PROVE  CacheSound'
  BY <1>1, <1>3 DEF PushFails
<1>4. ASSUME NEW j \in Jobs, FindReservations(j) \/ FindMembers(j) \/ QueryFails(j)
      PROVE  CacheSound'
  BY <1>1, <1>4 DEF FindReservations, FindMembers, QueryFails
<1>5. CASE Minute \/ Requested \/ Crash \/ Boot \/ UNCHANGED vars
  BY <1>1, <1>5, RequestsOnly DEF Minute, Crash, Boot, vars
<1> QED
  BY <1>2, <1>3, <1>4, <1>5 DEF Next, Advance, Rest

LEMMA RowsStep == TypeOK /\ RowsFollowReservation /\ [Next]_vars => RowsFollowReservation'
<1> SUFFICES ASSUME TypeOK, RowsFollowReservation, [Next]_vars
             PROVE  RowsFollowReservation'
  OBVIOUS
<1>1. CASE UNCHANGED <<datetime, members>>
  BY <1>1 DEF RowsFollowReservation
<1>2. ASSUME NEW r \in Reservations, NEW u \in Users, NEW t \in Times,
             Create(r, u, t) \/ Join(r, u)
      PROVE  RowsFollowReservation'
  <2>1. t # NoTime
    BY NoTimeAssumption DEF Times
  <2> QED
    BY <1>2, <2>1 DEF Create, Join, RowsFollowReservation, TypeOK
<1>3. ASSUME NEW j \in Jobs, NEW t, Settle(j, t)
      PROVE  UNCHANGED <<datetime, members>>
  BY <1>3 DEF Settle, tables
<1>4. ASSUME NEW j \in Jobs, FindReservations(j) \/ FindMembers(j) \/ QueryFails(j)
      PROVE  UNCHANGED <<datetime, members>>
  BY <1>4 DEF FindReservations, FindMembers, QueryFails, Fault, tables
<1>5. CASE Requested
  <2>1. CASE \E r \in Reservations, u \in Users, t \in Times : Create(r, u, t)
    BY <1>2, <2>1
  <2>2. CASE \E r \in Reservations, u \in Users : Join(r, u)
    <3>1. 0 \in Times
      BY BoundsAssumption DEF Times
    <3> QED
      BY <1>2, <2>2, <3>1
  <2>3. ASSUME NEW m \in moving, CommitMove(m)
        PROVE  RowsFollowReservation'
    <3>1. m.res \in Reservations /\ m.to # NoTime
      BY NoTimeAssumption DEF TypeOK, Move, Times
    <3> QED
      BY <2>3, <3>1 DEF CommitMove, RowsFollowReservation, TypeOK
  <2>4. CASE DropMoves \/ \E r \in Reservations, t \in Times : ValidateMove(r, t)
    BY <1>1, <2>4 DEF DropMoves, ValidateMove
  <2> QED
    BY <1>5, <2>1, <2>2, <2>3, <2>4 DEF Requested
<1>6. CASE Minute \/ Crash \/ Boot \/ UNCHANGED vars
  BY <1>1, <1>6 DEF Minute, Crash, Fault, Boot, vars, tables
<1> QED
  BY <1>1, <1>3, <1>4, <1>5, <1>6 DEF Next, Advance, Rest, Sent, PushFails

\* Pushes and members are only added, so what a job leaves alone stays served.
LEMMA OwedStep ==
    /\ TypeOK /\ TargetsAtType /\ CacheSound /\ RowsFollowReservation /\ OwedServed
    /\ [Next]_vars
    => OwedServed'
<1> SUFFICES ASSUME TypeOK, TargetsAtType, CacheSound, RowsFollowReservation, OwedServed, [Next]_vars
             PROVE  OwedServed'
  OBVIOUS
<1> DEFINE Fine(j) ==
        \A k \in owed[j] :
            /\ k.user \in members[k.res] \intersect Reachable
            /\ \/ \E p \in pushes : p.key = k
               \/ \E f \in found[j] : f.res = k.res /\ type[j] = k.type
               \/ \E t \in targets[j] : t.key = k
<1>1. \A j \in Jobs : Fine(j)
  BY DEF OwedServed
<1>2. /\ \A j \in Jobs : owed[j] \subseteq Key /\ targets[j] \subseteq Target /\ found[j] \subseteq Found
      /\ \A j \in Jobs : \A k \in owed[j] : k.res \in Reservations
  BY DEF TypeOK, Key
<1>3. ASSUME UNCHANGED job, pushes \subseteq pushes',
             \A r \in Reservations : members[r] \subseteq members'[r]
      PROVE  OwedServed'
  BY <1>1, <1>2, <1>3 DEF OwedServed, job
<1>4. ASSUME NEW j \in Jobs, Fine(j)', pushes \subseteq pushes', UNCHANGED members,
             \A i \in Jobs \ {j} :
                 /\ type'[i] = type[i]
                 /\ found'[i] = found[i]
                 /\ targets'[i] = targets[i]
                 /\ owed'[i] = owed[i]
      PROVE  OwedServed'
  <2>1. \A i \in Jobs \ {j} : Fine(i)'
    BY <1>1, <1>4
  <2> QED
    BY <1>4, <2>1 DEF OwedServed
<1>5. CASE Requested
  <2>1. UNCHANGED <<job, pushes>>
    BY <1>5, RequestsOnly
  <2>2. ASSUME NEW r \in Reservations
        PROVE  members[r] \subseteq members'[r]
    BY <1>5, MembersStay
  <2> QED
    BY <1>3, <2>1, <2>2
<1>6. CASE Minute
  <2>1. CASE up
    <3>1. PICK j \in Jobs : Start(j)
      BY <1>6, <2>1 DEF Minute
    <3>2. owed'[j] = {}
      BY <3>1 DEF Start, TypeOK
    <3> QED
      BY <1>4, <1>6, <3>1, <3>2 DEF Minute, Start, TypeOK, tables
  <2>2. CASE ~ up
    BY <1>3, <1>6, <2>2 DEF Minute, tables
  <2> QED
    BY <2>1, <2>2
<1>7. ASSUME NEW j \in Jobs, FindReservations(j)
      PROVE  OwedServed'
  <2> DEFINE due == {r \in Reservations : Due(r, minute[j], type[j])}
             new == DueKeys(minute[j], type[j])
  <2>1. targets[j] = {} /\ found[j] = {} /\ UNCHANGED <<tables, pushes, targets>>
    BY <1>7 DEF FindReservations, TargetsAtType
  <2>2. owed'[j] = owed[j] \union new /\ \A i \in Jobs \ {j} : owed'[i] = owed[i]
    BY <1>7 DEF FindReservations, TypeOK
  <2>3. \A k \in owed[j] : \E p \in pushes : p.key = k
    BY <1>1, <2>1
  <2>4. \A k \in new : /\ k.type = type[j] /\ k.res \in due
                       /\ k.user \in members[k.res] \intersect Reachable
    BY DEF DueKeys, Key
  <2>5. CASE due = {}
    <3>1. NextType(j) /\ UNCHANGED found
      BY <1>7, <2>5 DEF FindReservations
    <3>2. Fine(j)'
      BY <1>1, <2>1, <2>2, <2>3, <2>4, <2>5 DEF tables
    <3> QED
      BY <1>4, <2>1, <2>2, <3>1, <3>2, NextTypeEffect DEF tables
  <2>6. CASE due # {}
    <3>1. /\ found' = [found EXCEPT ![j] = {[res |-> r, for |-> datetime[r]] : r \in due}]
          /\ UNCHANGED type
      BY <1>7, <2>6 DEF FindReservations
    <3> HIDE DEF due, new
    <3>2. \A r \in due : \E f \in found'[j] : f.res = r
      <4>1. found'[j] = {[res |-> r, for |-> datetime[r]] : r \in due}
        BY <3>1 DEF TypeOK
      <4>2. ASSUME NEW r \in due
            PROVE  \E f \in found'[j] : f.res = r
        <5>1. [res |-> r, for |-> datetime[r]] \in found'[j]
          BY <4>1
        <5> QED
          BY <5>1
      <4> QED
        BY <4>2
    <3>3. Fine(j)'
      BY <1>1, <2>1, <2>2, <2>3, <2>4, <3>1, <3>2 DEF tables
    <3> QED
      BY <1>4, <2>1, <2>2, <3>1, <3>3 DEF tables, TypeOK
  <2> QED
    BY <2>5, <2>6
<1>8. ASSUME NEW j \in Jobs, FindMembers(j)
      PROVE  OwedServed'
  <2>1. UNCHANGED <<tables, pushes, owed>>
    BY <1>8 DEF FindMembers
  <2>2. PICK f \in found[j] :
            /\ found'[j] = found[j] \ {f}
            /\ targets'[j] = targets[j] \union TargetsOf(f, type[j])
            /\ \A i \in Jobs \ {j} : /\ pc'[i] = pc[i]
                                     /\ type'[i] = type[i]
                                     /\ found'[i] = found[i]
                                     /\ targets'[i] = targets[i]
            /\ \/ pc'[j] = "findMembers" /\ type'[j] = type[j]
               \/ pc'[j] = "push" /\ type'[j] = type[j] /\ found'[j] = {}
               \/ /\ pc'[j] \in {"idle", "findReservations"}
                  /\ found'[j] = {}
                  /\ targets'[j] = {}
    BY <1>8, FindMembersEffect
  <2>3. ASSUME NEW k \in owed[j], f.res = k.res, type[j] = k.type
        PROVE  (\E p \in pushes : p.key = k) \/ (\E t \in TargetsOf(f, type[j]) : t.key = k)
    <3>1. CASE k \in sentNotifications
      BY <3>1 DEF CacheSound
    <3>2. CASE k \notin sentNotifications
      <4>1. [key |-> k, for |-> f.for] \in TargetsOf(f, type[j])
        BY <1>1, <1>2, <2>3, <3>2 DEF TargetsOf, NewKey
      <4> QED
        BY <4>1
    <3> QED
      BY <3>1, <3>2
  <2>4. Fine(j)'
    <3> SUFFICES ASSUME NEW k \in owed[j], ~ \E p \in pushes : p.key = k
                 PROVE  \/ \E g \in found'[j] : g.res = k.res /\ type'[j] = k.type
                        \/ \E t \in targets'[j] : t.key = k
      BY <1>1, <2>1 DEF tables
    <3>1. CASE \E t \in targets[j] : t.key = k
      BY <2>2, <3>1
    <3>2. CASE f.res = k.res /\ type[j] = k.type
      BY <2>2, <2>3, <3>2
    <3>3. CASE \E g \in found[j] \ {f} : g.res = k.res /\ type[j] = k.type
      BY <2>2, <3>3
    <3> QED
      BY <1>1, <3>1, <3>2, <3>3
  <2> QED
    BY <1>4, <2>1, <2>2, <2>4 DEF tables
<1>9. ASSUME NEW j \in Jobs, NEW t \in targets[j], Sent(j, t) \/ PushFails(j, t)
      PROVE  OwedServed'
  <2>1. Settle(j, t)
    BY <1>9 DEF Sent, PushFails
  <2>2. UNCHANGED <<tables, found>> /\ found[j] = {}
    BY <2>1 DEF Settle, TargetsAtType
  <2>3. /\ targets'[j] = targets[j] \ {t}
        /\ \A i \in Jobs \ {j} :
               pc'[i] = pc[i] /\ type'[i] = type[i] /\ targets'[i] = targets[i]
    BY <2>1, SettleEffect
  <2>4. /\ pushes \subseteq pushes'
        /\ owed'[j] \subseteq owed[j] /\ \A i \in Jobs \ {j} : owed'[i] = owed[i]
        /\ t.key \in owed'[j] => \E p \in pushes' : p.key = t.key
    <3>1. CASE Sent(j, t)
      <4>1. PushTo(j, t) \in pushes' /\ PushTo(j, t).key = t.key
        BY <3>1 DEF Sent, PushTo
      <4> QED
        BY <3>1, <4>1 DEF Sent
    <3>2. CASE PushFails(j, t)
      BY <3>2 DEF PushFails, TypeOK
    <3> QED
      BY <1>9, <3>1, <3>2
  <2>5. Fine(j)'
    BY <1>1, <2>2, <2>3, <2>4 DEF tables
  <2> QED
    BY <1>4, <2>2, <2>3, <2>4, <2>5 DEF tables
<1>10. ASSUME NEW j \in Jobs, QueryFails(j)
       PROVE  OwedServed'
  <2>1. /\ UNCHANGED <<tables, pushes, type>>
        /\ owed'[j] = {k \in owed[j] : k.type # type[j]}
        /\ \A i \in Jobs \ {j} : /\ owed'[i] = owed[i]
                                 /\ found'[i] = found[i]
                                 /\ targets'[i] = targets[i]
    BY <1>10 DEF QueryFails, TypeOK
  <2>2. \A t \in targets[j] : t.key.type = type[j]
    BY DEF TargetsAtType
  <2>3. Fine(j)'
    BY <1>1, <2>1, <2>2 DEF tables
  <2> QED
    BY <1>4, <2>1, <2>3 DEF tables
<1>11. CASE Crash
  BY <1>11 DEF Crash, OwedServed
<1>12. CASE Boot \/ UNCHANGED vars
  BY <1>3, <1>12 DEF Boot, vars, tables
<1> QED
  BY <1>5, <1>6, <1>7, <1>8, <1>9, <1>10, <1>11, <1>12 DEF Next, Advance, Rest

\* No time is asked for but by Create, before anything was found, and by CommitMove.
LEMMA TimesStep == TypeOK /\ TimesKept /\ [Next]_vars => TimesKept'
<1> SUFFICES ASSUME TypeOK, TimesKept, [Next]_vars, moves' = 0
             PROVE  TimesKept'
  BY DEF TimesKept
<1> DEFINE Fine(j) ==
        /\ \A f \in found[j] : f.for = datetime[f.res]
        /\ \A t \in targets[j] : t.for = datetime[t.key.res]
        /\ \A k \in owed[j] : datetime[k.res] = minute[j] + Timing[k.type]
    Timely == \A p \in pushes : p.for = datetime[p.key.res]
<1>1. moves = 0 /\ ~ \E m \in moving : CommitMove(m)
  <2>1. moves' = moves \/ moves' = moves + 1
    BY DEF Next, Minute, Advance, FindReservations, FindMembers, Sent, PushFails, Settle,
           QueryFails, Fault, Requested, Create, Join, ValidateMove, CommitMove, DropMoves,
           Crash, Boot, Rest, vars, tables
  <2>2. moves \in Nat
    BY BoundsAssumption DEF TypeOK
  <2> QED
    BY <2>1, <2>2 DEF CommitMove
<1>2. Timely /\ \A j \in Jobs : Fine(j)
  BY <1>1 DEF TimesKept, Due
<1>3. ASSUME Timely', \A j \in Jobs : Fine(j)'
      PROVE  TimesKept'
  BY <1>3 DEF TimesKept, Due
<1>4. ASSUME UNCHANGED <<datetime, minute>>, Timely', NEW j \in Jobs, Fine(j)',
             \A i \in Jobs \ {j} :
                 found'[i] = found[i] /\ targets'[i] = targets[i] /\ owed'[i] = owed[i]
      PROVE  TimesKept'
  <2>1. \A i \in Jobs \ {j} : Fine(i)'
    BY <1>2, <1>4
  <2> QED
    BY <1>3, <1>4, <2>1
<1>5. ASSUME UNCHANGED <<datetime, pushes, job>>
      PROVE  TimesKept'
  BY <1>2, <1>3, <1>5 DEF job
<1>6. CASE Requested
  <2>1. ASSUME NEW r \in Reservations, NEW u \in Users, NEW t \in Times, Create(r, u, t)
        PROVE  TimesKept'
    <3>1. \A s \in Reservations : datetime[s] # NoTime => datetime'[s] = datetime[s]
      BY <2>1 DEF Create, TypeOK
    <3>2. \A s \in Times : s # NoTime
      BY NoTimeAssumption DEF Times
    <3>3. \A j \in Jobs : \A i \in Types : minute[j] + Timing[i] # NoTime
      <4>1. ASSUME NEW j \in Jobs, NEW i \in Types
            PROVE  minute[j] + Timing[i] \in Int
        BY TimingAssumption, BoundsAssumption DEF TypeOK, Types, Times
      <4> QED
        BY <4>1, NoTimeAssumption
    <3>4. UNCHANGED <<pushes, job>>
      BY <2>1 DEF Create
    <3>5. Timely'
      <4>1. \A p \in pushes : p.key.res \in Reservations /\ p.for \in Times
        BY DEF TypeOK, Push, Key
      <4> QED
        BY <1>2, <3>1, <3>2, <3>4, <4>1
    <3>6. ASSUME NEW j \in Jobs
          PROVE  Fine(j)'
      <4>1. \A f \in found[j] : f.res \in Reservations /\ f.for \in Times
        BY DEF TypeOK, Found
      <4>2. \A s \in targets[j] : s.key.res \in Reservations /\ s.for \in Times
        BY DEF TypeOK, Target, Key
      <4>3. \A k \in owed[j] : k.res \in Reservations /\ k.type \in Types
        BY DEF TypeOK, Key
      <4>4. /\ \A f \in found[j] : f.for = datetime'[f.res]
            /\ \A s \in targets[j] : s.for = datetime'[s.key.res]
        BY <1>2, <3>1, <3>2, <4>1, <4>2
      <4>5. \A k \in owed[j] : datetime'[k.res] = minute[j] + Timing[k.type]
        <5>1. ASSUME NEW k \in owed[j]
              PROVE  datetime'[k.res] = minute[j] + Timing[k.type]
          <6>1. datetime[k.res] = minute[j] + Timing[k.type]
            BY <1>2
          <6>2. datetime[k.res] # NoTime
            BY <3>3, <4>3, <6>1
          <6> QED
            BY <3>1, <4>3, <6>1, <6>2
        <5> QED
          BY <5>1
      <4> QED
        BY <3>4, <4>4, <4>5 DEF job
    <3> QED
      BY <1>3, <3>5, <3>6
  <2>2. ASSUME NEW r \in Reservations, NEW u \in Users, Join(r, u)
        PROVE  TimesKept'
    BY <1>5, <2>2 DEF Join
  <2>3. CASE DropMoves \/ \E r \in Reservations, t \in Times : ValidateMove(r, t)
    BY <1>5, <2>3 DEF DropMoves, ValidateMove
  <2> QED
    BY <1>1, <1>6, <2>1, <2>2, <2>3 DEF Requested
<1>7. CASE Minute
  <2>1. CASE up
    <3>1. PICK j \in Jobs : Start(j)
      BY <1>7, <2>1 DEF Minute
    <3>2. /\ UNCHANGED <<datetime, pushes, found, targets>>
          /\ owed'[j] = {}
          /\ \A i \in Jobs \ {j} : minute'[i] = minute[i] /\ owed'[i] = owed[i]
      BY <1>7, <3>1 DEF Minute, Start, tables, TypeOK
    <3> QED
      BY <1>2, <1>3, <3>2
  <2>2. CASE ~ up
    BY <1>5, <1>7, <2>2 DEF Minute, tables
  <2> QED
    BY <2>1, <2>2
<1>8. ASSUME NEW j \in Jobs, FindReservations(j)
      PROVE  TimesKept'
  <2> DEFINE due == {r \in Reservations : Due(r, minute[j], type[j])}
             new == DueKeys(minute[j], type[j])
  <2>1. UNCHANGED <<datetime, minute, pushes, targets>>
    BY <1>8 DEF FindReservations, tables
  <2>2. owed'[j] = owed[j] \union new /\ \A i \in Jobs \ {j} : owed'[i] = owed[i]
    BY <1>8 DEF FindReservations, TypeOK
  <2>3. \A k \in new : datetime[k.res] = minute[j] + Timing[k.type]
    BY DEF DueKeys, Due
  <2>4. /\ \/ found' = found
           \/ found' = [found EXCEPT ![j] = {[res |-> r, for |-> datetime[r]] : r \in due}]
    BY <1>8 DEF FindReservations
  <2> HIDE DEF due, new
  <2>5. /\ \A f \in found'[j] : f.for = datetime[f.res]
        /\ \A i \in Jobs \ {j} : found'[i] = found[i]
    <3>1. CASE found' = found
      BY <1>2, <3>1
    <3>2. CASE found' = [found EXCEPT ![j] = {[res |-> r, for |-> datetime[r]] : r \in due}]
      BY <3>2 DEF TypeOK
    <3> QED
      BY <2>4, <3>1, <3>2
  <2>6. Timely' /\ Fine(j)'
    BY <1>2, <2>1, <2>2, <2>3, <2>5
  <2> QED
    BY <1>4, <2>1, <2>2, <2>5, <2>6
<1>9. ASSUME NEW j \in Jobs, FindMembers(j)
      PROVE  TimesKept'
  <2>1. UNCHANGED <<datetime, minute, pushes, owed>>
    BY <1>9 DEF FindMembers, tables
  <2>2. PICK f \in found[j] :
            /\ found'[j] = found[j] \ {f}
            /\ targets'[j] = targets[j] \union TargetsOf(f, type[j])
            /\ \A i \in Jobs \ {j} : found'[i] = found[i] /\ targets'[i] = targets[i]
    BY <1>9, FindMembersEffect
  <2>3. \A t \in TargetsOf(f, type[j]) : t.for = datetime[t.key.res]
    BY <1>2 DEF TargetsOf
  <2>4. Timely' /\ Fine(j)'
    BY <1>2, <2>1, <2>2, <2>3
  <2> QED
    BY <1>4, <2>1, <2>2, <2>4
<1>10. ASSUME NEW j \in Jobs, NEW t \in targets[j], Sent(j, t) \/ PushFails(j, t)
       PROVE  TimesKept'
  <2>1. Settle(j, t)
    BY <1>10 DEF Sent, PushFails
  <2>2. UNCHANGED <<datetime, minute, found>>
    BY <2>1 DEF Settle, tables
  <2>3. /\ targets'[j] = targets[j] \ {t}
        /\ \A i \in Jobs \ {j} : targets'[i] = targets[i]
    BY <2>1, SettleEffect
  <2>4. owed'[j] \subseteq owed[j] /\ \A i \in Jobs \ {j} : owed'[i] = owed[i]
    BY <1>10 DEF Sent, PushFails, TypeOK
  <2>5. Timely'
    <3>1. pushes' \subseteq pushes \union {PushTo(j, t)}
      BY <1>10 DEF Sent, PushFails
    <3>2. PushTo(j, t).for = datetime[PushTo(j, t).key.res]
      BY <1>2 DEF PushTo
    <3> HIDE DEF Fine
    <3> QED
      BY <1>2, <2>2, <3>1, <3>2
  <2>6. Fine(j)'
    BY <1>2, <2>2, <2>3, <2>4
  <2> QED
    BY <1>4, <2>2, <2>3, <2>4, <2>5, <2>6
<1>11. ASSUME NEW j \in Jobs, QueryFails(j)
       PROVE  TimesKept'
  <2>1. /\ UNCHANGED <<datetime, minute, pushes>>
        /\ found'[j] = {} /\ targets'[j] = {} /\ owed'[j] \subseteq owed[j]
        /\ \A i \in Jobs \ {j} :
               found'[i] = found[i] /\ targets'[i] = targets[i] /\ owed'[i] = owed[i]
    BY <1>11 DEF QueryFails, tables, TypeOK
  <2>2. Timely' /\ Fine(j)'
    BY <1>2, <2>1
  <2> QED
    BY <1>4, <2>1, <2>2
<1>12. CASE Crash
  <2>1. PICK delivered \in SUBSET Unanswered : pushes' = pushes \union delivered
    BY <1>12 DEF Crash
  <2>2. ASSUME NEW p \in Unanswered
        PROVE  p.for = datetime[p.key.res]
    <3>1. PICK j \in Jobs : \E t \in targets[j] : p = PushTo(j, t)
      BY DEF Unanswered
    <3>2. PICK t \in targets[j] : p = PushTo(j, t)
      BY <3>1
    <3> QED
      BY <1>2, <3>2 DEF PushTo
  <2>3. UNCHANGED datetime
    BY <1>12 DEF Crash, tables
  <2>4. Timely'
    BY <1>2, <2>1, <2>2, <2>3
  <2>5. ASSUME NEW j \in Jobs
        PROVE  Fine(j)'
    BY <1>12 DEF Crash
  <2> QED
    BY <1>3, <2>4, <2>5
<1>13. CASE Boot \/ UNCHANGED vars
  BY <1>5, <1>13 DEF Boot, vars, tables
<1> QED
  BY <1>6, <1>7, <1>8, <1>9, <1>10, <1>11, <1>12, <1>13 DEF Next, Advance, Rest

\* What the other theorems rest on: overlapping jobs are of different minutes, their
\* targets are of the type they look for, and pushes are made at their time.
THEOREM Invariance == Spec => []IInv
<1>1. Init => IInv
  BY TypeInit DEF Init, IInv, MinutesDiffer, TargetsAtType, PushesOnTime, CacheSound,
                  RowsFollowReservation, OwedServed, TimesKept
<1> QED
  BY <1>1, TypeStep, MinutesStep, TargetsStep, PushesStep, CacheStep, RowsStep, OwedStep,
     TimesStep, PTL DEF Spec, IInv

LEMMA Cancellation ==
    ASSUME NEW a \in Int, NEW b \in Int, NEW c \in Int, a + c = b + c
    PROVE  a = b
OBVIOUS

\* For each time a reservation is set to, nobody receives a notification twice,
\* whatever overlaps, fails, moves, restarts or is forgotten.
THEOREM PushedOnce == Spec => []OncePerTime
<1>1. IInv => OncePerTime
  <2> SUFFICES ASSUME IInv, NEW p \in pushes, NEW q \in pushes, p.key = q.key, p.for = q.for
               PROVE  p = q
    BY DEF OncePerTime
  <2>1. p \in Push /\ q \in Push
    BY DEF IInv, TypeOK
  <2>2. p.minute + Timing[p.key.type] = q.minute + Timing[p.key.type]
    BY DEF IInv, PushesOnTime
  <2>3. p.minute \in Int /\ q.minute \in Int /\ Timing[p.key.type] \in Int
    <3>1. p.key.type \in DOMAIN Timing
      BY <2>1 DEF Push, Key, Types
    <3>2. Timing[p.key.type] \in Int
      BY <3>1, TimingAssumption
    <3> QED
      BY <2>1, <3>2, BoundsAssumption DEF Push, Times
  <2>4. p.minute = q.minute
    BY <2>2, <2>3, Cancellation
  <2> QED
    BY <2>1, <2>4 DEF Push
<1> QED
  BY <1>1, Invariance, PTL

\* What the cache holds has been delivered: it never suppresses a first notification.
THEOREM CacheHonest == Spec => []CacheSound
<1>1. IInv => CacheSound
  BY DEF IInv
<1> QED
  BY <1>1, Invariance, PTL

\* A job that has ended has forgotten nobody: whoever it found due has been pushed the
\* notification, by this job as long as no reservation has been moved, unless the push
\* to them or a query for their type failed.
THEOREM NoneForgotten == Spec => []NobodyForgotten
<1>1. IInv => NobodyForgotten
  <2> SUFFICES ASSUME IInv, NEW j \in Jobs, pc[j] = "idle", NEW k \in owed[j]
               PROVE  \E p \in pushes : p.key = k /\ (moves = 0 => p.minute = minute[j])
    BY DEF NobodyForgotten
  <2>1. found[j] = {} /\ targets[j] = {}
    BY DEF IInv, TargetsAtType
  <2>2. PICK p \in pushes : p.key = k
    BY <2>1 DEF IInv, OwedServed
  <2>3. ASSUME moves = 0
        PROVE  p.minute = minute[j]
    <3>1. p.for = datetime[k.res] /\ datetime[k.res] = minute[j] + Timing[k.type]
      BY <2>2, <2>3 DEF IInv, TimesKept, Due
    <3>2. p.for = p.minute + Timing[k.type]
      BY <2>2 DEF IInv, PushesOnTime
    <3>3. p.minute \in Int /\ minute[j] \in Int
      BY BoundsAssumption DEF IInv, TypeOK, Push, Times
    <3>4. Timing[k.type] \in Int
      BY TimingAssumption DEF IInv, TypeOK, Key, Types
    <3> QED
      BY <3>1, <3>2, <3>3, <3>4, Cancellation
  <2> QED
    BY <2>2, <2>3
<1> QED
  BY <1>1, Invariance, PTL

\* Only requests change the time of a reservation, and what edits have planned for it;
\* a crash gives the plans up.
LEMMA SchedulesStay ==
    ASSUME [Next]_vars, ~ Requested, ~ Minute, ~ Crash
    PROVE  UNCHANGED <<now, datetime, moving>>
<1>1. ASSUME NEW j \in Jobs, NEW t, Settle(j, t)
      PROVE  UNCHANGED <<now, datetime, moving>>
  BY <1>1 DEF Settle, tables
<1> QED
  BY <1>1 DEF Next, Advance, FindReservations, FindMembers, Sent, PushFails, QueryFails,
              Boot, Rest, vars, tables

\* The time of each reservation changes as Schedule allows, whatever the jobs read in
\* between: the moves this module is checked with are those that edits make.
THEOREM SchedulesFollowed ==
    ASSUME NEW r \in Reservations
    PROVE  Spec => Schedules(r)!Spec
<1> DEFINE planned == {m.to : m \in {m \in moving : m.res = r}}
           at == datetime[r]
<1>1. Init => Schedules(r)!Init
  BY DEF Init, Schedules!Init
<1>2. TypeOK /\ [Next]_vars => [Schedules(r)!Next]_(Schedules(r)!vars)
  <2> SUFFICES ASSUME TypeOK, [Next]_vars
               PROVE  Schedules(r)!Next \/ UNCHANGED <<now, at, planned>>
    BY DEF Schedules!vars
  <2> USE DEF TypeOK
  <2>1. ASSUME NEW s \in Reservations, NEW u \in Users, NEW t \in Times, Create(s, u, t)
        PROVE  Schedules(r)!Next \/ UNCHANGED <<now, at, planned>>
    <3>1. CASE s = r
      <4>1. Schedules(r)!Open(t)
        BY <2>1, <3>1 DEF Create, Schedules!Open
      <4> QED
        BY <4>1 DEF Schedules!Next, Schedules!Times, Times
    <3>2. CASE s # r
      BY <2>1, <3>2 DEF Create
    <3> QED
      BY <3>1, <3>2
  <2>2. ASSUME NEW s \in Reservations, NEW t \in Times, ValidateMove(s, t)
        PROVE  Schedules(r)!Next \/ UNCHANGED <<now, at, planned>>
    <3>1. moving' = moving \union {[res |-> s, to |-> t]} /\ UNCHANGED <<now, datetime>>
      BY <2>2 DEF ValidateMove
    <3>2. CASE s = r
      <4>1. planned' = planned \union {t}
        <5> DEFINE new == [res |-> s, to |-> t]
        <5>1. new.res = s /\ new.to = t /\ moving' = moving \union {new}
          BY <3>1
        <5> HIDE DEF new
        <5> QED
          BY <3>2, <5>1
      <4>2. Schedules(r)!Plan(t)
        BY <2>2, <3>1, <3>2, <4>1 DEF ValidateMove, Schedules!Plan
      <4> QED
        BY <4>2 DEF Schedules!Next, Schedules!Times, Times
    <3>3. CASE s # r
      <4>1. planned' = planned
        BY <3>1, <3>3
      <4> QED
        BY <3>1, <4>1
    <3> QED
      BY <3>2, <3>3
  <2>3. ASSUME NEW m \in moving, CommitMove(m)
        PROVE  Schedules(r)!Next \/ UNCHANGED <<now, at, planned>>
    <3>1. m.res \in Reservations /\ m.to \in Times
      BY DEF Move
    <3>2. /\ datetime' = [datetime EXCEPT ![m.res] = m.to]
          /\ moving' \in {moving, moving \ {m}}
          /\ UNCHANGED now
      BY <2>3 DEF CommitMove
    <3>3. CASE m.res = r
      <4>1. m.to \in planned
        BY <3>3
      <4>2. planned' \in {planned, planned \ {m.to}}
        <5>1. CASE moving' = moving
          BY <5>1
        <5>2. CASE moving' = moving \ {m}
          <6>1. \A k \in moving : k.res = r /\ k.to = m.to => k = m
            BY <3>3 DEF Move
          <6> QED
            BY <3>3, <5>2, <6>1
        <5> QED
          BY <3>2, <5>1, <5>2
      <4>3. Schedules(r)!Apply(m.to)
        BY <3>1, <3>2, <3>3, <4>1, <4>2 DEF Schedules!Apply
      <4> QED
        BY <3>1, <4>3 DEF Schedules!Next, Schedules!Times, Times
    <3>4. CASE m.res # r
      <4>1. at' = at
        BY <3>1, <3>2, <3>4
      <4>2. planned' \in SUBSET planned
        BY <3>2
      <4>3. Schedules(r)!GiveUp
        BY <3>2, <4>1, <4>2 DEF Schedules!GiveUp
      <4> QED
        BY <4>3 DEF Schedules!Next
    <3> QED
      BY <3>3, <3>4
  <2>4. CASE DropMoves \/ Crash
    <3>1. planned' \in SUBSET planned /\ UNCHANGED <<now, at>>
      BY <2>4 DEF DropMoves, Crash
    <3>2. Schedules(r)!GiveUp
      BY <3>1 DEF Schedules!GiveUp
    <3> QED
      BY <3>2 DEF Schedules!Next
  <2>5. CASE Minute
    BY <2>5 DEF Minute, tables, Schedules!Next, Schedules!Tick
  <2>6. ASSUME NEW s \in Reservations, NEW u \in Users, Join(s, u)
        PROVE  UNCHANGED <<now, datetime, moving>>
    BY <2>6 DEF Join
  <2> QED
    BY <2>1, <2>2, <2>3, <2>4, <2>5, <2>6, SchedulesStay DEF Requested
<1> QED
  BY <1>1, <1>2, Invariance, PTL DEF Spec, IInv, Schedules!Spec
===============================================================================
