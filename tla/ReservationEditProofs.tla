------------------------ MODULE ReservationEditProofs ------------------------
(***************************************************************************)
(* Theorems about ReservationEdit, for any number of requests in service,  *)
(* any titles and times, and any number of edits, pictures and faults.     *)
(***************************************************************************)
EXTENDS ReservationEdit, FiniteSetTheorems, TLAPS

-------------------------------------------------------------------------------
(* Type correctness *)

LEMMA AlbumType ==
    ASSUME NEW n \in 0..MaxEdits, NEW q \in Requests \union {NoRequest},
           NEW wrote \in BOOLEAN, NEW size \in 0..MaxImages
    PROVE  AlbumOf(n, q, wrote, size) \subseteq Album
BY BoundsAssumption DEF AlbumOf, Album

LEMMA FieldsType ==
    ASSUME NEW r \in Row, NEW b \in Body
    PROVE  UpdateFields(r, b) \in Row
BY DEF UpdateFields, Row, Body

LEMMA TypeInit == Init => TypeOK
BY BoundsAssumption, NoUserAssumption DEF Init, TypeOK, Outcomes, Times, InTransaction

LEMMA FinishType ==
    ASSUME TypeOK, NEW q \in Requests, NEW outcome \in Outcomes, Finish(q, outcome)
    PROVE  /\ pc' \in [Requests -> {"idle", "count"} \union InTransaction]
           /\ edit' \in [Requests -> 0..MaxEdits]
           /\ body' \in [Requests -> Body \union {NoBody}]
           /\ entity' \in [Requests -> Row \union {NoRow}]
           /\ diff' \in [Requests -> SUBSET Columns]
           /\ victims' \in [Requests -> SUBSET Album]
           /\ answer' \in [Requests -> Outcomes]
           /\ \A p \in Requests : pc'[p] \in InTransaction =>
                  host # NoUser /\ body'[p] \in Body /\ entity'[p] \in Row
<1> USE BoundsAssumption DEF Finish, Goto
<1>1. pc' \in [Requests -> {"idle", "count"} \union InTransaction]
  BY DEF TypeOK
<1>2. edit' \in [Requests -> 0..MaxEdits]
  BY DEF TypeOK
<1>3. body' \in [Requests -> Body \union {NoBody}]
  BY DEF TypeOK
<1>4. entity' \in [Requests -> Row \union {NoRow}]
  BY DEF TypeOK
<1>5. diff' \in [Requests -> SUBSET Columns]
  BY DEF TypeOK
<1>6. victims' \in [Requests -> SUBSET Album]
  BY DEF TypeOK
<1>7. answer' \in [Requests -> Outcomes]
  BY DEF TypeOK
<1>8. \A p \in Requests : pc'[p] \in InTransaction =>
          host # NoUser /\ body'[p] \in Body /\ entity'[p] \in Row
  BY DEF TypeOK, InTransaction
<1> QED
  BY <1>1, <1>2, <1>3, <1>4, <1>5, <1>6, <1>7, <1>8

LEMMA PublishType ==
    ASSUME TypeOK, NEW q \in Requests, Publish(q)
    PROVE  row' \in Row /\ images' \in SUBSET Album /\ crossed' \in SUBSET Requests
<1>1. row \in Row /\ entity[q] \in Row /\ body[q] \in Body
  BY DEF TypeOK, Publish, InTransaction
<1>2. row' \in Row
  BY <1>1 DEF Publish, Row
<1>3. ASSUME body[q].images # Undefined
      PROVE  AlbumOf(edit[q], q, diff[q] # {}, body[q].images) \subseteq Album
  <2>1. body[q].images \in 0..MaxImages
    BY <1>1, <1>3 DEF Body
  <2> QED
    BY <2>1, AlbumType DEF TypeOK
<1>4. crossed' \in SUBSET Requests
  BY DEF Publish, Cross, TypeOK
<1> QED
  BY <1>2, <1>3, <1>4 DEF Publish, TypeOK

LEMMA TypeStep == TypeOK /\ [Next]_vars => TypeOK'
<1> SUFFICES ASSUME TypeOK, [Next]_vars
             PROVE  TypeOK'
  OBVIOUS
<1> USE BoundsAssumption DEF committed, private
<1>1. CASE Tick
  BY <1>1 DEF Tick, TypeOK, Times
<1>2. ASSUME NEW u \in Users, NEW r \in Row, NEW size \in 0..MaxImages, Create(u, r, size)
      PROVE  TypeOK'
  <2>1. AlbumOf(0, NoRequest, TRUE, size) \subseteq Album
    <3>1. 0 \in 0..MaxEdits /\ NoRequest \in Requests \union {NoRequest} /\ TRUE \in BOOLEAN
      OBVIOUS
    <3> QED
      BY <3>1, AlbumType
  <2> QED
    BY <1>2, <2>1, NoUserAssumption DEF Create, TypeOK
<1>3. ASSUME NEW q \in Requests, Refuse(q)
      PROVE  TypeOK'
  <2>1. \A u \in Users, b \in Body : Verdict(u, b) \in Outcomes
    BY DEF Verdict, Outcomes
  <2>2. PICK outcome \in {Verdict(u, b) : u \in Users, b \in Body} : Finish(q, outcome)
    BY <1>3 DEF Refuse
  <2>3. outcome \in Outcomes
    BY <2>1
  <2> QED
    BY <1>3, <2>2, <2>3, FinishType DEF Refuse, TypeOK
<1>4. ASSUME NEW q \in Requests, NEW u \in Users, NEW b \in Body, Accept(q, u, b)
      PROVE  TypeOK'
  <2>1. host # NoUser /\ row \in Row
    BY <1>4 DEF Accept, Verdict, TypeOK
  <2>2. UpdateFields(row, b) \in Row
    BY <2>1, FieldsType
  <2> QED
    BY <1>4, <2>1, <2>2 DEF Accept, Goto, TypeOK, InTransaction, Outcomes
<1>5. ASSUME NEW q \in Requests, Reload(q)
      PROVE  TypeOK'
  <2>1. pc' \in [Requests -> {"idle", "count"} \union InTransaction]
    BY <1>5 DEF Reload, Goto, AfterSave, TypeOK, InTransaction
  <2>2. diff' \in [Requests -> SUBSET Columns]
    BY <1>5 DEF Reload, TypeOK
  <2> QED
    BY <1>5, <2>1, <2>2 DEF Reload, Goto, AfterSave, TypeOK, InTransaction
<1>6. ASSUME NEW q \in Requests, Update(q) \/ DeleteImages(q) \/ InsertImages(q)
      PROVE  TypeOK'
  BY <1>6 DEF Update, DeleteImages, InsertImages, Goto, AfterSave, TypeOK, InTransaction
<1>7. ASSUME NEW q \in Requests, SnapshotImages(q)
      PROVE  TypeOK'
  BY <1>7 DEF SnapshotImages, Goto, TypeOK, InTransaction
<1>8. ASSUME NEW q \in Requests, Commit(q)
      PROVE  TypeOK'
  <2>1. row' \in Row /\ images' \in SUBSET Album /\ crossed' \in SUBSET Requests
    BY <1>8, PublishType DEF Commit
  <2> QED
    BY <1>8, <2>1 DEF Commit, Publish, Goto, TypeOK, InTransaction
<1>9. ASSUME NEW q \in Requests, CountMembers(q)
      PROVE  TypeOK'
  <2>1. "updated" \in Outcomes
    BY DEF Outcomes
  <2> QED
    BY <1>9, <2>1, FinishType DEF CountMembers, TypeOK
<1>10. ASSUME NEW q \in Requests, Fail(q)
       PROVE  TypeOK'
  <2>1. "ServerError" \in Outcomes
    BY DEF Outcomes
  <2> QED
    BY <1>10, <2>1, FinishType DEF Fail, Fault, TypeOK
<1>11. ASSUME NEW q \in Requests, LoseAcknowledgement(q)
       PROVE  TypeOK'
  <2>1. row' \in Row /\ images' \in SUBSET Album /\ crossed' \in SUBSET Requests
    BY <1>11, PublishType DEF LoseAcknowledgement
  <2>2. "ServerError" \in Outcomes
    BY DEF Outcomes
  <2> QED
    BY <1>11, <2>1, <2>2, FinishType DEF LoseAcknowledgement, Publish, Fault, TypeOK
<1>12. CASE Restart
  BY <1>12 DEF Restart, Fault, TypeOK, InTransaction, Outcomes
<1>13. CASE UNCHANGED vars
  BY <1>13 DEF vars, TypeOK
<1> QED
  BY <1>1, <1>2, <1>3, <1>4, <1>5, <1>6, <1>7, <1>8, <1>9, <1>10, <1>11, <1>12, <1>13
     DEF Next, Arrive, Advance

\* Every variable of ReservationEdit keeps its type, and a transaction always has
\* its request, its entity and an existing reservation.
THEOREM TypeCorrect == Spec => []TypeOK
BY TypeInit, TypeStep, PTL DEF Spec

-------------------------------------------------------------------------------
(* The inductive invariant *)

\* A step that commits nothing and brings no request to its DELETE or to the row
\* keeps the invariant: requests go on from where they were, or end.
LEMMA Harmless ==
    ASSUME TypeOK, AlbumsOrdered, UNCHANGED committed,
           \A p \in Requests :
               /\ HoldsRow(p)' => HoldsRow(p)
               /\ (pc[p] \in {"delete", "insert"} \/ HasDeleted(p))' =>
                      /\ pc[p] \in {"delete", "insert"} \/ HasDeleted(p)
                      /\ victims'[p] = victims[p]
                      /\ diff'[p] = diff[p]
    PROVE  AlbumsOrdered'
<1> USE DEF AlbumsOrdered, committed
<1>1. RowExclusive'
  BY DEF RowExclusive
<1>2. OwnAlbumsSeen'
  BY DEF OwnAlbumsSeen
<1>3. WritersAlbumsSeen'
  BY DEF WritersAlbumsSeen
<1>4. (host = NoUser => images = {})' /\ OneAlbumEach' /\ WritersReplace'
  BY DEF OneAlbumEach, WritersReplace
<1> QED
  BY <1>1, <1>2, <1>3, <1>4

\* A request that ends harms nobody.
LEMMA FinishHarmless ==
    ASSUME TypeOK, NEW q \in Requests, NEW outcome, Finish(q, outcome), NEW p \in Requests
    PROVE  /\ HoldsRow(p)' => HoldsRow(p)
           /\ (pc[p] \in {"delete", "insert"} \/ HasDeleted(p))' =>
                  /\ pc[p] \in {"delete", "insert"} \/ HasDeleted(p)
                  /\ victims'[p] = victims[p]
                  /\ diff'[p] = diff[p]
BY DEF TypeOK, Finish, Goto, HoldsRow, HasDeleted

\* Only one album is new when q commits, the one it inserted itself.
LEMMA PublishedAlbums ==
    ASSUME NEW q \in Requests, Publish(q), NEW a \in images'
    PROVE  \/ a \in images /\ (body[q].images # Undefined => a \notin victims[q])
           \/ /\ body[q].images # Undefined
              /\ images' = (images \ victims[q]) \union {a}
              /\ a.by = q
              /\ a.wrote = (diff[q] # {})
BY DEF Publish, AlbumOf

\* The commit of q, after which q is no longer in its transaction.
LEMMA PublishStep ==
    ASSUME TypeOK, AlbumsOrdered, NEW q \in Requests, Publish(q), host # NoUser,
           pc'[q] \in {"idle", "count"},
           \A p \in Requests \ {q} :
               /\ pc'[p] = pc[p]
               /\ body'[p] = body[p]
               /\ diff'[p] = diff[p]
               /\ victims'[p] = victims[p]
    PROVE  AlbumsOrdered'
<1> DEFINE Seen(p) == pc[p] \in {"delete", "insert"} \/ HasDeleted(p)
<1> USE DEF AlbumsOrdered
<1>1. RowExclusive'
  BY DEF RowExclusive, HoldsRow
<1>2. ASSUME NEW p \in Requests, (pc[p] \in {"delete", "insert"} \/ HasDeleted(p))'
      PROVE  p # q /\ Seen(p)
  BY <1>2 DEF HasDeleted
<1>3. OwnAlbumsSeen'
  <2> SUFFICES ASSUME NEW p \in Requests, p # q, Seen(p),
                      NEW a \in images', a.by \in {p, NoRequest}
               PROVE  a \in victims'[p]
    BY <1>2 DEF OwnAlbumsSeen
  <2>1. a \in images
    BY PublishedAlbums, NoRequestAssumption
  <2> QED
    BY <2>1 DEF OwnAlbumsSeen
<1>4. body[q].images # Undefined => HasDeleted(q)
  BY DEF Publish, HasDeleted
<1>5. OneAlbumEach'
  <2> SUFFICES ASSUME NEW a \in images', NEW b \in images', a.by = b.by \/ a.by = NoRequest
               PROVE  a = b
    BY DEF OneAlbumEach
  <2>1. CASE a \in images /\ b \in images
    BY <2>1 DEF OneAlbumEach
  <2>2. CASE a \notin images
    BY <2>2, <1>4, PublishedAlbums, NoRequestAssumption DEF OwnAlbumsSeen
  <2>3. CASE a \in images /\ b \notin images
    BY <2>3, <1>4, PublishedAlbums, NoRequestAssumption DEF OwnAlbumsSeen
  <2> QED
    BY <2>1, <2>2, <2>3
<1>6. diff[q] # {} => HoldsRow(q)
  BY DEF Publish, HoldsRow
<1>7. WritersAlbumsSeen'
  <2> SUFFICES ASSUME NEW p \in Requests, p # q, Seen(p), diff[p] # {},
                      NEW a \in images', a.wrote
               PROVE  a \in victims'[p]
    BY <1>2 DEF WritersAlbumsSeen
  <2>1. HoldsRow(p)
    BY DEF HoldsRow, HasDeleted
  <2>2. a \in images
    BY <2>1, <1>6, PublishedAlbums DEF RowExclusive
  <2> QED
    BY <2>2 DEF WritersAlbumsSeen
<1>8. WritersReplace'
  <2> SUFFICES ASSUME NEW a \in images', NEW b \in images', a.wrote, b.wrote
               PROVE  a = b
    BY DEF WritersReplace
  <2>1. CASE a \in images /\ b \in images
    BY <2>1 DEF WritersReplace
  <2>2. ASSUME NEW c \in images', NEW d \in images', c.wrote, d.wrote, c \notin images
        PROVE  c = d
    <3>1. /\ body[q].images # Undefined
          /\ images' = (images \ victims[q]) \union {c}
          /\ diff[q] # {}
      BY <2>2, PublishedAlbums
    <3>2. \A e \in images : e.wrote => e \in victims[q]
      BY <3>1, <1>4 DEF WritersAlbumsSeen
    <3> QED
      BY <2>2, <3>1, <3>2
  <2>3. CASE a \notin images
    BY <2>2, <2>3
  <2>4. CASE b \notin images
    BY <2>2, <2>4
  <2> QED
    BY <2>1, <2>3, <2>4
<1> QED
  BY <1>1, <1>3, <1>5, <1>7, <1>8 DEF Publish

LEMMA AlbumsStep == TypeOK /\ AlbumsOrdered /\ [Next]_vars => AlbumsOrdered'
<1> SUFFICES ASSUME TypeOK, AlbumsOrdered, [Next]_vars
             PROVE  AlbumsOrdered'
  OBVIOUS
<1> USE DEF committed, private
<1>1. CASE Tick
  <2>1. UNCHANGED <<committed, pc, body, diff, victims>>
    BY <1>1 DEF Tick
  <2> QED
    BY <2>1, Harmless DEF HoldsRow, HasDeleted
<1>2. ASSUME NEW u \in Users, NEW r \in Row, NEW size \in 0..MaxImages, Create(u, r, size)
      PROVE  AlbumsOrdered'
  <2>1. \A q \in Requests : pc[q] \notin InTransaction
    BY <1>2 DEF Create, TypeOK
  <2>2. \A a, b \in images' : a = b
    BY <1>2 DEF Create, AlbumOf
  <2>3. host' # NoUser /\ pc' = pc
    BY <1>2, NoUserAssumption DEF Create
  <2> QED
    BY <2>1, <2>2, <2>3
       DEF AlbumsOrdered, RowExclusive, OwnAlbumsSeen, OneAlbumEach, WritersAlbumsSeen,
           WritersReplace, HoldsRow, HasDeleted, InTransaction
<1>3. ASSUME NEW q \in Requests, Refuse(q)
      PROVE  AlbumsOrdered'
  <2>1. PICK outcome : Finish(q, outcome)
    BY <1>3 DEF Refuse
  <2>2. UNCHANGED committed
    BY <1>3 DEF Refuse
  <2> QED
    BY <2>1, <2>2, FinishHarmless, Harmless
<1>4. ASSUME NEW q \in Requests, NEW u \in Users, NEW b \in Body, Accept(q, u, b)
      PROVE  AlbumsOrdered'
  BY <1>4, Harmless DEF Accept, Goto, TypeOK, HoldsRow, HasDeleted
<1>5. ASSUME NEW q \in Requests, Reload(q)
      PROVE  AlbumsOrdered'
  <2>10. PICK D : diff'[q] = D /\ pc'[q] = (IF D = {} THEN AfterSave(q) ELSE "update")
    BY <1>5 DEF Reload, Goto, TypeOK
  <2>11. UNCHANGED body
    BY <1>5 DEF Reload
  <2>1. pc'[q] = "update" \/ (diff'[q] = {} /\ pc'[q] \in {"snapshot", "commit"})
    BY <2>10 DEF AfterSave
  <2>2. pc'[q] = "commit" => body'[q].images = Undefined
    BY <2>10, <2>11 DEF AfterSave
  <2>3. ~ HoldsRow(q)' /\ ~ (pc[q] \in {"delete", "insert"} \/ HasDeleted(q))'
    BY <2>1, <2>2 DEF HoldsRow, HasDeleted
  <2>4. UNCHANGED committed
    BY <1>5 DEF Reload
  <2>5. \A p \in Requests \ {q} : /\ pc'[p] = pc[p]
                                  /\ body'[p] = body[p]
                                  /\ diff'[p] = diff[p]
                                  /\ victims'[p] = victims[p]
    BY <1>5 DEF Reload, Goto, TypeOK
  <2> QED
    BY <2>3, <2>4, <2>5, Harmless DEF HoldsRow, HasDeleted
<1>6. ASSUME NEW q \in Requests, Update(q)
      PROVE  AlbumsOrdered'
  <2>1. RowExclusive'
    BY <1>6 DEF Update, Goto, AfterSave, TypeOK, RowExclusive, HoldsRow
  <2>2. \A p \in Requests : (pc[p] \in {"delete", "insert"} \/ HasDeleted(p))' =>
                              pc[p] \in {"delete", "insert"} \/ HasDeleted(p)
    BY <1>6 DEF Update, Goto, AfterSave, TypeOK, HasDeleted
  <2>3. UNCHANGED <<host, images, diff, victims>>
    BY <1>6 DEF Update
  <2> QED
    BY <2>1, <2>2, <2>3
       DEF AlbumsOrdered, OwnAlbumsSeen, OneAlbumEach, WritersAlbumsSeen, WritersReplace
<1>7. ASSUME NEW q \in Requests, SnapshotImages(q)
      PROVE  AlbumsOrdered'
  <2>1. victims'[q] = images
    BY <1>7 DEF SnapshotImages, TypeOK
  <2>2. \A p \in Requests \ {q} : /\ pc'[p] = pc[p]
                                  /\ victims'[p] = victims[p]
    BY <1>7 DEF SnapshotImages, Goto, TypeOK
  <2>3. UNCHANGED <<host, images, body, diff>>
    BY <1>7 DEF SnapshotImages
  <2>4. RowExclusive'
    BY <1>7 DEF SnapshotImages, Goto, AlbumsOrdered, TypeOK, RowExclusive, HoldsRow
  <2> QED
    BY <2>1, <2>2, <2>3, <2>4
       DEF AlbumsOrdered, OwnAlbumsSeen, OneAlbumEach, WritersAlbumsSeen, WritersReplace, HasDeleted
<1>8. ASSUME NEW q \in Requests, DeleteImages(q) \/ InsertImages(q)
      PROVE  AlbumsOrdered'
  <2>1. pc[q] \in {"delete", "insert"} /\ pc'[q] \in {"insert", "commit"}
    BY <1>8 DEF DeleteImages, InsertImages, Goto, TypeOK
  <2>2. \A p \in Requests \ {q} : pc'[p] = pc[p]
    BY <1>8 DEF DeleteImages, InsertImages, Goto, TypeOK
  <2>3. UNCHANGED <<committed, body, diff, victims>>
    BY <1>8 DEF DeleteImages, InsertImages
  <2> QED
    BY <2>1, <2>2, <2>3, Harmless DEF HoldsRow, HasDeleted
<1>9. ASSUME NEW q \in Requests, Commit(q)
      PROVE  AlbumsOrdered'
  <2>1. host # NoUser
    BY <1>9 DEF Commit, Publish, TypeOK, InTransaction
  <2>2. /\ Publish(q)
        /\ pc'[q] = "count"
        /\ \A p \in Requests \ {q} : pc'[p] = pc[p]
        /\ UNCHANGED <<body, diff, victims>>
    BY <1>9 DEF Commit, Goto, TypeOK
  <2> QED
    BY <2>1, <2>2, PublishStep
<1>10. ASSUME NEW q \in Requests, CountMembers(q) \/ Fail(q)
       PROVE  AlbumsOrdered'
  <2>1. PICK outcome : Finish(q, outcome)
    BY <1>10 DEF CountMembers, Fail
  <2>2. UNCHANGED committed
    BY <1>10 DEF CountMembers, Fail
  <2> QED
    BY <2>1, <2>2, FinishHarmless, Harmless
<1>11. ASSUME NEW q \in Requests, LoseAcknowledgement(q)
       PROVE  AlbumsOrdered'
  <2>1. host # NoUser
    BY <1>11 DEF LoseAcknowledgement, Publish, TypeOK, InTransaction
  <2>2. /\ Publish(q)
        /\ pc'[q] = "idle"
        /\ \A p \in Requests \ {q} : /\ pc'[p] = pc[p]
                                      /\ body'[p] = body[p]
                                      /\ diff'[p] = diff[p]
                                      /\ victims'[p] = victims[p]
    BY <1>11 DEF LoseAcknowledgement, Finish, Goto, TypeOK
  <2> QED
    BY <2>1, <2>2, PublishStep
<1>12. CASE Restart
  <2>1. UNCHANGED committed /\ \A p \in Requests : pc'[p] = "idle"
    BY <1>12 DEF Restart
  <2> QED
    BY <2>1, Harmless DEF HoldsRow, HasDeleted
<1>13. CASE UNCHANGED vars
  <2>1. UNCHANGED <<committed, pc, body, diff, victims>>
    BY <1>13 DEF vars
  <2> QED
    BY <2>1, Harmless DEF HoldsRow, HasDeleted
<1> QED
  BY <1>1, <1>2, <1>3, <1>4, <1>5, <1>6, <1>7, <1>8, <1>9, <1>10, <1>11, <1>12, <1>13
     DEF Next, Arrive, Advance

-------------------------------------------------------------------------------
(* The columns an edit writes *)

\* A request no step brought further than to its save, or out of its transaction,
\* keeps an entity that is current, as long as the row stays what it was.
LEMMA EntitiesStay ==
    ASSUME TypeOK, EntitiesCurrent,
           \A p \in Requests : p \notin crossed' /\ pc'[p] \in InTransaction =>
               /\ p \notin crossed
               /\ pc[p] \in InTransaction
               /\ pc'[p] = "reload" <=> pc[p] = "reload"
               /\ pc'[p] = "reload" => row' = row
               /\ entity'[p] = entity[p]
               /\ body'[p] = body[p]
               /\ diff'[p] = diff[p]
    PROVE  EntitiesCurrent'
<1> SUFFICES ASSUME NEW p \in Requests, p \notin crossed', pc'[p] \in InTransaction
             PROVE  /\ pc'[p] = "reload" => entity'[p] = UpdateFields(row', body'[p])
                    /\ pc'[p] # "reload" => \A c \in diff'[p] : entity'[p][c] = body'[p][c]
  BY DEF EntitiesCurrent, InTransaction
<1>1. CASE pc'[p] = "reload"
  BY <1>1 DEF EntitiesCurrent
<1>2. CASE pc'[p] # "reload"
  BY <1>2 DEF EntitiesCurrent
<1> QED
  BY <1>1, <1>2

LEMMA EntitiesStep == TypeOK /\ EntitiesCurrent /\ [Next]_vars => EntitiesCurrent'
<1> SUFFICES ASSUME TypeOK, EntitiesCurrent, [Next]_vars
             PROVE  EntitiesCurrent'
  OBVIOUS
<1> USE DEF committed, private
<1>1. CASE Tick \/ Restart \/ UNCHANGED vars
  BY <1>1, EntitiesStay DEF Tick, Restart, vars, InTransaction
<1>2. ASSUME NEW u \in Users, NEW r \in Row, NEW size \in 0..MaxImages, Create(u, r, size)
      PROVE  EntitiesCurrent'
  <2>1. \A p \in Requests : pc'[p] \notin InTransaction
    BY <1>2 DEF Create, TypeOK
  <2> QED
    BY <2>1, EntitiesStay
<1>3. ASSUME NEW q \in Requests, NEW outcome, Finish(q, outcome), UNCHANGED row,
             crossed' \in {crossed, crossed \ {q}}
      PROVE  EntitiesCurrent'
  <2>1. pc'[q] \notin InTransaction
    BY <1>3 DEF Finish, Goto, TypeOK, InTransaction
  <2>2. \A p \in Requests \ {q} : /\ pc'[p] = pc[p]
                                  /\ entity'[p] = entity[p]
                                  /\ body'[p] = body[p]
                                  /\ diff'[p] = diff[p]
    BY <1>3 DEF Finish, Goto, TypeOK
  <2> QED
    BY <1>3, <2>1, <2>2, EntitiesStay
<1>4. ASSUME NEW q \in Requests, Refuse(q) \/ CountMembers(q) \/ Fail(q)
      PROVE  EntitiesCurrent'
  BY <1>3, <1>4 DEF Refuse, CountMembers, Fail
<1>5. ASSUME NEW q \in Requests, NEW u \in Users, NEW b \in Body, Accept(q, u, b)
      PROVE  EntitiesCurrent'
  <2>1. entity'[q] = UpdateFields(row', body'[q]) /\ pc'[q] = "reload"
    <3>1. row' = row /\ body'[q] = b /\ entity'[q] = UpdateFields(row, b) /\ pc'[q] = "reload"
      BY <1>5 DEF Accept, Goto, TypeOK
    <3> QED
      BY <3>1 DEF UpdateFields
  <2>2. \A p \in Requests \ {q} : /\ pc'[p] = pc[p]
                                  /\ entity'[p] = entity[p]
                                  /\ body'[p] = body[p]
    BY <1>5 DEF Accept, Goto, TypeOK
  <2>3. UNCHANGED <<row, diff, crossed>>
    BY <1>5 DEF Accept
  <2>4. ASSUME NEW p \in Requests \ crossed', p # q
        PROVE  /\ pc'[p] = "reload" => entity'[p] = UpdateFields(row', body'[p])
               /\ pc'[p] \in InTransaction \ {"reload"} =>
                      \A c \in diff'[p] : entity'[p][c] = body'[p][c]
    BY <2>2, <2>3, <2>4 DEF EntitiesCurrent, UpdateFields
  <2> QED
    BY <2>1, <2>4 DEF EntitiesCurrent
<1>6. ASSUME NEW q \in Requests, Reload(q)
      PROVE  EntitiesCurrent'
  <2>1. row \in Row /\ entity[q] \in Row /\ body[q] \in Body /\ pc[q] = "reload"
    BY <1>6 DEF Reload, TypeOK, InTransaction
  <2>2. diff'[q] = {c \in Columns : entity[q][c] # row[c]}
    BY <1>6 DEF Reload, TypeOK
  <2>3. pc'[q] # "reload"
    BY <1>6 DEF Reload, Goto, AfterSave, TypeOK
  <2>4. ASSUME q \notin crossed, NEW c \in diff'[q]
        PROVE  entity[q][c] = body[q][c]
    <3>1. entity[q] = UpdateFields(row, body[q])
      BY <2>1, <2>4 DEF EntitiesCurrent
    <3>2. c \in Columns /\ entity[q][c] # row[c]
      BY <2>2
    <3> QED
      BY <3>1, <3>2 DEF UpdateFields, Columns
  <2>5. \A p \in Requests \ {q} : pc'[p] = pc[p] /\ diff'[p] = diff[p]
    BY <1>6 DEF Reload, Goto, TypeOK
  <2>6. UNCHANGED <<row, entity, body, crossed>>
    BY <1>6 DEF Reload
  <2>7. ASSUME NEW p \in Requests \ crossed', p # q
        PROVE  /\ pc'[p] = "reload" => entity'[p] = UpdateFields(row', body'[p])
               /\ pc'[p] \in InTransaction \ {"reload"} =>
                      \A c \in diff'[p] : entity'[p][c] = body'[p][c]
    BY <2>5, <2>6, <2>7 DEF EntitiesCurrent, UpdateFields
  <2> QED
    BY <2>3, <2>4, <2>6, <2>7 DEF EntitiesCurrent
<1>7. ASSUME NEW q \in Requests,
             Update(q) \/ SnapshotImages(q) \/ DeleteImages(q) \/ InsertImages(q)
      PROVE  EntitiesCurrent'
  <2>1. UNCHANGED <<row, entity, body, diff, crossed>>
    BY <1>7 DEF Update, SnapshotImages, DeleteImages, InsertImages
  <2>2. /\ pc[q] \in InTransaction \ {"reload"} /\ pc'[q] # "reload"
        /\ \A p \in Requests \ {q} : pc'[p] = pc[p]
    BY <1>7 DEF Update, SnapshotImages, DeleteImages, InsertImages, Goto, AfterSave, TypeOK,
                InTransaction
  <2> QED
    BY <2>1, <2>2, EntitiesStay
<1>8. ASSUME NEW q \in Requests, Commit(q) \/ LoseAcknowledgement(q)
      PROVE  EntitiesCurrent'
  <2>1. /\ pc'[q] \notin InTransaction
        /\ \A p \in Requests \ {q} : /\ pc'[p] = pc[p]
                                     /\ entity'[p] = entity[p]
                                     /\ body'[p] = body[p]
                                     /\ diff'[p] = diff[p]
    BY <1>8 DEF Commit, LoseAcknowledgement, Finish, Goto, TypeOK, InTransaction
  <2>2. crossed' = (IF row' = row THEN crossed
                    ELSE crossed \union {p \in Requests : pc[p] = "reload"}) \ {q}
    BY <1>8 DEF Commit, LoseAcknowledgement, Publish, Cross
  <2> QED
    BY <2>1, <2>2, EntitiesStay
<1> QED
  BY <1>1, <1>2, <1>4, <1>5, <1>6, <1>7, <1>8 DEF Next, Arrive, Advance

-------------------------------------------------------------------------------
(* What the other theorems rest on *)

\* The albums shown and those in open transactions come in an order in which each
\* edit that wrote the row replaced the ones before it, and what an edit is about to
\* write of the row is what its request carries, unless another crossed it.
THEOREM Invariance == Spec => []IInv
<1>1. Init => AlbumsOrdered
  BY DEF Init, AlbumsOrdered, RowExclusive, OwnAlbumsSeen, OneAlbumEach, WritersAlbumsSeen,
         WritersReplace, HoldsRow, HasDeleted
<1>2. Init => EntitiesCurrent
  BY DEF Init, EntitiesCurrent, InTransaction
<1> QED
  BY <1>1, <1>2, TypeInit, TypeStep, AlbumsStep, EntitiesStep, PTL DEF Spec, IInv

\* Edits that write a column of the reservation never leave their pictures beside
\* those of another such edit, or of the creation.
THEOREM WritersReplacePictures == Spec => []WritersReplace
<1>1. IInv => WritersReplace
  BY DEF IInv, AlbumsOrdered
<1> QED
  BY <1>1, Invariance, PTL

\* However many edits race, a reservation never shows more albums than there are
\* requests in service at the same time.
THEOREM AlbumsLimited == Spec => []AlbumsBounded
<1>1. IInv => AlbumsBounded
  <2> SUFFICES ASSUME TypeOK, AlbumsOrdered
               PROVE  AlbumsBounded
    BY DEF IInv
  <2>1. Cardinality(Requests) \in Nat /\ Cardinality(Requests) # 0
    BY RequestsAssumption, FS_CardinalityType, FS_EmptySet
  <2>2. CASE \E a \in images : a.by = NoRequest
    <3>1. PICK a \in images : images = {a}
      BY <2>2 DEF AlbumsOrdered, OneAlbumEach
    <3>2. Cardinality({a}) = 1
      BY FS_Singleton
    <3> QED
      BY <2>1, <3>1, <3>2 DEF AlbumsBounded
  <2>3. CASE \A a \in images : a.by # NoRequest
    <3> DEFINE slot == [a \in images |-> a.by]
    <3>1. \A a \in images : a.by \in Requests
      BY <2>3 DEF TypeOK, Album
    <3>2. slot \in [images -> Requests]
      BY <3>1
    <3>3. \A a, b \in images : slot[a] = slot[b] => a = b
      BY DEF AlbumsOrdered, OneAlbumEach
    <3>4. slot \in Injection(images, Requests)
      BY <3>2, <3>3 DEF Injection, IsInjective
    <3> QED
      BY <3>4, RequestsAssumption, FS_Injection DEF AlbumsBounded
  <2> QED
    BY <2>2, <2>3
<1> QED
  BY <1>1, Invariance, PTL

\* An edit that no other crossed changes a column only to the value its request
\* carries: it puts back nothing that was stored meanwhile.
THEOREM ChangedAsRequested == Spec => OnlyRequested
<1> DEFINE Asked ==
        \A q \in Requests \ crossed :
           pc[q] = "commit" /\ pc'[q] # "commit" =>
               \A c \in Columns : row'[c] # row[c] => row'[c] = body[q][c]
<1>1. IInv /\ [Next]_vars => [Asked]_vars
  <2> SUFFICES ASSUME TypeOK, EntitiesCurrent, Next,
                      NEW q \in Requests \ crossed, pc[q] = "commit", pc'[q] # "commit",
                      NEW c \in Columns, row'[c] # row[c]
               PROVE  row'[c] = body[q][c]
    BY DEF IInv
  <2> USE DEF committed, private
  <2>1. PICK p \in Requests : Publish(p) /\ (Commit(p) \/ LoseAcknowledgement(p))
    <3>1. ASSUME NEW u \in Users, NEW r \in Row, NEW size \in 0..MaxImages
          PROVE  ~ Create(u, r, size)
      BY DEF Create, TypeOK, InTransaction
    <3> QED
      BY <3>1 DEF Next, Arrive, Advance, Tick, Refuse, Accept, Reload, Update, SnapshotImages,
                  DeleteImages, InsertImages, Commit, CountMembers, Fail, LoseAcknowledgement,
                  Restart
  <2>2. p = q
    BY <2>1 DEF Commit, LoseAcknowledgement, Finish, Goto, TypeOK
  <2>3. c \in diff[q] /\ row'[c] = entity[q][c]
    BY <2>1, <2>2 DEF Publish, Columns
  <2> QED
    BY <2>3 DEF EntitiesCurrent, InTransaction
<1> QED
  BY <1>1, Invariance, PTL DEF Spec, OnlyRequested

-------------------------------------------------------------------------------
(* The time of the reservation *)

\* A step in which requests only go on with the entity they have, or end, plans nothing.
LEMMA NothingPlanned ==
    ASSUME TypeOK,
           \A p \in Requests : pc'[p] \in InTransaction =>
               pc[p] \in InTransaction /\ entity'[p] = entity[p]
    PROVE  Planned' \in SUBSET Planned
<1>1. ASSUME NEW t \in Planned'
      PROVE  t \in Planned
  <2>1. PICK p \in Requests : pc'[p] \in InTransaction /\ t = entity'[p].datetime
    BY <1>1 DEF Planned
  <2> QED
    BY <2>1 DEF Planned
<1> QED
  BY <1>1

\* A request that commits leaves either the time as it was or the one it planned.
LEMMA PublishApplies ==
    ASSUME TypeOK, NEW q \in Requests, Publish(q),
           pc'[q] \notin InTransaction,
           \A p \in Requests \ {q} : pc'[p] = pc[p] /\ entity'[p] = entity[p]
    PROVE  Schedules!Apply(entity[q].datetime) \/ Schedules!GiveUp
<1>1. host # NoUser /\ host' = host /\ now' = now /\ entity[q] \in Row /\ pc[q] \in InTransaction
  BY DEF Publish, TypeOK, InTransaction
<1>2. row'.datetime = IF "datetime" \in diff[q] THEN entity[q].datetime ELSE row.datetime
  BY DEF Publish
<1>3. Planned' \in SUBSET Planned
  BY NothingPlanned
<1>4. CASE "datetime" \in diff[q]
  <2> DEFINE t == entity[q].datetime
  <2>1. t \in Planned
    BY <1>1 DEF Planned
  <2>2. ASSUME NEW x \in Planned, x # t
        PROVE  x \in Planned'
    <3>1. PICK p \in Requests : pc[p] \in InTransaction /\ x = entity[p].datetime
      BY DEF Planned
    <3>2. p # q
      BY <2>2, <3>1
    <3>3. pc'[p] \in InTransaction /\ x = entity'[p].datetime
      BY <3>1, <3>2
    <3> QED
      BY <3>3 DEF Planned
  <2>3. Planned' \in {Planned, Planned \ {t}}
    BY <1>3, <2>1, <2>2
  <2>4. (IF host = NoUser THEN NoRow ELSE row.datetime)' = t
    BY <1>1, <1>2, <1>4, NoUserAssumption
  <2> QED
    BY <1>1, <2>1, <2>3, <2>4 DEF Schedules!Apply
<1>5. CASE "datetime" \notin diff[q]
  BY <1>1, <1>2, <1>3, <1>5 DEF Schedules!GiveUp
<1> QED
  BY <1>4, <1>5

\* ReservationEdit implements Schedule: accepting an edit plans the time of its entity,
\* a commit applies it or leaves the time alone, and every other step changes neither
\* or gives plans up.
THEOREM ImplementsSchedule == Spec => ScheduleSpec
<1>1. Init => Schedules!Init
  BY DEF Init, Schedules!Init, Planned, InTransaction
<1>2. TypeOK /\ [Next]_vars => [Schedules!Next]_(Schedules!vars)
  <2> SUFFICES ASSUME TypeOK, [Next]_vars
               PROVE  Schedules!Next \/ UNCHANGED Schedules!vars
    OBVIOUS
  <2> USE DEF committed, private
  <2>1. ASSUME UNCHANGED <<now, host, row>>,
               \A p \in Requests : pc'[p] \in InTransaction =>
                   pc[p] \in InTransaction /\ entity'[p] = entity[p]
        PROVE  Schedules!Next
    BY <2>1, NothingPlanned DEF Schedules!Next, Schedules!GiveUp
  <2>2. CASE Tick
    BY <2>2 DEF Tick, Planned, Schedules!Next, Schedules!Tick
  <2>3. ASSUME NEW u \in Users, NEW r \in Row, NEW size \in 0..MaxImages, Create(u, r, size)
        PROVE  Schedules!Next
    <3>1. UNCHANGED Planned
      BY <2>3 DEF Create, Planned
    <3>2. r.datetime \in Times
      BY DEF Row
    <3>3. Schedules!Open(r.datetime)
      BY <2>3, <3>1, NoUserAssumption DEF Create, Schedules!Open
    <3> QED
      BY <3>2, <3>3 DEF Schedules!Next, Schedules!Times, Times
  <2>4. ASSUME NEW q \in Requests, NEW u \in Users, NEW b \in Body, Accept(q, u, b)
        PROVE  Schedules!Next
    <3> DEFINE t == UpdateFields(row, b).datetime
    <3>1. /\ host # NoUser /\ row \in Row
          /\ now < row.datetime
          /\ b.datetime # Undefined => now < b.datetime
      BY <2>4, BoundsAssumption DEF Accept, Verdict, TypeOK, Row, Body, Times
    <3>2. t = (IF b.datetime = Undefined THEN row.datetime ELSE b.datetime)
      BY DEF UpdateFields
    <3>3. t \in Times /\ now < t /\ row.datetime \in Times
      BY <3>1, <3>2 DEF Row, Body
    <3>4. /\ pc[q] = "idle" /\ pc'[q] = "reload" /\ entity'[q].datetime = t
          /\ \A p \in Requests \ {q} : pc'[p] = pc[p] /\ entity'[p] = entity[p]
      BY <2>4 DEF Accept, Goto, TypeOK
    <3>5. Planned' = Planned \union {t}
      <4>1. ASSUME NEW x \in Planned'
            PROVE  x \in Planned \union {t}
        <5>1. PICK p \in Requests : pc'[p] \in InTransaction /\ x = entity'[p].datetime
          BY <4>1 DEF Planned
        <5> QED
          BY <5>1, <3>4 DEF Planned
      <4>2. ASSUME NEW x \in Planned
            PROVE  x \in Planned'
        <5>1. PICK p \in Requests : pc[p] \in InTransaction /\ x = entity[p].datetime
          BY <4>2 DEF Planned
        <5>2. p # q
          BY <5>1, <3>4 DEF InTransaction
        <5>3. pc'[p] \in InTransaction /\ x = entity'[p].datetime
          BY <5>1, <5>2, <3>4
        <5> QED
          BY <5>3 DEF Planned
      <4>3. t \in Planned'
        <5>1. pc'[q] \in InTransaction /\ t = entity'[q].datetime
          BY <3>4 DEF InTransaction
        <5> QED
          BY <5>1 DEF Planned
      <4> QED
        BY <4>1, <4>2, <4>3
    <3>6. UNCHANGED <<now, host, row>>
      BY <2>4 DEF Accept
    <3>7. Schedules!Plan(t)
      BY <3>1, <3>3, <3>5, <3>6, NoRowAssumption DEF Schedules!Plan
    <3> QED
      BY <3>3, <3>7 DEF Schedules!Next, Schedules!Times, Times
  <2>5. ASSUME NEW q \in Requests, Refuse(q)
        PROVE  Schedules!Next
    <3>1. PICK outcome : Finish(q, outcome)
      BY <2>5 DEF Refuse
    <3>2. UNCHANGED <<now, host, row>>
      BY <2>5 DEF Refuse
    <3> QED
      BY <2>1, <3>1, <3>2 DEF Finish, Goto, TypeOK, InTransaction
  <2>6. ASSUME NEW q \in Requests, Reload(q)
        PROVE  Schedules!Next
    BY <2>1, <2>6 DEF Reload, Goto, TypeOK, InTransaction
  <2>7. ASSUME NEW q \in Requests,
               Update(q) \/ SnapshotImages(q) \/ DeleteImages(q) \/ InsertImages(q)
        PROVE  Schedules!Next
    BY <2>1, <2>7 DEF Update, SnapshotImages, DeleteImages, InsertImages, Goto, TypeOK,
                      InTransaction
  <2>8. ASSUME NEW q \in Requests, Commit(q) \/ LoseAcknowledgement(q)
        PROVE  Schedules!Next
    <3>1. /\ Publish(q)
          /\ pc'[q] \notin InTransaction
          /\ \A p \in Requests \ {q} : pc'[p] = pc[p] /\ entity'[p] = entity[p]
      BY <2>8 DEF Commit, LoseAcknowledgement, Finish, Goto, TypeOK, InTransaction
    <3>2. entity[q].datetime \in Times
      BY <3>1 DEF Publish, TypeOK, InTransaction, Row
    <3> QED
      BY <3>1, <3>2, PublishApplies DEF Schedules!Next, Schedules!Times, Times
  <2>9. ASSUME NEW q \in Requests, CountMembers(q) \/ Fail(q)
        PROVE  Schedules!Next
    <3>1. PICK outcome : Finish(q, outcome)
      BY <2>9 DEF CountMembers, Fail
    <3>2. UNCHANGED <<now, host, row>>
      BY <2>9 DEF CountMembers, Fail
    <3> QED
      BY <2>1, <3>1, <3>2 DEF Finish, Goto, TypeOK, InTransaction
  <2>10. CASE Restart
    BY <2>1, <2>10 DEF Restart, InTransaction
  <2>11. CASE UNCHANGED vars
    BY <2>11 DEF vars, Schedules!vars, Planned
  <2> QED
    BY <2>2, <2>3, <2>4, <2>5, <2>6, <2>7, <2>8, <2>9, <2>10, <2>11 DEF Next, Arrive, Advance
<1> QED
  BY <1>1, <1>2, TypeCorrect, PTL DEF Spec, ScheduleSpec, Schedules!Spec
===============================================================================
