---------------------------- MODULE ReservationEdit ----------------------------
(***************************************************************************)
(* How the host of one reservation edits it (updateReservation,            *)
(* reservations.service.ts): one transaction that reads the reservation,   *)
(* checks host and time, saves the entity and replaces the pictures.       *)
(*                                                                         *)
(* Edits of different reservations share no row.  The processes are the    *)
(* requests in service; each action is one awaited statement with the code *)
(* that runs before the next.  At READ COMMITTED a statement sees what was *)
(* committed when it began.  save reads the row again and updates the      *)
(* columns in which the entity differs from it; an UPDATE locks the row to *)
(* the end of the transaction, and a transaction that writes no column     *)
(* locks nothing.  "title" stands for the columns that are only stored:    *)
(* title, category, description and link.                                  *)
(*                                                                         *)
(* Each definition marked "Bug:" is a plausible error in the one after it, *)
(* kept to show that some property of the module would notice it.          *)
(***************************************************************************)
EXTENDS Integers, FiniteSets, FiniteSetsExt

CONSTANTS
    Users,
    Requests,       \* requests that may be in service at the same time
    Titles,
    MaxTime,        \* the clock stops here
    MaxImages,      \* pictures a request may carry
    MaxEdits,       \* bound on the edits accepted in a behaviour
    MaxFaults,      \* bound on failed statements and restarts in a behaviour
    Undefined,      \* a field the request does not carry
    NoUser, NoRow, NoBody, NoRequest

Times == 0..MaxTime
Columns == {"title", "datetime"}
Row == [title : Titles, datetime : Times]

\* The fields of PATCH /reservations/:id, each of them optional.
Body == [title : Titles \union {Undefined},
         datetime : Times \union {Undefined},
         images : 0..MaxImages \union {Undefined}]

\* The pictures one request inserts: their number, the edit and the slot they
\* come from, and whether that edit also wrote a column of the reservation.
Album == [edit : 0..MaxEdits, by : Requests \union {NoRequest},
          wrote : BOOLEAN, size : 1..MaxImages]

ASSUME BoundsAssumption ==
    /\ MaxTime \in Nat
    /\ MaxImages \in Nat
    /\ MaxEdits \in Nat
    /\ MaxFaults \in Nat
ASSUME RequestsAssumption == IsFiniteSet(Requests) /\ Requests # {}
ASSUME NoUserAssumption == NoUser \notin Users
ASSUME NoRowAssumption == NoRow \notin Times
ASSUME NoRequestAssumption == NoRequest \notin Requests
ASSUME UndefinedAssumption ==
    /\ Undefined \notin Titles
    /\ Undefined \notin Times
    /\ Undefined \notin 0..MaxImages

VARIABLES
    now,        \* the clock
    host,       \* the host of the reservation, NoUser until it exists
    row,        \* the committed row of the reservation
    images,     \* the committed rows of images, as sets inserted together
    pc,         \* what a request does next, "idle" when the slot serves none
    edit,       \* which edit the slot serves, 0 when none
    body,       \* the fields it carries
    entity,     \* the reservation it read, with its fields assigned
    diff,       \* the columns save found to differ
    victims,    \* the albums its DELETE saw
    crossed,    \* edits behind whose read another changed the row, before their save reads it
    answer,     \* how the last request of the slot was answered
    edits,      \* edits accepted so far
    faults

committed == <<host, row, images>>
private == <<edit, body, entity, diff, victims>>
vars == <<now, committed, pc, private, crossed, answer, edits, faults>>

InTransaction == {"reload", "update", "snapshot", "delete", "insert", "commit"}
Outcomes == {"none", "updated", "NotFound", "NoEditPermission",
             "CannotEditStarted", "InvalidTimeUpdate", "ServerError"}

TypeOK ==
    /\ now \in Times
    /\ host \in Users \union {NoUser}
    /\ row \in Row \union {NoRow}
    /\ images \in SUBSET Album
    /\ pc \in [Requests -> {"idle", "count"} \union InTransaction]
    /\ edit \in [Requests -> 0..MaxEdits]
    /\ body \in [Requests -> Body \union {NoBody}]
    /\ entity \in [Requests -> Row \union {NoRow}]
    /\ diff \in [Requests -> SUBSET Columns]
    /\ victims \in [Requests -> SUBSET Album]
    /\ crossed \in SUBSET Requests
    /\ answer \in [Requests -> Outcomes]
    /\ edits \in 0..MaxEdits
    /\ faults \in 0..MaxFaults
    /\ host # NoUser => row \in Row
    /\ \A q \in Requests : pc[q] \in InTransaction =>
           host # NoUser /\ body[q] \in Body /\ entity[q] \in Row

Init ==
    /\ now = 0
    /\ host = NoUser
    /\ row = NoRow
    /\ images = {}
    /\ pc = [q \in Requests |-> "idle"]
    /\ edit = [q \in Requests |-> 0]
    /\ body = [q \in Requests |-> NoBody]
    /\ entity = [q \in Requests |-> NoRow]
    /\ diff = [q \in Requests |-> {}]
    /\ victims = [q \in Requests |-> {}]
    /\ crossed = {}
    /\ answer = [q \in Requests |-> "none"]
    /\ edits = 0
    /\ faults = 0

-------------------------------------------------------------------------------
(* The rest of the program, as far as it touches these rows *)

Tick ==
    /\ now < MaxTime
    /\ now' = now + 1
    /\ UNCHANGED <<committed, pc, private, crossed, answer, edits, faults>>

AlbumOf(n, q, wrote, size) ==
    IF size = 0 THEN {} ELSE {[edit |-> n, by |-> q, wrote |-> wrote, size |-> size]}

\* createReservation commits the reservation with its pictures.
Create(u, r, size) ==
    /\ host = NoUser
    /\ host' = u
    /\ row' = r
    /\ images' = AlbumOf(0, NoRequest, TRUE, size)
    /\ UNCHANGED <<now, pc, private, crossed, answer, edits, faults>>

-------------------------------------------------------------------------------
Goto(q, label) == pc' = [pc EXCEPT ![q] = label]

\* The request ends and with it its transaction and its entity.
Finish(q, outcome) ==
    /\ Goto(q, "idle")
    /\ answer' = [answer EXCEPT ![q] = outcome]
    /\ edit' = [edit EXCEPT ![q] = 0]
    /\ body' = [body EXCEPT ![q] = NoBody]
    /\ entity' = [entity EXCEPT ![q] = NoRow]
    /\ diff' = [diff EXCEPT ![q] = {}]
    /\ victims' = [victims EXCEPT ![q] = {}]

\* Bug: fields the request does not carry are assigned like the others.
UpdateFieldsAll(r, b) == [title |-> b.title, datetime |-> b.datetime]

\* updateReservationFields: the entity keeps what it read of a field not carried.
UpdateFields(r, b) ==
    [title |-> IF b.title = Undefined THEN r.title ELSE b.title,
     datetime |-> IF b.datetime = Undefined THEN r.datetime ELSE b.datetime]

\* Bug: the fields are assigned before the times are checked.
VerdictAssigned(u, b) ==
    IF host = NoUser THEN "NotFound"
    ELSE IF u # host THEN "NoEditPermission"
    ELSE IF UpdateFields(row, b).datetime <= now THEN "CannotEditStarted"
    ELSE "none"

\* findAndValidateReservation and validateReservationTiming.
Verdict(u, b) ==
    IF host = NoUser THEN "NotFound"
    ELSE IF u # host THEN "NoEditPermission"
    ELSE IF row.datetime <= now THEN "CannotEditStarted"
    ELSE IF b.datetime # Undefined /\ b.datetime <= now THEN "InvalidTimeUpdate"
    ELSE "none"

Refuse(q) ==
    /\ pc[q] = "idle"
    /\ \E outcome \in {Verdict(u, b) : u \in Users, b \in Body} \ {"none"} : Finish(q, outcome)
    /\ UNCHANGED <<now, committed, crossed, edits, faults>>

\* The reservation is read and checked, and the fields are assigned.
Accept(q, u, b) ==
    /\ pc[q] = "idle"
    /\ edits < MaxEdits
    /\ Verdict(u, b) = "none"
    /\ edits' = edits + 1
    /\ edit' = [edit EXCEPT ![q] = edits + 1]
    /\ body' = [body EXCEPT ![q] = b]
    /\ entity' = [entity EXCEPT ![q] = UpdateFields(row, b)]
    /\ answer' = [answer EXCEPT ![q] = "none"]
    /\ Goto(q, "reload")
    /\ UNCHANGED <<now, committed, diff, victims, crossed, faults>>

\* What follows save: the pictures, if the request carries any, or the commit.
AfterSave(q) == IF body[q].images = Undefined THEN "commit" ELSE "snapshot"

\* Bug: save writes every column, changed or not.
ReloadAll(q) ==
    /\ pc[q] = "reload"
    /\ diff' = [diff EXCEPT ![q] = Columns]
    /\ Goto(q, "update")
    /\ UNCHANGED <<now, committed, edit, body, entity, victims, crossed, answer, edits, faults>>

\* save reads the row again and compares it with the entity.
Reload(q) ==
    LET differing == {c \in Columns : entity[q][c] # row[c]} IN
    /\ pc[q] = "reload"
    /\ diff' = [diff EXCEPT ![q] = differing]
    /\ Goto(q, IF differing = {} THEN AfterSave(q) ELSE "update")
    /\ UNCHANGED <<now, committed, edit, body, entity, victims, crossed, answer, edits, faults>>

\* q has updated the row and keeps it locked.
HoldsRow(q) ==
    /\ pc[q] \in {"snapshot", "delete", "insert", "commit"}
    /\ diff[q] # {}

\* Bug: the row is saved outside the transaction, and not locked to its end.
UpdateUnlocked(q) ==
    /\ pc[q] = "update"
    /\ Goto(q, AfterSave(q))
    /\ UNCHANGED <<now, committed, private, crossed, answer, edits, faults>>

\* Bug: save is repeated until the committed row shows the entity.
UpdateRepeated(q) ==
    /\ pc[q] = "update"
    /\ \A p \in Requests : ~ HoldsRow(p)
    /\ Goto(q, "reload")
    /\ UNCHANGED <<now, committed, private, crossed, answer, edits, faults>>

\* UPDATE reservations: waits for the row, and locks it.
Update(q) ==
    /\ pc[q] = "update"
    /\ \A p \in Requests : ~ HoldsRow(p)
    /\ Goto(q, AfterSave(q))
    /\ UNCHANGED <<now, committed, private, crossed, answer, edits, faults>>

\* Bug: only the pictures the reservation was created with are deleted.
SnapshotImagesFirst(q) ==
    /\ pc[q] = "snapshot"
    /\ Goto(q, "delete")
    /\ victims' = [victims EXCEPT ![q] = {a \in images : a.by = NoRequest}]
    /\ UNCHANGED <<now, committed, edit, body, entity, diff, crossed, answer, edits, faults>>

\* DELETE FROM images begins: it will delete the rows committed by now.
SnapshotImages(q) ==
    /\ pc[q] = "snapshot"
    /\ Goto(q, "delete")
    /\ victims' = [victims EXCEPT ![q] = images]
    /\ UNCHANGED <<now, committed, edit, body, entity, diff, crossed, answer, edits, faults>>

HasDeleted(q) == pc[q] \in {"insert", "commit"} /\ body[q].images # Undefined

\* It waits for each row another transaction has deleted; once that commits the
\* row is gone, and rows committed since it began stay unseen.
DeleteImages(q) ==
    /\ pc[q] = "delete"
    /\ \A p \in Requests \ {q} :
           HasDeleted(p) => victims[p] \intersect victims[q] \intersect images = {}
    /\ Goto(q, IF body[q].images = 0 THEN "commit" ELSE "insert")
    /\ UNCHANGED <<now, committed, private, crossed, answer, edits, faults>>

\* INSERT INTO images: nothing in the table restricts what others insert.
InsertImages(q) ==
    /\ pc[q] = "insert"
    /\ Goto(q, "commit")
    /\ UNCHANGED <<now, committed, private, crossed, answer, edits, faults>>

\* The commit of q crosses the edits that have read the row and not read it again.
Cross(q) ==
    crossed' = (IF row' = row THEN crossed
                ELSE crossed \union {p \in Requests : pc[p] = "reload"}) \ {q}

\* Bug: the new pictures are added to the ones there are.
PublishKeepingImages(q) ==
    /\ pc[q] = "commit"
    /\ row' = [title |-> IF "title" \in diff[q] THEN entity[q].title ELSE row.title,
               datetime |-> IF "datetime" \in diff[q] THEN entity[q].datetime ELSE row.datetime]
    /\ images' = IF body[q].images = Undefined THEN images
                 ELSE images \union AlbumOf(edit[q], q, diff[q] # {}, body[q].images)
    /\ Cross(q)
    /\ UNCHANGED <<now, host>>

\* The columns written and the pictures become visible together.
Publish(q) ==
    /\ pc[q] = "commit"
    /\ row' = [title |-> IF "title" \in diff[q] THEN entity[q].title ELSE row.title,
               datetime |-> IF "datetime" \in diff[q] THEN entity[q].datetime ELSE row.datetime]
    /\ images' = IF body[q].images = Undefined THEN images
                 ELSE (images \ victims[q])
                          \union AlbumOf(edit[q], q, diff[q] # {}, body[q].images)
    /\ Cross(q)
    /\ UNCHANGED <<now, host>>

Commit(q) ==
    /\ Publish(q)
    /\ Goto(q, "count")
    /\ UNCHANGED <<private, answer, edits, faults>>

\* getMemberCount, for the answer.
CountMembers(q) ==
    /\ pc[q] = "count"
    /\ Finish(q, "updated")
    /\ UNCHANGED <<now, committed, crossed, edits, faults>>

-------------------------------------------------------------------------------
(* A statement fails and the request ends with 500, its transaction rolled   *)
(* back or committed without the acknowledgement arriving; or the process    *)
(* restarts.                                                                 *)

Fault ==
    /\ faults < MaxFaults
    /\ faults' = faults + 1

Fail(q) ==
    /\ Fault
    /\ pc[q] # "idle"
    /\ Finish(q, "ServerError")
    /\ crossed' = crossed \ {q}
    /\ UNCHANGED <<now, committed, edits>>

LoseAcknowledgement(q) ==
    /\ Fault
    /\ Publish(q)
    /\ Finish(q, "ServerError")
    /\ UNCHANGED edits

Restart ==
    /\ Fault
    /\ pc' = [q \in Requests |-> "idle"]
    /\ edit' = [q \in Requests |-> 0]
    /\ body' = [q \in Requests |-> NoBody]
    /\ entity' = [q \in Requests |-> NoRow]
    /\ diff' = [q \in Requests |-> {}]
    /\ victims' = [q \in Requests |-> {}]
    /\ crossed' = {}
    /\ answer' = [q \in Requests |-> "none"]
    /\ UNCHANGED <<now, committed, edits>>

-------------------------------------------------------------------------------
Advance(q) ==
    \/ Reload(q) \/ Update(q)
    \/ SnapshotImages(q) \/ DeleteImages(q) \/ InsertImages(q)
    \/ Commit(q) \/ CountMembers(q)

Arrive(q) == Refuse(q) \/ \E u \in Users, b \in Body : Accept(q, u, b)

Next ==
    \/ Tick
    \/ \E u \in Users, r \in Row, size \in 0..MaxImages : Create(u, r, size)
    \/ \E q \in Requests : Arrive(q) \/ Advance(q) \/ Fail(q) \/ LoseAcknowledgement(q)
    \/ Restart

\* The requests in service go on; the host, the clock and failures need not.
Fairness == \A q \in Requests : WF_vars(Advance(q))

Spec == Init /\ [][Next]_vars

FairSpec == Spec /\ Fairness

-------------------------------------------------------------------------------
(* Safety *)

\* Edits that write a column of the reservation replace its pictures: the lock on
\* its row puts their DELETEs and INSERTs in sequence, so the albums of two such
\* edits (or of one and the creation) are never shown together.
WritersReplace ==
    \A a, b \in images : a.wrote /\ b.wrote => a = b

\* Edits that write none race, but never leave more albums than connections: the
\* DELETE of a request always sees what its own connection inserted before.
AlbumsBounded == Cardinality(images) <= Cardinality(Requests)

\* An edit changes the columns its request carries, and to the values it carries,
\* unless another edit has changed the row after this one read it and before its save
\* reads it again: only then it puts back columns that nobody asked it to change.
OnlyRequested ==
    [][\A q \in Requests \ crossed :
           pc[q] = "commit" /\ pc'[q] # "commit" =>
               \A c \in Columns : row'[c] # row[c] => row'[c] = body[q][c]]_vars

\* The time of the reservation is what Schedule promises: though save writes back
\* whatever the request read, and the clock runs on between the check and the
\* commit, the time only changes to one that lay in the future when an edit still
\* in its transaction found the reservation not started.
Planned ==
    {entity[q].datetime : q \in {p \in Requests : pc[p] \in InTransaction}}
Schedules == INSTANCE Schedule WITH
    time <- IF host = NoUser THEN NoRow ELSE row.datetime,
    planned <- Planned,
    NoTime <- NoRow
ScheduleSpec == Schedules!Spec

-------------------------------------------------------------------------------
(* The inductive invariant behind the safety properties *)

\* One transaction at most has written the row and not ended.
RowExclusive ==
    \A p, q \in Requests : HoldsRow(p) /\ HoldsRow(q) => p = q

\* A DELETE that has begun saw the albums its own slot committed, and the first one.
OwnAlbumsSeen ==
    \A q \in Requests :
        pc[q] \in {"delete", "insert"} \/ HasDeleted(q) =>
            \A a \in images : a.by \in {q, NoRequest} => a \in victims[q]

\* A slot has one album, and the first one is alone: any edit replaces it.
OneAlbumEach ==
    \A a, b \in images : a.by = b.by \/ a.by = NoRequest => a = b

\* The DELETE of a transaction that wrote the row saw the albums of all others that did.
WritersAlbumsSeen ==
    \A q \in Requests :
        (pc[q] \in {"delete", "insert"} \/ HasDeleted(q)) /\ diff[q] # {} =>
            \A a \in images : a.wrote => a \in victims[q]

AlbumsOrdered ==
    /\ host = NoUser => images = {}
    /\ RowExclusive
    /\ OwnAlbumsSeen
    /\ OneAlbumEach
    /\ WritersAlbumsSeen
    /\ WritersReplace

\* The entity of an edit nobody crossed is the row with the fields of its request
\* assigned, so save finds only these to differ.
EntitiesCurrent ==
    \A q \in Requests \ crossed :
        /\ pc[q] = "reload" => entity[q] = UpdateFields(row, body[q])
        /\ pc[q] \in InTransaction \ {"reload"} =>
               \A c \in diff[q] : entity[q][c] = body[q][c]

IInv == TypeOK /\ AlbumsOrdered /\ EntitiesCurrent

-------------------------------------------------------------------------------
(* Liveness *)

\* Every edit ends, though it waits for the row and for the pictures others hold:
\* all of them take the row first.
RequestsEnd == \A q \in Requests : pc[q] # "idle" ~> pc[q] = "idle"

-------------------------------------------------------------------------------
(* What the source says of itself and the code does not do *)

\* "이미지는 최대 3개까지만 업로드 가능합니다.": a reservation has at most so many pictures.
PictureLimit == MapThenSumSet(LAMBDA a : a.size, images) <= MaxImages
===============================================================================
