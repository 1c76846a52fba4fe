# A verification development for HGDGDS-Node

HGDGDS is the server of a mobile application in which a group of friends tries
to make a reservation together: a host creates a *reservation* (what, when,
up to three pictures), others join it, shortly before its time everybody
declares to be ready and pokes those who are not, and afterwards each member
records how it went. The server is one NestJS process over PostgreSQL
(TypeORM), with Firebase Cloud Messaging for push notifications and S3 for
pictures. This directory holds TLA+ modules that model its core, TLC
configurations that check them on small instances, and TLAPS proofs.

## 1. The system

### 1.1 Components

| component | state | operations | models |
|---|---|---|---|
| reservation membership (`reservations.service.ts`) | rows of `reservations`, `user_reservations` | `createReservation`, `joinReservation` | `Membership`, abstract `Roster` |
| readiness and results (`reservations.service.ts`, `reservation-results.service.ts`) | `user_reservations.status`, `reservation_results` | `updateUserStatus`, `createReservationResult`, `getReservationResults` | `Participation`, abstract `Ledger`; the reading in `Views` |
| reservation editing (`reservations.service.ts`) | `reservations`, `images` | `updateReservation` | `ReservationEdit`, abstract `Schedule` |
| timed notifications (`reservation-notification.service.ts`) | the set `sentNotifications` in memory | the cron jobs `sendReservationNotifications`, `clearNotificationCache` | `Notifications` |
| accounts (`auth.service.ts`, `users.repository.ts`, `users.service.ts`, the guard) | rows of `users` (device id, FCM token, settings) | `signUp`, `updateUserSettings`, `updateFcmToken` | `Accounts`, abstract `Directory` |
| lists, details, results view, statistics (`getReservations`, `getReservationDetail`, `getMembers`, `getReservationResults`, `getUserStatistics`) | none of their own | read-only | `Views` over `Tables` |
| poking and push (`kokUserInReservation`, `firebase.service.ts`) | none of its own | `kokUserInReservation`, `sendNotification`, `sendMulticastNotification` | `Views`; the multicast in `Participation`, single pushes in `Notifications` |
| files, codes, universal links, HTTP plumbing, API documentation | none | stateless | not modelled |

Components meet in the database and nowhere else, except that services call
`FirebaseService`. There is no lock, version column or isolation level in the
code: every transaction runs at PostgreSQL's READ COMMITTED, and the only
synchronisation is what the database provides by itself, that is unique
constraints, row locks between an UPDATE and the end of its transaction, and
all-or-nothing commits.

### 1.2 What is hard

* **Check, then act.** Most operations read, decide and write in separate
  statements: the count before an INSERT (`joinReservation`), the time check
  before a save (`updateUserStatus`, `updateReservation`), the existence check
  before an INSERT (`joinReservation`, `signUp`).
* **Answers made of several statements.** Details, results, statistics and
  pages are read in several statements, each of its own moment, transaction or
  not.
* **Save writes differences.** TypeORM's `save` reads the row again and writes
  the columns in which the entity differs, so a stale entity overwrites what
  others committed meanwhile.
* **Failures.** A connection may be lost before or after a COMMIT took effect;
  a restart drops requests in service and the notification cache.
* **Time.** Clock, reservation time and the minute windows of the cron job
  move against each other; the host may move a reservation while others act on
  the time they read.

`PROJECT.json` lists these hazards line by line.

### 1.3 What makes each part correct

* membership: no half-created reservation; nobody joins twice; at most the
  maximum of members; answers that stay true.
* readiness and results: one result per member, for good; a final status only
  with its result; readiness only near the time; others are told.
* editing: only the host, only before the time; at most three pictures; no
  lost edits.
* notifications: each member gets each notification once, at its time.
* accounts: one account per device; no column changes that nobody asked to
  change.
* views: an answer is true of some moment of its request; results only
  afterwards and only to members; pages that leave nothing out.
* poking: only members of the same reservation.

## 2. The modules

In every module a process is something that runs between two awaits of the
source: a database connection, an HTTP request in service, a cron job. An
action is one awaited statement together with the code up to the next await;
`pc` names the statement a process is about to execute. Committed rows are
variables of their own; what an open transaction has written is not visible in
them until the action that commits. A slot keeps the answer of its last request
until it serves another one, so that properties can speak about answers.

Operators whose comment begins with "Bug:" belong to no specification: each is
the operator after it with a plausible error, and `PROJECT.json` ("mutants")
says which property notices the error when it replaces the correct one.

### 2.1 `Membership`, and what it promises: `Roster`

`createReservation` is `SaveReservation`, `SaveMember`, `CommitCreate`;
`joinReservation` is `FindReservation`, `FindExisting`, `Count`, `Insert`,
`CommitJoin`. Both run in `dataSource.transaction`, and occupy one connection
of the pool from first to last, hence `Connections`. `Insert` waits while
another transaction holds an uncommitted row of the same unique key
(`KeyHeld`), and fails if such a row is committed. `Abort` is a lost connection
or failed statement, `LoseAcknowledgement` a COMMIT that took effect while the
client is told 500, `Restart` the process. `allocated` models the sequence of
ids, which a rollback does not turn back.

`Roster` is the abstract view: reservations open with their host as the only
member, and members enter one by one, below a limit. `RosterSpec` states that
`Membership` implements it, with `host` and `members` mapped to themselves.

The maximum of 30 participants is *not* kept, because the count and the INSERT
are separate statements at READ COMMITTED. What does hold is
`OvershootBounded`: each join past the count occupies a connection, so a
reservation has at most `MaxParticipants - 1 + |Connections|` members.

### 2.2 `Participation`

One reservation; `updateUserStatus` is `CheckTime`, `FindMembers` (with the
multicast, which is issued before the save and not awaited: `told`), `Reload`
and `Update` (the SELECT and the UPDATE of TypeORM's `save`, without a
transaction); `createReservationResult` is `FindReservation`,
`FindMembership`, and in its transaction `InsertResult`, `SaveStatus`,
`CommitResult`. `RowLocked` and `ResultPending` are the row lock and the unique
key that make one wait for another. `Create`, `Join`, `ValidateMove`,
`CommitMove`, `DropMoves` and `Tick` are what the rest of the program and the
clock do to the same rows. The moves are by definition the actions of `Schedule`
(2.3), the very ones that `ReservationEdit` is shown to implement: any number of
edits may be open (`planned`), and one that has passed its check commits whatever
the clock says by then, or is dropped. `LoseAcknowledgement` is a statement that
took effect while the client is told 500: the COMMIT of a result, or the UPDATE of
a status, which commits by itself.

The time is checked in `CheckTime` and the status saved three statements later. A
history variable `held` collects the times the reservation has had since a request
checked its time; `ReadyInTime` says that whoever becomes ready does so no more
than an hour before one of them. It does not say that it is the latest: when the
host moves the reservation meanwhile, a member becomes ready too early for the new
time, which TLC finds when asked, and no text of the repository promises
otherwise. What the code also does, and no property forbids, is that a status
request overwrites the `SUCCESS` or `FAIL` of a result committed after it read the
members: `StatusHasResult` bounds what is left then, and the result stays.

`Ledger` is the abstract view: users enter, and each records at most one result
for good. `LedgerSpec` states that `Participation` implements it, where the
users in the ledger are those that have a row.

### 2.3 `ReservationEdit`

One reservation; `updateReservation` is `Accept` (or `Refuse`), `Reload`,
`Update`, then `SnapshotImages`, `DeleteImages`, `InsertImages` if the request
carries pictures, `Commit`, and `CountMembers` for the answer. A DELETE removes
the rows committed when it began, which is why it takes two actions; it waits
for rows that others have deleted. `Update` keeps the row locked (`HoldsRow`),
and is skipped when the entity does not differ from the row: this is the
difference between edits that are kept apart (`WritersReplace`) and edits that
are not (`PictureLimit` fails). The pictures inserted by one edit are one
*album*; nothing else inserts or deletes pictures of a reservation.

`Schedule` is the abstract view of the time: an open edit has planned a time,
which asks that both the reservation and the plan lie in the future, and the
time only changes to a planned one. `ScheduleSpec` states that
`ReservationEdit` implements it, where the plans are the times of the entities
in open transactions. It fixes what a commit may do after its check has gone
stale, and what a save of other fields may put back: a time that this edit read
while it was still to come, and nothing else. It does not promise that the
reservation has not started by the commit, nor which of two edits prevails: the
code does not keep the one and says nothing of the other.

`crossed` records the edits in front of whose `Reload` another edit committed,
after they had read the row; an edit nobody crossed writes only what its request
carries (`OnlyRequested`). A crossed one puts back the columns it read, which is
what `Schedule` allows and no text of the repository promises otherwise. The column
`updatedAt` is left out. `save` compares it as well, and after a crossing write it
differs too; but then the column that the other edit changed differs anyway, unless
it was changed back or to what this request carries: only there the model issues no
UPDATE where the code may issue one, and takes fewer locks than the code does.

### 2.4 `Notifications`

Each minute the scheduler starts a job (`Minute`, `Start`) without waiting for
the last one. A job goes through the types in order: `FindReservations`,
`FindMembers` once per reservation found, then all pushes at once, whose
answers come in any order (`Sent`, `PushFails`). `sentNotifications` is the
cache in memory: filled after an accepted push, cleared at midnight and by
`Crash`. `pushes` records what Firebase has delivered, with the time of the
reservation it was about and the minute of the job; it is a set, for the members of
one reservation are distinct users (the unique key of `user_reservations`), so one job
has one target for each member and type. `owed` records whom a job
has found due, for `NobodyForgotten` to compare with `pushes` when it ends; a
push or query that fails is excused. `Create`, `Join`, `ValidateMove`,
`CommitMove` and `DropMoves` are the requests that change what jobs read; a
crash drops the edits that are open as well.

### 2.5 `Accounts`, and what it promises: `Directory`

`signUp` is `FindDevice`, `InsertUser` (or the violation of the unique device
id) and `Sign`; `updateUserSettings` is `FindForSettings`, which reads the row
and assigns the fields of the request, and then TypeORM's `save` of an entity
read before: `Reload` reads the row again and determines which columns differ,
`Update` writes these. `updateFcmToken` is `FindForToken` and `SetToken`, an
UPDATE of one column. No operation opens a transaction around its statements.
`crossed` records the settings requests whose account another request wrote
after they had read it and before they read it again; these put back what they
read (`OnlyRequested`). The guard finds the account of the token before the
handler runs; since accounts are never removed, it is in the model as the
existing account of the request.

`Directory` is the abstract view: an account is opened for a device that has
none. `DirectorySpec` maps an account to the device in its row.

### 2.6 `Views`, over `Tables`

`Tables` is what readers see: each action is the COMMIT of an operation.
Creations and joins are the actions of `Roster`, the very ones that
`Membership` is shown to implement; `Record` is `Record` of `Ledger`;
`ValidateMove` and `CommitMove` separate the check of the times from the
commit, as `ReservationEdit` does, and any number of edits may be in between.
`Rosters`, `Ledgers(r)` and `Schedules(r)` are the abstract views of the writers;
hosts and members follow `Roster` by definition, and that the members, results and
times of each reservation follow `Ledger` and `Schedule` is proved (section 5). So
`Views` does not repeat the writers'
races and has their effects: rosters up to `Limit`, results before the time,
times that change in spite of the clock.

`Views` follows the requests of one user, one at a time; as no request writes,
several at once would not influence each other. Each action is one statement:
`FindDetail`, `FindOwn`, `CountDetail`, `AnswerDetail`; `FindForMembers`,
`FindMembers`; `FindForResults`, `CheckAccess`, `FindResults` (its two queries in
either order), `AnswerResults`; `CountReservations`, `CountSuccesses` (or
`CountNothing`, which any error becomes); `FindForPoke`, `FindMemberships`,
`FindPoked`, `Send`; and for each page `FindPage`, `CountPage`,
`FindParticipants`. `ListFirst` and `ListNext` are a client that follows
`hasNext`. `base` keeps what was so at the first statement and `walk` the pages
seen, for the properties to compare with. The statements TypeORM makes of one
page (the ids, then the rows) are one action; only a move between them could
tell, and `WalkComplete` excludes moves. A walk is `Undisturbed` if no
reservation was moved, none dropped out of the list that was in it when some page
was read (`listed`), and no two have one time; newcomers are allowed. `CountPage` is
always a statement of its own: TypeORM leaves it out when a page is not full, and
counts what it has just read, which is `CountPage` with nothing in between.

## 3. The runs

| run | instance | what it shows |
|---|---|---|
| `membership_safety` | 4 users, 1 reservation, 2 connections, maximum 2, 2 faults, fair | creation is all or nothing, answers stay true, a join succeeds once, the overshoot is bounded and reached, `Roster` is implemented, every request is answered |
| `membership_capacity` | 3 users, 1 reservation | **violated**: more members than the maximum |
| `participation_requests` | 1 user, 2 request slots, clock 0..2, 1 move, 1 fault, fair | `Ledger` is implemented, final statuses have their result, nobody becomes ready early for every time the reservation had during the request, every request ends |
| `participation_announce` | 2 users, one without a token, 2 slots | the host is told before anybody is shown as ready; the inductive invariant |
| `participation_early_result` | 1 user, clock 0..2 | **violated**: a result before the reservation takes place |
| `edit_albums` | 1 user, 2 slots, 2 edits, clock 0..2, 1 fault, fair | `Schedule` is implemented; an edit writes only what its request carries, unless crossed; edits that write replace each other's pictures; others leave at most one album per slot; every edit ends, no deadlock between row and pictures |
| `edit_pictures` | 2 slots, 2 edits | **violated**: two edits of the pictures leave both albums |
| `notifications_once` | 2 reservations, 3 types, 2 jobs, a midnight, 1 move, 1 fault | no notification twice for one time, an honest cache, nobody forgotten |
| `notifications_reminded` | 1 reservation, 2 members, 4 types, 2 overlapping jobs, fair | who is due is notified, without failures and moves |
| `notifications_moved` | 1 reservation, 1 move | **violated**: no notification for the new time of a moved reservation |
| `accounts_requests` | 1 device, 2 ids, 1 setting of 2 values, 2 tokens, 2 slots, 1 fault, fair | `Directory` is implemented, answers stay true, columns change on request only unless a save was crossed, every request ends |
| `views_answers` | 2 users, 3 reservations, clock 0..2, 1 move, 3 rows, pages of 1 | details, results, members, statistics and pokes are honest; pages leave nothing out |

**Why the bounds are enough.** The hazards are races of two transactions on one
row or key, or of one transaction with the clock or the host, so two slots
suffice; slots are used again and again, so sequences of requests are covered.
Two edits are enough for `edit_albums`: each of its properties
relates the pictures of two edits, and a slot that has committed one starts
over, and `ScheduleSpec` relates the
times of two, on a clock that can pass either of two times; the time is then the
column an edit writes, and one title is enough. With one user every edit is the host's; the refusal of others reads one
row and writes none. Pages of one row and three reservations are the smallest list
in which a page can shift twice: an entry that comes in and drops out again
between two pages moves the rest back and forth, and a client that reads on
misses one. With pages of one row or two (`PageSizes = {1, 2}`, 1.1 million states) the
run passes as well. One edit that moves a reservation (`MaxMoves = 1`, committed or open)
is enough to invalidate whatever a request has read of its time; `Participation`,
and `Tables` against its three abstract views, pass with two as well. Two ids for one device let a second account
appear if anything allowed it. A maximum of 2 with four
users is the smallest at which a reservation can be full, exceeded, and still
leave somebody out. One fault is placed at every point of every operation. The
hour before a reservation is one tick, or three minutes in `Notifications`,
where the four types keep their order and distances shrink;
`notifications_once` leaves out the first of the four, since two types before the
reservation and one after it already overlap in two jobs (with all four, 4.2
million states, it passes as well). The proofs (section
5) remove these bounds for the safety properties.

In `notifications_once`, `accounts_requests` and `views_answers` the type
invariant is checked as the first conjunct of `IInv`.

**Symmetry** is used in runs without temporal properties only, over sets whose elements are only
compared for equality. Deadlock is
checked in all runs; in `Notifications` the action `Rest` marks the end of the
clock.

**Fairness.** `FairSpec` assumes weak fairness of `Advance`, per connection,
request or job: Node's event loop runs every callback and PostgreSQL and
Firebase answer, or else report an error, which is a fault action. While a
step waits for a lock it is not enabled, so fairness does not promise that the
lock comes: that it does is what `RequestsEnd` shows. Nothing is assumed of
clients, clock, failures and restarts.

## 4. Where the code and its documentation differ

* `membership_capacity`: concurrent joins exceed "최대 참가자 수".
* `participation_early_result`: `createReservationResult` documents
  `RESERVATION_NOT_DONE` and never looks at the time.
* `edit_pictures`: "이미지는 최대 3개까지만 업로드 가능합니다." holds for each
  request and not for the reservation.
* `notifications_moved`: a reservation already announced and then moved is not
  announced again until the cache is cleared, since the key has no time in it.

Seen while modelling, and no run of their own yet: a second concurrent join of
one user ends with 500 instead of `ALREADY_JOINED` (`Insert`, answer
"UniqueViolation"); `updateUserStatus` has a lower and no upper bound in time,
and reads the time three statements before it saves (`ReadyInTime` says what that
amounts to); it may undo the status a result has set; an edit accepted just
before the new time commits after it; a push in flight while its reservation is
moved can be repeated; `updateUserSettings` promises "요청으로 온 필드만
업데이트" and puts back an FCM token or a setting that was stored between its
first read and the one of `save` (`OnlyRequested` names the case); a second
concurrent sign-up of one device ends with 500, while `DUPLICATE_DEVICE` is used
nowhere; the success rate can exceed 100 (`SuccessesJoined` names the case);
pages are cut by offset and ordered by a time that is not unique, so entries
repeat or are skipped when rows come in, move or leave the filter
(`WalkComplete` names the cases in which they are not skipped: newcomers do no
harm while nothing leaves, and one that comes and goes shifts an entry out of
sight); a crossed edit puts back columns it was not asked to change
(`OnlyRequested` of `ReservationEdit`);
`kokUserInReservation` does not read `kokAlarmSetting`; `createNotificationTargets` does not read
`reservationAlarmSetting`.

## 5. The proofs

`MembershipProofs`, `ParticipationProofs`, `ReservationEditProofs`,
`NotificationsProofs`, `AccountsProofs`, `ViewsProofs` and `WalkProofs` hold
theorems for every value of the constants: any number of users, slots,
connections, moves, faults, pages and minutes. They assume what the `ASSUME`s of
the modules say: bounds are natural numbers, `Connections` and `Requests` are
finite, the markers (`NoUser`, ...) are not values of the sets they complement. In each, the properties do not follow from
themselves and an inductive invariant `IInv` carries them:

* **Membership.** `OvershootBounded` becomes inductive as `PlacesBounded`:
  members and the joins past the count share the places below the limit. A join
  that finds a count below the maximum adds one to the second number, and a
  commit moves one from it to the first; no more than `|Connections|` can be
  past the count. This needs `KeysExclusive` (the commit adds a *new* member)
  and `IdsOwned` (two creations never share an id, and nothing is visible of
  one before it commits), which also gives `HostIsMember` and the refinement
  of `Roster`.
* **Participation.** `ResultsExclusive` (one uncommitted result per user, none
  beside a committed one) makes `Participation` implement `Ledger`; `StatusHasResult` survives
  stale saves because these only write `DEFAULT` or `READY`. `CheckedInTime`
  and `HostTold` carry what was checked or announced to the moment of the save: a
  time once in `held` stays there, and the clock does not go back, so `ReadyInTime`
  holds for any number of moves.
* **ReservationEdit.** `RowExclusive` orders the transactions that write the
  row, so each sees the albums of those before it (`WritersAlbumsSeen`), and
  each DELETE sees what its own slot inserted (`OwnAlbumsSeen`); hence
  `OneAlbumEach`, and `AlbumsBounded` by an injection from albums to slots. The
  refinement of `Schedule` needs no more than `TypeOK`. `EntitiesCurrent` (the
  entity of an edit nobody crossed is the row with its fields assigned) makes the
  columns that `save` finds different those of the request: `OnlyRequested`.
* **Notifications.** `MinutesDiffer` (running jobs are those of different
  minutes), `TargetsAtType` and `PushesOnTime` determine from a push the minute
  of its job: the time of the reservation less the type. Two pushes with one
  key and one time therefore come from one minute, and are the same. That a job
  forgets nobody is carried by `OwedServed`: whoever it owes a notification has
  been pushed it, or waits among its targets, or belongs to a reservation whose
  members it has still to read; the cache may take the place of the push because
  of `CacheSound`, and `TimesKept` and `PushesOnTime` show that, while nothing is
  moved, that push is this job's own. `SchedulesFollowed` says that moves are
  those of `Schedule`.
* **Accounts.** `OneAccount` is what the unique device id keeps, and with
  `AccountsFound` gives the answers and the refinement of `Directory`.
  `EntitiesCurrent` says that the entity of a request nobody crossed is the row
  with its fields assigned, so the columns it saves are the ones it was asked to
  change; this is `OnlyRequested`.
* **Views.** Rows are only added (`TablesGrow` in the proofs), so what a request
  has read lies between what was so at its first statement and what is so now:
  `DetailSoFar`, `ResultsSoFar`, `CountsSoFar`. The time read for the results is
  the reservation's unless a move was committed, and the clock does not go back.
  `LedgersFollowed` and `SchedulesFollowed` show that members, results and times of
  each reservation change only as the abstract views of the writers allow.
* **Walk.** A page is cut from the list in its order, so what matters is the
  *place* of an entry: how many come before it. `WalkInv` says that whatever has
  a place before the end of the page in service has been seen. A newcomer only
  moves others back, past what was read, and nothing moves forward in an
  undisturbed walk; when the last page is read, every place lies before its end.
  So no induction over the pages is needed, and `WalksComplete` holds for any
  page sizes. `Undisturbed` has to speak of `listed` and not of the entries of the
  first page only: an entry that comes in and drops out again between two pages
  shifts another one, which TLC finds with three reservations and the proof needs.

The abstract views close the circle: `Membership`, `Participation` and
`ReservationEdit` are proved to implement `Roster`, `Ledger` and `Schedule`, and
another module that lets the same rows change around it does so by these views.
Where their actions are taken as they are, as the moves in `Participation` and the
creations and joins in `Tables`, there is nothing to prove; where the module has
actions of its own for them, that these are steps of the view is proved
(`LedgersFollowed` and `SchedulesFollowed` of `ViewsProofs`, `SchedulesFollowed` of
`NotificationsProofs`). `ViewsProofs` holds for every `Limit`, the one `Membership`
implements `Roster` with included. Only the joins around `Participation` and
`Notifications` are freer than `Roster`: no limit applies to them.

`TypeCorrect` and `Invariance` (of `IInv`) are proved for each module (`WalkProofs`
adds `WalkInvariance` to those of `ViewsProofs`); `PROJECT.json` lists the
theorems and the property each of them generalises.

**Only model-checked:** the liveness properties (`RequestsEnd`, `Reminded`),
which rest on fairness and on `ENABLED`, and the disagreements of section 4.

## 6. What is not modelled

* Authentication, validation of request bodies, formats and wording; a request
  in a module is one that has passed them.
* The pictures of `createReservation` and of results, beyond
  `ReservationEdit`'s `Create`: they are inserted in the same transaction.
* What decorates answers: copied columns, presigned URLs, profile codes, the
  percentage of the statistics. A URL that cannot be signed is left out of an
  answer, or fails a sign-up (`Fail`).
* How `sendNotification` classifies Firebase's errors (`Send` has success and
  failure), and the endpoint `firebase/test`, which only calls it.
* Links, code tables, migrations, the exception filter and its call to Slack:
  no state the program decides about.
* Exhaustion of the connection pool: a request that waits for a connection has
  not started. `Views` has no pool at all.
* Deletion: no operation of the program deletes a reservation or a membership.

## 7. Plan

Done: `Membership` with `Roster`, `Participation` with `Ledger`,
`ReservationEdit` with `Schedule`, `Notifications`, `Accounts` with `Directory`, and `Views` over
`Tables`, each with its proofs. What is left, in this order:

1. Creations and joins in the surroundings of `Participation` and `Notifications` as
   steps of `Roster`, as the moves are of `Schedule`.
2. The pool of connections with the requests that wait for it.
