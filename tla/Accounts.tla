-------------------------------- MODULE Accounts --------------------------------
(***************************************************************************)
(* The accounts of the users table: signing up or in with a device         *)
(* (auth.service.ts), changing settings and storing the FCM token          *)
(* (users.service.ts, users.repository.ts).                                *)
(*                                                                         *)
(* The processes are the requests in service; each action is one awaited   *)
(* statement with the code that runs before the next.  No operation opens  *)
(* a transaction around its statements.  save of an entity that was read   *)
(* before reads the row again and updates the columns in which the entity  *)
(* differs from it; save of a new one is an INSERT.  Accounts are never    *)
(* removed, so the row that the guard finds for a token stays there.       *)
(*                                                                         *)
(* Each definition marked "Bug:" is a plausible error in the one after it, *)
(* kept to show that some property of the module would notice it.          *)
(***************************************************************************)
EXTENDS Integers

CONSTANTS
    Devices,
    Ids,            \* the ids the sequence of the users table hands out
    Settings,       \* the columns PATCH /users/me may carry
    Values,         \* what a setting may hold
    Profiles,       \* the settings a new account may start with
    Tokens,         \* FCM tokens
    Requests,       \* requests that may be in service at the same time
    MaxFaults,      \* bound on failed statements and restarts in a behaviour
    Undefined, NoToken, NoId, NoDevice, NoRow, NoRequest

Columns == Settings \union {"fcmToken"}
Cell == Values \union Tokens \union {NoToken}

\* A row of users: its device, and the columns that requests may change.
Row == [device : Devices, column : [Columns -> Cell]]

\* The settings of PATCH /users/me, each of them optional.
Body == [Settings -> Values \union {Undefined}]

SignUpRequest == [op : {"signUp"}, device : Devices, profile : Profiles]
SettingsRequest == [op : {"settings"}, id : Ids, body : Body]
TokenRequest == [op : {"token"}, id : Ids, token : Tokens]
Request == SignUpRequest \union SettingsRequest \union TokenRequest

ASSUME MaxFaultsAssumption == MaxFaults \in Nat
ASSUME SettingsAssumption == "fcmToken" \notin Settings
ASSUME ProfilesAssumption == Profiles \subseteq [Settings -> Values]
ASSUME NothingAssumption ==
    /\ NoId \notin Ids /\ NoDevice \notin Devices /\ NoRow \notin Row
    /\ Undefined \notin Values
    /\ NoRequest \notin Request

VARIABLES
    users,      \* the committed rows, by id
    pc,         \* what a request does next, "idle" when the slot serves none
    req,        \* the slot's last request
    account,    \* the account a sign-up found or created
    entity,     \* the columns of the row a settings request read, with its own assigned
    diff,       \* the columns save found to differ
    crossed,    \* the settings requests whose account was written since they read it
    answer,     \* how the last request of the slot was answered
    faults

private == <<account, entity, diff>>
vars == <<users, pc, req, private, crossed, answer, faults>>

SigningUp == {"insert", "sign"}
Saving == {"reload", "update"}
Outcomes == {"none", "signedUp", "updated", "stored", "UserNotFound",
             "UniqueViolation", "ServerError"}

Exists(i) == users[i] # NoRow

TypeOK ==
    /\ users \in [Ids -> Row \union {NoRow}]
    /\ pc \in [Requests -> {"idle", "setToken"} \union SigningUp \union Saving]
    /\ req \in [Requests -> Request \union {NoRequest}]
    /\ account \in [Requests -> Ids \union {NoId}]
    /\ entity \in [Requests -> [Columns -> Cell] \union {NoRow}]
    /\ diff \in [Requests -> SUBSET Columns]
    /\ crossed \in SUBSET Requests
    /\ answer \in [Requests -> Outcomes]
    /\ faults \in 0..MaxFaults
    /\ \A q \in Requests :
           /\ pc[q] \in SigningUp \/ answer[q] = "signedUp" => req[q] \in SignUpRequest
           /\ pc[q] = "sign" \/ answer[q] = "signedUp" => account[q] \in Ids
           /\ pc[q] \in Saving => req[q] \in SettingsRequest /\ entity[q] \in [Columns -> Cell]
           /\ pc[q] = "setToken" \/ answer[q] = "stored" => req[q] \in TokenRequest

Init ==
    /\ users = [i \in Ids |-> NoRow]
    /\ pc = [q \in Requests |-> "idle"]
    /\ req = [q \in Requests |-> NoRequest]
    /\ account = [q \in Requests |-> NoId]
    /\ entity = [q \in Requests |-> NoRow]
    /\ diff = [q \in Requests |-> {}]
    /\ crossed = {}
    /\ answer = [q \in Requests |-> "none"]
    /\ faults = 0

-------------------------------------------------------------------------------
Goto(q, label) ==
    /\ pc' = [pc EXCEPT ![q] = label]
    /\ answer' = [answer EXCEPT ![q] = "none"]

\* The request ends, and with it the entity it read.
Finish(q, outcome) ==
    /\ pc' = [pc EXCEPT ![q] = "idle"]
    /\ answer' = [answer EXCEPT ![q] = outcome]
    /\ entity' = [entity EXCEPT ![q] = NoRow]
    /\ diff' = [diff EXCEPT ![q] = {}]

\* A request takes an idle slot; a sign-up may find its account at once.
Receive(q, r, i) ==
    /\ pc[q] = "idle"
    /\ req' = [req EXCEPT ![q] = r]
    /\ account' = [account EXCEPT ![q] = i]
    /\ crossed' = crossed \ {q}

\* The settings requests other than q that have read row i and not yet again.
Readers(q, i) == {p \in Requests \ {q} : pc[p] = "reload" /\ req[p].id = i}

\* A row with the columns in names taken from values.
Overwrite(row, names, values) ==
    [row EXCEPT !.column = [c \in Columns |-> IF c \in names THEN values[c] ELSE row.column[c]]]

\* Request q writes columns of account i.
Write(q, i, names, values) ==
    /\ users' = [users EXCEPT ![i] = Overwrite(users[i], names, values)]
    /\ crossed' = crossed \union Readers(q, i)

-------------------------------------------------------------------------------
(* signUp *)

Registered(d) == \E i \in Ids : Exists(i) /\ users[i].device = d

\* findUserByDeviceId.
FindDevice(q, d, p) ==
    LET r == [op |-> "signUp", device |-> d, profile |-> p] IN
    /\ \/ /\ ~ Registered(d)
          /\ Receive(q, r, NoId)
          /\ Goto(q, "insert")
       \/ \E i \in Ids :
              /\ Exists(i) /\ users[i].device = d
              /\ Receive(q, r, i)
              /\ Goto(q, "sign")
    /\ UNCHANGED <<users, entity, diff, faults>>

\* The row of a new account: the settings of the sign-up or their defaults, no token.
NewRow(d, p) ==
    [device |-> d,
     column |-> [c \in Columns |-> IF c = "fcmToken" THEN NoToken ELSE p[c]]]

\* The INSERT takes an id and commits.
AddUser(q, i) ==
    /\ pc[q] = "insert"
    /\ ~ Exists(i)
    /\ users' = [users EXCEPT ![i] = NewRow(req[q].device, req[q].profile)]

\* Bug: nothing makes the device unique in the table.
InsertUserAnyway(q) ==
    \E i \in Ids :
        /\ AddUser(q, i)
        /\ account' = [account EXCEPT ![q] = i]
        /\ Goto(q, "sign")
        /\ UNCHANGED <<req, entity, diff, crossed, faults>>

\* Bug: a conflict is ignored, and the entity that was not saved is signed.
InsertUserIgnored(q) ==
    \E i \in Ids :
        /\ pc[q] = "insert"
        /\ ~ Exists(i)
        /\ users' = IF Registered(req[q].device) THEN users
                    ELSE [users EXCEPT ![i] = NewRow(req[q].device, req[q].profile)]
        /\ account' = [account EXCEPT ![q] = i]
        /\ Goto(q, "sign")
        /\ UNCHANGED <<req, entity, diff, crossed, faults>>

\* createUser: a device registered in the meantime violates the unique column, and
\* nothing turns that error into an answer of its own.
InsertUser(q) ==
    \/ /\ pc[q] = "insert"
       /\ Registered(req[q].device)
       /\ Finish(q, "UniqueViolation")
       /\ UNCHANGED <<users, req, account, crossed, faults>>
    \/ \E i \in Ids :
           /\ AddUser(q, i)
           /\ ~ Registered(req[q].device)
           /\ account' = [account EXCEPT ![q] = i]
           /\ Goto(q, "sign")
           /\ UNCHANGED <<req, entity, diff, crossed, faults>>

\* The access token and the picture's URL are signed, and the sign-up is answered.
Sign(q) ==
    /\ pc[q] = "sign"
    /\ Finish(q, "signedUp")
    /\ UNCHANGED <<users, req, account, crossed, faults>>

-------------------------------------------------------------------------------
(* updateUserSettings *)

\* Bug: fields the request does not carry are assigned like the others.
AssignAll(columns, body) ==
    [c \in Columns |-> IF c \in Settings THEN body[c] ELSE columns[c]]

\* The columns of the user it read, with the fields of the request assigned.
Assign(columns, body) ==
    [c \in Columns |-> IF c \in Settings /\ body[c] # Undefined THEN body[c] ELSE columns[c]]

Requested(body) == {c \in Settings : body[c] # Undefined}

FindForSettings(q, i, b) ==
    /\ Receive(q, [op |-> "settings", id |-> i, body |-> b], NoId)
    /\ IF Exists(i)
       THEN /\ Goto(q, "reload")
            /\ entity' = [entity EXCEPT ![q] = Assign(users[i].column, b)]
            /\ UNCHANGED diff
       ELSE Finish(q, "UserNotFound")
    /\ UNCHANGED <<users, faults>>

\* Bug: every column of the entity is saved.
ReloadNothing(q) ==
    /\ pc[q] = "reload"
    /\ diff' = [diff EXCEPT ![q] = Columns]
    /\ Goto(q, "update")
    /\ UNCHANGED <<users, req, account, entity, crossed, faults>>

\* Bug: a row that is not as it was read makes the request read it once more.
UpdateRepeated(q) ==
    /\ pc[q] = "update"
    /\ IF q \in crossed
       THEN /\ Goto(q, "reload")
            /\ crossed' = crossed \ {q}
            /\ UNCHANGED <<users, entity, diff>>
       ELSE /\ Write(q, req[q].id, diff[q], entity[q])
            /\ Finish(q, "updated")
    /\ UNCHANGED <<req, account, faults>>

\* save reads the row again; updatedAt always differs, so an UPDATE follows.
Reload(q) ==
    LET row == users[req[q].id] IN
    /\ pc[q] = "reload"
    /\ diff' = [diff EXCEPT ![q] = {c \in Columns : entity[q][c] # row.column[c]}]
    /\ Goto(q, "update")
    /\ UNCHANGED <<users, req, account, entity, crossed, faults>>

SaveSettings(q) ==
    /\ pc[q] = "update"
    /\ Write(q, req[q].id, diff[q], entity[q])
    /\ UNCHANGED <<req, account>>

Update(q) ==
    /\ SaveSettings(q)
    /\ Finish(q, "updated")
    /\ UNCHANGED faults

-------------------------------------------------------------------------------
(* updateFcmToken *)

FindForToken(q, i, t) ==
    /\ Receive(q, [op |-> "token", id |-> i, token |-> t], NoId)
    /\ IF Exists(i)
       THEN Goto(q, "setToken") /\ UNCHANGED <<entity, diff>>
       ELSE Finish(q, "UserNotFound")
    /\ UNCHANGED <<users, faults>>

StoreToken(q) ==
    /\ pc[q] = "setToken"
    /\ Write(q, req[q].id, {"fcmToken"}, [c \in Columns |-> req[q].token])
    /\ UNCHANGED <<req, account>>

SetToken(q) ==
    /\ StoreToken(q)
    /\ Finish(q, "stored")
    /\ UNCHANGED faults

-------------------------------------------------------------------------------
(* A statement, or a signature, fails and the request ends with 500; the      *)
(* statement may have taken effect all the same; or the process restarts.     *)

Fault ==
    /\ faults < MaxFaults
    /\ faults' = faults + 1

Fail(q) ==
    /\ Fault
    /\ pc[q] # "idle"
    /\ Finish(q, "ServerError")
    /\ UNCHANGED <<users, req, account, crossed>>

LoseAcknowledgement(q) ==
    /\ Fault
    /\ \/ SaveSettings(q)
       \/ StoreToken(q)
       \/ /\ \E i \in Ids : AddUser(q, i)
          /\ ~ Registered(req[q].device)
          /\ UNCHANGED <<req, account, crossed>>
    /\ Finish(q, "ServerError")

Restart ==
    /\ Fault
    /\ pc' = [q \in Requests |-> "idle"]
    /\ req' = [q \in Requests |-> NoRequest]
    /\ account' = [q \in Requests |-> NoId]
    /\ entity' = [q \in Requests |-> NoRow]
    /\ diff' = [q \in Requests |-> {}]
    /\ crossed' = {}
    /\ answer' = [q \in Requests |-> "none"]
    /\ UNCHANGED users

-------------------------------------------------------------------------------
Advance(q) == InsertUser(q) \/ Sign(q) \/ Reload(q) \/ Update(q) \/ SetToken(q)

\* Whoever sends an access token got it from a sign-up, after its account's INSERT.
Arrive(q) ==
    \/ \E d \in Devices, p \in Profiles : FindDevice(q, d, p)
    \/ \E i \in {k \in Ids : Exists(k)} :
           \/ \E b \in Body : FindForSettings(q, i, b)
           \/ \E t \in Tokens : FindForToken(q, i, t)

Next ==
    \/ \E q \in Requests : Arrive(q) \/ Advance(q) \/ Fail(q) \/ LoseAcknowledgement(q)
    \/ Restart

\* The requests in service go on; clients and failures need not.
Fairness == \A q \in Requests : WF_vars(Advance(q))

Spec == Init /\ [][Next]_vars

FairSpec == Spec /\ Fairness

-------------------------------------------------------------------------------
(* Safety *)

\* Accounts behave as Directory promises: concurrent sign-ups of one device, and
\* sign-ups repeated after a failure, end in one account, which keeps its device.
Accounted == INSTANCE Directory
    WITH owner <- [i \in Ids |-> IF Exists(i) THEN users[i].device ELSE NoDevice]
DirectorySpec == Accounted!Spec

\* What a client was told stays true: the account a sign-up was answered with is
\* the device's, after the constraint's error the device is registered (another
\* try signs in), and nobody who has signed up is ever unknown.
AnswersHold ==
    \A q \in Requests :
        /\ answer[q] = "signedUp" =>
               Exists(account[q]) /\ users[account[q]].device = req[q].device
        /\ answer[q] = "UniqueViolation" => Registered(req[q].device)
        /\ answer[q] # "UserNotFound"

\* A column of an account changes only on the request of somebody who asked for
\* it, unless another request wrote the account between the two reads of a
\* settings request: then that request puts back all it read first, also the
\* FCM token that had been replaced.
OnlyRequested ==
    [][\A i \in Ids, c \in Columns :
           Exists(i) /\ users'[i].column[c] # users[i].column[c] =>
               \E q \in Requests :
                   /\ pc[q] \in {"update", "setToken"} /\ pc'[q] = "idle"
                   /\ req[q].id = i
                   /\ IF pc[q] = "update"
                      THEN c \in Requested(req[q].body) \/ q \in crossed
                      ELSE c = "fcmToken"]_vars

-------------------------------------------------------------------------------
(* The inductive invariant behind the safety properties *)

\* A device has one account at most.
OneAccount ==
    \A i, j \in Ids : Exists(i) /\ Exists(j) /\ users[i].device = users[j].device => i = j

\* Requests past their first read are about accounts that exist.
AccountsFound ==
    \A q \in Requests :
        /\ pc[q] = "sign" => Exists(account[q]) /\ users[account[q]].device = req[q].device
        /\ pc[q] \in Saving \union {"setToken"} => Exists(req[q].id)

\* The entity of a request nobody crossed is the row with its fields assigned.
EntitiesCurrent ==
    \A q \in Requests \ crossed :
        /\ pc[q] = "reload" => entity[q] = Assign(users[req[q].id].column, req[q].body)
        /\ pc[q] = "update" => diff[q] \subseteq Requested(req[q].body)

IInv == TypeOK /\ OneAccount /\ AccountsFound /\ EntitiesCurrent /\ AnswersHold

-------------------------------------------------------------------------------
(* Liveness *)

\* Every request ends.
RequestsEnd == \A q \in Requests : pc[q] # "idle" ~> pc[q] = "idle"
===============================================================================
