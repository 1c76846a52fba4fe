---------------------------- MODULE AccountsProofs ----------------------------
(***************************************************************************)
(* Theorems about Accounts, for any devices, settings, values and tokens,  *)
(* any number of requests in service and any bound on faults.              *)
(***************************************************************************)
EXTENDS Accounts, TLAPS

USE DEF SigningUp, Saving, private

\* What the requests carry.
LEMMA Bodies ==
    /\ \A d \in Devices, p \in Profiles :
           [op |-> "signUp", device |-> d, profile |-> p] \in SignUpRequest
    /\ \A i \in Ids, b \in Body : [op |-> "settings", id |-> i, body |-> b] \in SettingsRequest
    /\ \A i \in Ids, t \in Tokens : [op |-> "token", id |-> i, token |-> t] \in TokenRequest
    /\ \A r \in SignUpRequest :
           r \in Request /\ r.op = "signUp" /\ r.device \in Devices /\ r.profile \in Profiles
    /\ \A r \in SettingsRequest :
           r \in Request /\ r.op = "settings" /\ r.id \in Ids /\ r.body \in Body
    /\ \A r \in TokenRequest :
           r \in Request /\ r.op = "token" /\ r.id \in Ids /\ r.token \in Tokens
BY DEF Request, SignUpRequest, SettingsRequest, TokenRequest

\* A new account's row is one.
LEMMA NewRowType ==
    ASSUME NEW d \in Devices, NEW p \in Profiles
    PROVE  NewRow(d, p) \in Row /\ NewRow(d, p).device = d
<1>1. \A c \in Columns \ {"fcmToken"} : p[c] \in Values
  BY ProfilesAssumption DEF Columns
<1>2. [c \in Columns |-> IF c = "fcmToken" THEN NoToken ELSE p[c]] \in [Columns -> Cell]
  BY <1>1 DEF Cell
<1> QED
  BY <1>2 DEF NewRow, Row

\* Assigning the fields of a request to columns yields columns.
LEMMA AssignType ==
    ASSUME NEW columns \in [Columns -> Cell], NEW body \in Body
    PROVE  Assign(columns, body) \in [Columns -> Cell]
<1>1. \A c \in Settings : body[c] # Undefined => body[c] \in Values
  BY DEF Body
<1> QED
  BY <1>1 DEF Assign, Cell

\* Overwriting columns of a row yields a row of the same device.
LEMMA OverwriteType ==
    ASSUME NEW row \in Row, NEW names \in SUBSET Columns, NEW values \in [Columns -> Cell]
    PROVE  /\ Overwrite(row, names, values) \in Row
           /\ Overwrite(row, names, values).device = row.device
           /\ \A c \in Columns : Overwrite(row, names, values).column[c] =
                                     IF c \in names THEN values[c] ELSE row.column[c]
<1> DEFINE column == [c \in Columns |-> IF c \in names THEN values[c] ELSE row.column[c]]
<1>1. column \in [Columns -> Cell]
  BY DEF Row
<1>2. Overwrite(row, names, values) = [device |-> row.device, column |-> column]
  BY DEF Overwrite, Row
<1> QED
  BY <1>1, <1>2 DEF Row

-------------------------------------------------------------------------------
(* What the steps do to the table *)

\* A write replaces columns of one account by cells.
Writes(i) ==
    \E names \in SUBSET Columns, values \in [Columns -> Cell] :
        users' = [users EXCEPT ![i] = Overwrite(users[i], names, values)]

\* An account is opened for a device that has none.
Opens(i, d) ==
    /\ ~ Exists(i) /\ ~ Registered(d)
    /\ \E p \in Profiles : users' = [users EXCEPT ![i] = NewRow(d, p)]

LEMMA Written ==
    ASSUME TypeOK, NEW q \in Requests, AccountsFound, SaveSettings(q) \/ StoreToken(q)
    PROVE  req[q].id \in Ids /\ Exists(req[q].id) /\ Writes(req[q].id)
<1>1. CASE SaveSettings(q)
  BY <1>1, Bodies DEF SaveSettings, Write, Writes, TypeOK, AccountsFound
<1>2. CASE StoreToken(q)
  <2>1. req[q].id \in Ids /\ req[q].token \in Tokens /\ Exists(req[q].id)
    BY <1>2, Bodies DEF StoreToken, TypeOK, AccountsFound
  <2>2. [c \in Columns |-> req[q].token] \in [Columns -> Cell] /\ {"fcmToken"} \in SUBSET Columns
    BY <2>1 DEF Cell, Columns
  <2> QED
    BY <1>2, <2>1, <2>2 DEF StoreToken, Write, Writes
<1> QED
  BY <1>1, <1>2

LEMMA Opened ==
    ASSUME TypeOK, NEW q \in Requests, NEW i \in Ids, AddUser(q, i), ~ Registered(req[q].device)
    PROVE  req[q].device \in Devices /\ Opens(i, req[q].device)
BY Bodies DEF AddUser, Opens, TypeOK

\* Every step opens one account, writes one that exists, or leaves the table alone.
LEMMA UsersStep ==
    ASSUME TypeOK, AccountsFound, [Next]_vars
    PROVE  \/ UNCHANGED users
           \/ \E i \in Ids : Exists(i) /\ Writes(i)
           \/ \E i \in Ids, d \in Devices : Opens(i, d)
BY Written, Opened
   DEF Next, Advance, Arrive, FindDevice, FindForSettings, FindForToken, InsertUser, Sign, Reload,
       Update, SetToken, Fail, LoseAcknowledgement, Restart, vars

\* Accounts stay, and keep their devices.
LEMMA AccountsStay ==
    ASSUME TypeOK, AccountsFound, [Next]_vars
    PROVE  /\ users' \in [Ids -> Row \union {NoRow}]
           /\ \A i \in Ids : Exists(i) => users'[i] # NoRow /\ users'[i].device = users[i].device
<1> USE NothingAssumption DEF TypeOK, Exists
<1>1. ASSUME NEW i \in Ids, Exists(i), Writes(i)
      PROVE  /\ users' \in [Ids -> Row \union {NoRow}]
             /\ \A j \in Ids : Exists(j) => users'[j] # NoRow /\ users'[j].device = users[j].device
  <2>1. PICK names \in SUBSET Columns, values \in [Columns -> Cell] :
            users' = [users EXCEPT ![i] = Overwrite(users[i], names, values)]
    BY <1>1 DEF Writes
  <2>2. users[i] \in Row
    BY <1>1
  <2>3. /\ Overwrite(users[i], names, values) \in Row
        /\ Overwrite(users[i], names, values).device = users[i].device
    BY ONLY <2>2, OverwriteType
  <2> QED
    BY <2>1, <2>3
<1>2. ASSUME NEW i \in Ids, NEW d \in Devices, Opens(i, d)
      PROVE  /\ users' \in [Ids -> Row \union {NoRow}]
             /\ \A j \in Ids : Exists(j) => users'[j] # NoRow /\ users'[j].device = users[j].device
  BY <1>2, NewRowType DEF Opens
<1> QED
  BY <1>1, <1>2, UsersStep

-------------------------------------------------------------------------------
(* The parts of the inductive invariant *)

LEMMA TypeStep == TypeOK /\ AccountsFound /\ [Next]_vars => TypeOK'
<1> SUFFICES ASSUME TypeOK, AccountsFound, [Next]_vars
             PROVE  TypeOK'
  OBVIOUS
<1>1. users' \in [Ids -> Row \union {NoRow}]
  BY AccountsStay
<1> USE DEF TypeOK, Outcomes
<1>2. ASSUME NEW q \in Requests, NEW d \in Devices, NEW p \in Profiles, FindDevice(q, d, p)
      PROVE  TypeOK'
  <2> DEFINE r == [op |-> "signUp", device |-> d, profile |-> p]
  <2>1. r \in SignUpRequest /\ r \in Request
    BY Bodies
  <2> HIDE DEF r
  <2>2. CASE Receive(q, r, NoId) /\ Goto(q, "insert") /\ UNCHANGED <<entity, diff, faults>>
    BY <1>1, <2>1, <2>2 DEF Receive, Goto
  <2>3. ASSUME NEW i \in Ids, Receive(q, r, i), Goto(q, "sign"), UNCHANGED <<entity, diff, faults>>
        PROVE  TypeOK'
    BY <1>1, <2>1, <2>3 DEF Receive, Goto
  <2> QED
    BY <1>2, <2>2, <2>3 DEF FindDevice, r
<1>3. ASSUME NEW q \in Requests, InsertUser(q)
      PROVE  TypeOK'
  <2>1. ASSUME NEW i \in Ids, pc[q] = "insert", account' = [account EXCEPT ![q] = i],
               Goto(q, "sign"), UNCHANGED <<req, entity, diff, crossed, faults>>
        PROVE  TypeOK'
    BY <1>1, <2>1 DEF Goto
  <2>2. CASE pc[q] = "insert" /\ Finish(q, "UniqueViolation") /\ UNCHANGED <<req, account, crossed, faults>>
    BY <1>1, <2>2 DEF Finish
  <2> QED
    BY <1>3, <2>1, <2>2 DEF InsertUser, AddUser
<1>4. ASSUME NEW q \in Requests, Sign(q)
      PROVE  TypeOK'
  BY <1>1, <1>4 DEF Sign, Finish
<1>5. ASSUME NEW q \in Requests, NEW i \in Ids, NEW b \in Body, Exists(i), FindForSettings(q, i, b)
      PROVE  TypeOK'
  <2>1. users[i].column \in [Columns -> Cell]
    BY <1>5 DEF Exists, Row
  <2>2. Assign(users[i].column, b) \in [Columns -> Cell]
    BY <2>1, AssignType
  <2> QED
    BY <1>1, <1>5, <2>2, Bodies DEF FindForSettings, Receive, Goto, Finish
<1>6. ASSUME NEW q \in Requests, Reload(q)
      PROVE  TypeOK'
  BY <1>1, <1>6 DEF Reload, Goto
<1>7. ASSUME NEW q \in Requests, Update(q)
      PROVE  TypeOK'
  BY <1>1, <1>7 DEF Update, SaveSettings, Write, Readers, Finish
<1>8. ASSUME NEW q \in Requests, NEW i \in Ids, NEW t \in Tokens, FindForToken(q, i, t)
      PROVE  TypeOK'
  BY <1>1, <1>8, Bodies DEF FindForToken, Receive, Goto, Finish
<1>9. ASSUME NEW q \in Requests, SetToken(q)
      PROVE  TypeOK'
  BY <1>1, <1>9 DEF SetToken, StoreToken, Write, Readers, Finish
<1>10. ASSUME NEW q \in Requests, Fail(q)
       PROVE  TypeOK'
  BY <1>1, <1>10, MaxFaultsAssumption DEF Fail, Fault, Finish
<1>11. ASSUME NEW q \in Requests, LoseAcknowledgement(q)
       PROVE  TypeOK'
  BY <1>1, <1>11, MaxFaultsAssumption
     DEF LoseAcknowledgement, Fault, Finish, SaveSettings, StoreToken, AddUser, Write, Readers
<1>12. CASE Restart
  BY <1>1, <1>12, MaxFaultsAssumption DEF Restart, Fault
<1>13. CASE UNCHANGED vars
  BY <1>13 DEF vars
<1> QED
  BY <1>2, <1>3, <1>4, <1>5, <1>6, <1>7, <1>8, <1>9, <1>10, <1>11, <1>12, <1>13
     DEF Next, Arrive, Advance

\* A step that leaves the accounts there leaves what others have found true.
LEMMA FoundStep == TypeOK /\ AccountsFound /\ [Next]_vars => AccountsFound'
<1> SUFFICES ASSUME TypeOK, AccountsFound, [Next]_vars, NEW p \in Requests
             PROVE  /\ pc'[p] = "sign" =>
                           users'[account'[p]] # NoRow /\ users'[account'[p]].device = req'[p].device
                    /\ pc'[p] \in Saving \union {"setToken"} => users'[req'[p].id] # NoRow
  BY DEF AccountsFound, Exists
<1> DEFINE Found ==
        /\ pc'[p] = "sign" =>
               users'[account'[p]] # NoRow /\ users'[account'[p]].device = req'[p].device
        /\ pc'[p] \in Saving \union {"setToken"} => users'[req'[p].id] # NoRow
<1> USE DEF TypeOK
<1>1. CASE /\ req'[p] = req[p] /\ account'[p] = account[p]
           /\ pc'[p] \in {pc[p], "idle"} \/ (pc[p] = "reload" /\ pc'[p] = "update")
  <2>1. pc[p] \in Saving \union {"setToken"} => req[p].id \in Ids
    BY Bodies
  <2> QED
    BY <1>1, <2>1, AccountsStay DEF AccountsFound
<1>2. ASSUME NEW d \in Devices, NEW f \in Profiles, FindDevice(p, d, f)
      PROVE  Found
  BY <1>2 DEF FindDevice, Receive, Goto, Exists
<1>3. ASSUME InsertUser(p)
      PROVE  Found
  <2>1. ASSUME NEW i \in Ids, AddUser(p, i), account' = [account EXCEPT ![p] = i],
               Goto(p, "sign"), UNCHANGED req
        PROVE  Found
    <3>1. NewRow(req[p].device, req[p].profile) \in Row
          /\ NewRow(req[p].device, req[p].profile).device = req[p].device
      BY <2>1, Bodies, NewRowType DEF AddUser
    <3> QED
      BY <2>1, <3>1, NothingAssumption DEF AddUser, Goto
  <2>2. CASE Finish(p, "UniqueViolation")
    BY <2>2 DEF Finish
  <2> QED
    BY <1>3, <2>1, <2>2 DEF InsertUser
<1>4. ASSUME NEW i \in Ids, NEW b \in Body, Exists(i), FindForSettings(p, i, b)
      PROVE  Found
  BY <1>4 DEF FindForSettings, Receive, Goto, Exists
<1>5. ASSUME NEW i \in Ids, NEW t \in Tokens, Exists(i), FindForToken(p, i, t)
      PROVE  Found
  BY <1>5 DEF FindForToken, Receive, Goto, Exists
<1>6. ASSUME NEW q \in Requests, Arrive(q) \/ InsertUser(q), q # p
      PROVE  req'[p] = req[p] /\ account'[p] = account[p] /\ pc'[p] = pc[p]
  BY <1>6 DEF Arrive, FindDevice, FindForSettings, FindForToken, InsertUser, AddUser, Receive,
              Goto, Finish
<1>7. ASSUME NEW q \in Requests,
             Sign(q) \/ Reload(q) \/ Update(q) \/ SetToken(q) \/ Fail(q) \/ LoseAcknowledgement(q)
      PROVE  /\ req'[p] = req[p] /\ account'[p] = account[p]
             /\ pc'[p] \in {pc[p], "idle"} \/ (pc[p] = "reload" /\ pc'[p] = "update")
  <2>1. CASE Reload(q)
    BY <2>1 DEF Reload, Goto
  <2>2. UNCHANGED <<req, account>>
    BY <1>7 DEF Sign, Reload, Update, SetToken, Fail, LoseAcknowledgement, SaveSettings, StoreToken
  <2>3. CASE pc' = [pc EXCEPT ![q] = "idle"]
    BY <2>2, <2>3
  <2> QED
    BY <1>7, <2>1, <2>3 DEF Sign, Update, SetToken, Fail, LoseAcknowledgement, Finish
<1>8. CASE Restart
  <2>1. pc'[p] = "idle"
    BY <1>8 DEF Restart
  <2> QED
    BY <2>1
<1>9. CASE UNCHANGED vars
  BY <1>1, <1>9 DEF vars
<1> QED
  BY <1>1, <1>2, <1>3, <1>4, <1>5, <1>6, <1>7, <1>8, <1>9 DEF Next, Arrive, Advance

\* No account comes, goes or changes hands.
Keeps ==
    \A j \in Ids : /\ users'[j] = NoRow <=> users[j] = NoRow
                   /\ Exists(j) => users'[j].device = users[j].device

\* Account i comes, for the device d that had none.
Adds(i, d) ==
    /\ ~ Exists(i) /\ ~ Registered(d)
    /\ users'[i] # NoRow /\ users'[i].device = d
    /\ \A j \in Ids \ {i} : users'[j] = users[j]

LEMMA OwnersStep ==
    ASSUME TypeOK, AccountsFound, [Next]_vars
    PROVE  Keeps \/ \E i \in Ids, d \in Devices : Adds(i, d)
<1> USE DEF Exists
<1>1. ASSUME NEW i \in Ids, NEW d \in Devices, Opens(i, d)
      PROVE  Adds(i, d)
  BY <1>1, NewRowType, NothingAssumption DEF Opens, Adds, TypeOK
<1>2. ASSUME NEW i \in Ids, Exists(i), Writes(i)
      PROVE  Keeps
  <2>1. \A j \in Ids \ {i} : users'[j] = users[j]
    BY <1>2 DEF Writes, TypeOK
  <2> QED
    BY <1>2, <2>1, AccountsStay DEF Keeps
<1>3. CASE UNCHANGED users
  BY <1>3 DEF Keeps
<1> QED
  BY <1>1, <1>2, <1>3, UsersStep

LEMMA OneStep == TypeOK /\ AccountsFound /\ OneAccount /\ [Next]_vars => OneAccount'
<1> SUFFICES ASSUME TypeOK, AccountsFound, OneAccount, [Next]_vars,
                    NEW i \in Ids, NEW j \in Ids,
                    users'[i] # NoRow, users'[j] # NoRow, users'[i].device = users'[j].device
             PROVE  i = j
  BY DEF OneAccount, Exists
<1>1. CASE Keeps
  BY <1>1 DEF Keeps, OneAccount, Exists
<1>2. ASSUME NEW k \in Ids, NEW d \in Devices, Adds(k, d)
      PROVE  i = j
  BY <1>2 DEF Adds, OneAccount, Exists, Registered
<1> QED
  BY <1>1, <1>2, OwnersStep

\* What is assigned differs from the columns in requested ones only.
LEMMA AssignedRequested ==
    ASSUME NEW columns \in [Columns -> Cell], NEW body \in Body
    PROVE  {c \in Columns : Assign(columns, body)[c] # columns[c]} \subseteq Requested(body)
BY DEF Assign, Requested

LEMMA AnswersStep ==
    TypeOK /\ AccountsFound /\ AnswersHold /\ [Next]_vars => AnswersHold'
<1> SUFFICES ASSUME TypeOK, AccountsFound, AnswersHold, [Next]_vars, NEW p \in Requests
             PROVE  /\ answer'[p] = "signedUp" =>
                           users'[account'[p]] # NoRow /\ users'[account'[p]].device = req'[p].device
                    /\ answer'[p] = "UniqueViolation" =>
                           \E i \in Ids : users'[i] # NoRow /\ users'[i].device = req'[p].device
                    /\ answer'[p] # "UserNotFound"
  BY DEF AnswersHold, Registered, Exists
<1> USE DEF TypeOK
<1>1. CASE req'[p] = req[p] /\ account'[p] = account[p] /\ answer'[p] = answer[p]
  BY <1>1, AccountsStay DEF AnswersHold, Registered
<1>2. CASE answer'[p] \in {"none", "updated", "stored", "ServerError"}
  BY <1>2
<1>3. CASE Sign(p)
  <2>1. req'[p] = req[p] /\ account'[p] = account[p] /\ answer'[p] = "signedUp"
        /\ account[p] \in Ids /\ pc[p] = "sign"
    BY <1>3 DEF Sign, Finish
  <2> QED
    BY <2>1, AccountsStay DEF AccountsFound
<1>4. CASE InsertUser(p)
  <2>1. CASE Finish(p, "UniqueViolation") /\ Registered(req[p].device) /\ UNCHANGED req
    BY <2>1, AccountsStay DEF Finish, Registered
  <2>2. CASE Goto(p, "sign")
    BY <1>2, <2>2 DEF Goto
  <2> QED
    BY <1>4, <2>1, <2>2 DEF InsertUser
<1>5. ASSUME Arrive(p)
      PROVE  answer'[p] = "none"
  BY <1>5 DEF Arrive, FindDevice, FindForSettings, FindForToken, Goto
<1>6. ASSUME NEW q \in Requests, Arrive(q), q # p
      PROVE  req'[p] = req[p] /\ account'[p] = account[p] /\ answer'[p] = answer[p]
  BY <1>6 DEF Arrive, FindDevice, FindForSettings, FindForToken, Receive, Goto, Finish
<1>7. ASSUME NEW q \in Requests, Advance(q), q # p
      PROVE  req'[p] = req[p] /\ account'[p] = account[p] /\ answer'[p] = answer[p]
  BY <1>7 DEF Advance, InsertUser, Sign, Reload, Update, SetToken, SaveSettings, StoreToken,
              AddUser, Goto, Finish
<1>8. ASSUME Reload(p) \/ Update(p) \/ SetToken(p)
      PROVE  answer'[p] \in {"none", "updated", "stored"}
  BY <1>8 DEF Reload, Update, SetToken, Goto, Finish
<1>9. ASSUME NEW q \in Requests, Fail(q) \/ LoseAcknowledgement(q)
      PROVE  \/ req'[p] = req[p] /\ account'[p] = account[p] /\ answer'[p] = answer[p]
             \/ answer'[p] = "ServerError"
  <2>1. UNCHANGED <<req, account>> /\ answer' = [answer EXCEPT ![q] = "ServerError"]
    BY <1>9 DEF Fail, LoseAcknowledgement, SaveSettings, StoreToken, Finish
  <2> QED
    BY <2>1
<1>10. CASE Restart
  BY <1>2, <1>10 DEF Restart
<1>11. CASE UNCHANGED vars
  BY <1>1, <1>11 DEF vars
<1> QED
  BY <1>1, <1>2, <1>3, <1>4, <1>5, <1>6, <1>7, <1>8, <1>9, <1>10, <1>11 DEF Next, Advance

LEMMA CurrentStep ==
    TypeOK /\ AccountsFound /\ EntitiesCurrent /\ [Next]_vars => EntitiesCurrent'
<1> SUFFICES ASSUME TypeOK, AccountsFound, EntitiesCurrent, [Next]_vars,
                    NEW p \in Requests, p \notin crossed'
             PROVE  /\ pc'[p] = "reload" =>
                           entity'[p] = Assign(users'[req'[p].id].column, req'[p].body)
                    /\ pc'[p] = "update" => diff'[p] \subseteq Requested(req'[p].body)
  BY DEF EntitiesCurrent
<1> USE DEF TypeOK
<1>a. pc[p] = "reload" => req[p].id \in Ids /\ req[p].body \in Body /\ Exists(req[p].id)
  BY Bodies DEF AccountsFound
<1>1. CASE /\ p \notin crossed /\ req'[p] = req[p] /\ pc'[p] = pc[p]
           /\ entity'[p] = entity[p] /\ diff'[p] = diff[p]
           /\ pc[p] = "reload" => users'[req[p].id] = users[req[p].id]
  BY <1>1 DEF EntitiesCurrent
<1>2. CASE pc'[p] \notin {"reload", "update"}
  BY <1>2
<1>3. ASSUME NEW i \in Ids, NEW b \in Body, Exists(i), FindForSettings(p, i, b)
      PROVE  /\ entity'[p] = Assign(users'[req'[p].id].column, req'[p].body)
             /\ pc'[p] = "reload"
  BY <1>3 DEF FindForSettings, Receive, Goto
<1>4. ASSUME Reload(p)
      PROVE  pc'[p] = "update" /\ diff'[p] \subseteq Requested(req'[p].body)
  <2>1. /\ entity[p] = Assign(users[req[p].id].column, req[p].body)
        /\ diff'[p] = {c \in Columns : entity[p][c] # users[req[p].id].column[c]}
        /\ req'[p].body = req[p].body /\ req[p].body \in Body
        /\ users[req[p].id].column \in [Columns -> Cell]
        /\ pc'[p] = "update"
    BY <1>4, <1>a DEF Reload, Goto, EntitiesCurrent, Exists, Row
  <2> QED
    BY <2>1, AssignedRequested
<1>5. ASSUME NEW q \in Requests, q # p, Arrive(q) \/ Reload(q) \/ Sign(q)
      PROVE  /\ p \notin crossed /\ req'[p] = req[p] /\ pc'[p] = pc[p]
             /\ entity'[p] = entity[p] /\ diff'[p] = diff[p] /\ users' = users
  BY <1>5 DEF Arrive, FindDevice, FindForSettings, FindForToken, Sign, Reload, Receive, Goto, Finish
<1>6. ASSUME NEW q \in Requests, q # p, SaveSettings(q) \/ StoreToken(q)
      PROVE  /\ p \notin crossed /\ req'[p] = req[p]
             /\ pc[p] = "reload" => users'[req[p].id] = users[req[p].id]
  <2>1. PICK names, values : Write(q, req[q].id, names, values) /\ req' = req
    BY <1>6 DEF SaveSettings, StoreToken
  <2>2. req[q].id \in Ids
    BY <1>6, Bodies DEF SaveSettings, StoreToken
  <2> QED
    BY <2>1, <2>2, <1>6, <1>a DEF Write, Readers
<1>7. ASSUME NEW q \in Requests, NEW i \in Ids, AddUser(q, i)
      PROVE  pc[p] = "reload" => users'[req[p].id] = users[req[p].id]
  BY <1>7, <1>a DEF AddUser
<1>8. ASSUME NEW q \in Requests, q # p,
             InsertUser(q) \/ Update(q) \/ SetToken(q) \/ Fail(q) \/ LoseAcknowledgement(q)
      PROVE  /\ p \notin crossed /\ req'[p] = req[p] /\ pc'[p] = pc[p]
             /\ entity'[p] = entity[p] /\ diff'[p] = diff[p]
             /\ pc[p] = "reload" => users'[req[p].id] = users[req[p].id]
  <2>1. pc'[p] = pc[p] /\ entity'[p] = entity[p] /\ diff'[p] = diff[p]
    BY <1>8 DEF InsertUser, Update, SetToken, Fail, LoseAcknowledgement, Goto, Finish
  <2>2. CASE SaveSettings(q) \/ StoreToken(q)
    BY <1>6, <1>8, <2>1, <2>2
  <2>3. CASE UNCHANGED <<req, crossed>> /\ (UNCHANGED users \/ \E i \in Ids : AddUser(q, i))
    BY <1>7, <2>1, <2>3
  <2> QED
    BY <1>8, <2>2, <2>3 DEF InsertUser, Update, SetToken, Fail, LoseAcknowledgement
<1>9. ASSUME \/ \E d \in Devices, f \in Profiles : FindDevice(p, d, f)
             \/ \E i \in Ids, t \in Tokens : FindForToken(p, i, t)
             \/ InsertUser(p) \/ Sign(p) \/ Update(p) \/ SetToken(p)
             \/ Fail(p) \/ LoseAcknowledgement(p)
      PROVE  pc'[p] \notin {"reload", "update"}
  BY <1>9 DEF FindDevice, FindForToken, InsertUser, Sign, Update, SetToken, Fail,
              LoseAcknowledgement, Receive, Goto, Finish
<1>10. CASE Restart
  BY <1>2, <1>10 DEF Restart
<1>11. CASE UNCHANGED vars
  BY <1>1, <1>11 DEF vars
<1> QED
  BY <1>1, <1>2, <1>3, <1>4, <1>5, <1>8, <1>9, <1>10, <1>11 DEF Next, Arrive, Advance

-------------------------------------------------------------------------------
(* The theorems *)

\* All that the other theorems rest on: a device has one account at most, requests
\* past their first read are about accounts that exist, and the entity of a settings
\* request nobody crossed is its account's row with the requested fields assigned.
THEOREM Invariance == Spec => []IInv
<1>1. Init => IInv
  <2> SUFFICES ASSUME Init
               PROVE  IInv
    OBVIOUS
  <2>1. TypeOK
    BY MaxFaultsAssumption DEF Init, TypeOK, Outcomes
  <2>2. OneAccount /\ AccountsFound /\ EntitiesCurrent /\ AnswersHold
    BY DEF Init, OneAccount, AccountsFound, EntitiesCurrent, AnswersHold, Exists
  <2> QED
    BY <2>1, <2>2 DEF IInv
<1>2. IInv /\ [Next]_vars => IInv'
  BY TypeStep, FoundStep, OneStep, CurrentStep, AnswersStep DEF IInv
<1> QED
  BY <1>1, <1>2, PTL DEF Spec

\* Every variable keeps its type, and each slot in service holds a request of its kind.
THEOREM TypeCorrect == Spec => []TypeOK
<1>1. IInv => TypeOK
  BY DEF IInv
<1> QED
  BY <1>1, Invariance, PTL

\* The account a sign-up was answered with stays the device's, a device refused by
\* the unique column is registered, and nobody who signed up is unknown.
THEOREM AnswersTrue == Spec => []AnswersHold
<1>1. IInv => AnswersHold
  BY DEF IInv
<1> QED
  BY <1>1, Invariance, PTL

\* Accounts implements Directory: the INSERT of a sign-up opens an account for a
\* device that has none, and no other step changes whose an account is.
THEOREM ImplementsDirectory == Spec => DirectorySpec
<1> USE DEF Exists
<1>1. Init => Accounted!Init
  BY DEF Init, Accounted!Init
<1>2. IInv /\ [Next]_vars =>
          [Accounted!Next]_([i \in Ids |-> IF Exists(i) THEN users[i].device ELSE NoDevice])
  <2> SUFFICES ASSUME IInv, [Next]_vars
               PROVE  \/ Accounted!Next
                      \/ UNCHANGED [i \in Ids |-> IF Exists(i) THEN users[i].device ELSE NoDevice]
    OBVIOUS
  <2>1. CASE Keeps
    BY <2>1 DEF Keeps
  <2>2. ASSUME NEW i \in Ids, NEW d \in Devices, Adds(i, d)
        PROVE  Accounted!Next
    <3>1. Accounted!Open(i, d)
      BY <2>2, NothingAssumption DEF Adds, Accounted!Open, Registered
    <3> QED
      BY <3>1 DEF Accounted!Next
  <2> QED
    BY <2>1, <2>2, OwnersStep DEF IInv
<1> QED
  BY <1>1, <1>2, Invariance, PTL DEF Spec, DirectorySpec, Accounted!Spec

\* A column of an account changes only on a request for it, or on one that another
\* request crossed: what a settings request nobody crossed saves is what it asked for.
THEOREM ChangedAsRequested == Spec => OnlyRequested
<1> DEFINE Asked(i, c) ==
        \E q \in Requests :
            /\ pc[q] \in {"update", "setToken"} /\ pc'[q] = "idle"
            /\ req[q].id = i
            /\ IF pc[q] = "update"
               THEN c \in Requested(req[q].body) \/ q \in crossed
               ELSE c = "fcmToken"
<1>1. ASSUME IInv, [Next]_vars, NEW i \in Ids, NEW c \in Columns,
             Exists(i), users'[i].column[c] # users[i].column[c]
      PROVE  Asked(i, c)
  <2> USE <1>1 DEF IInv, TypeOK
  <2>1. users[i] \in Row
    BY DEF Exists
  <2>2. ASSUME NEW q \in Requests, NEW names \in SUBSET Columns, NEW values \in [Columns -> Cell],
               Write(q, req[q].id, names, values)
        PROVE  req[q].id = i /\ c \in names
    BY <2>1, <2>2, OverwriteType DEF Write
  <2>3. ASSUME NEW q \in Requests, SaveSettings(q), pc'[q] = "idle"
        PROVE  Asked(i, c)
    <3>a. diff[q] \in SUBSET Columns /\ entity[q] \in [Columns -> Cell]
          /\ Write(q, req[q].id, diff[q], entity[q])
      BY <2>3 DEF SaveSettings
    <3>1. req[q].id = i /\ c \in diff[q]
      BY <2>2, <3>a
    <3> QED
      BY <2>3, <3>1 DEF SaveSettings, EntitiesCurrent
  <2>4. ASSUME NEW q \in Requests, StoreToken(q), pc'[q] = "idle"
        PROVE  Asked(i, c)
    <3>1. [d \in Columns |-> req[q].token] \in [Columns -> Cell] /\ {"fcmToken"} \in SUBSET Columns
      BY <2>4, Bodies DEF StoreToken, Cell, Columns
    <3>2. req[q].id = i /\ c = "fcmToken"
      BY <2>2, <2>4, <3>1 DEF StoreToken
    <3> QED
      BY <2>4, <3>2 DEF StoreToken
  <2>5. ASSUME NEW q \in Requests, NEW j \in Ids, AddUser(q, j)
        PROVE  FALSE
    BY <2>5 DEF AddUser, Exists
  <2>6. ASSUME UNCHANGED users
        PROVE  FALSE
    BY <2>6
  <2>7. ASSUME NEW q \in Requests, Update(q) \/ SetToken(q) \/ LoseAcknowledgement(q)
        PROVE  pc'[q] = "idle"
    BY <2>7 DEF Update, SetToken, LoseAcknowledgement, Finish
  <2> QED
    BY <2>3, <2>4, <2>5, <2>6, <2>7
       DEF Next, Arrive, Advance, FindDevice, FindForSettings, FindForToken, InsertUser, Sign,
           Reload, Update, SetToken, Fail, LoseAcknowledgement, Restart, vars
<1>2. IInv /\ [Next]_vars =>
          [\A i \in Ids, c \in Columns :
               Exists(i) /\ users'[i].column[c] # users[i].column[c] => Asked(i, c)]_vars
  BY <1>1
<1> QED
  BY <1>2, Invariance, PTL DEF Spec, OnlyRequested
===============================================================================
