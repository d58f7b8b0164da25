--------------------------- MODULE AccountsProofs ---------------------------
(***************************************************************************)
(* Theorems about Accounts, for any sets of ids, names, e-mails and        *)
(* requests.                                                               *)
(***************************************************************************)
EXTENDS Accounts, TLAPS

(* What an operation of each kind carries. *)
LEMMA OperationFields ==
  ASSUME NEW o \in Operations
  PROVE  /\ o.kind \in {"Register", "ConfirmUser", "UpdateEmail", "UpdateUsername",
                        "UpdateProfile", "UpdatePassword", "DeleteAccount",
                        "Follow", "Unfollow"}
         /\ o.kind = "Register" => o.name \in Names /\ o.email \in Emails
         /\ o.kind # "Register" => o.id \in assigned
         /\ o.kind = "UpdateEmail" => o.email \in Emails
         /\ o.kind = "UpdateUsername" => o.name \in Names
         /\ o.kind \in {"Follow", "Unfollow"} => o.by \in assigned
  BY DEF Operations

(* More ids allow more operations. *)
LEMMA OperationsGrow ==
  ASSUME assigned \subseteq assigned'
  PROVE  Operations \subseteq Operations'
  BY DEF Operations

(* A record with the fields of an ApplicationUser is one. *)
LEMMA UserTyped ==
  ASSUME NEW i \in Ids \cup {None}, NEW n \in Names, NEW e \in Emails,
         NEW c \in BOOLEAN, NEW h \in Hashes \cup {None}
  PROVE  [id |-> i, name |-> n, email |-> e, confirmed |-> c, hash |-> h] \in ApplicationUser
  BY DEF ApplicationUser

-----------------------------------------------------------------------------
(* Type correctness *)

LEMMA InitTyped == Init => AccountsTypeOK
  <1> SUFFICES ASSUME Init PROVE AccountsTypeOK
    OBVIOUS
  <1>1. TablesOK
    BY DEF Init, TablesOK, Hashes, Exists
  <1>2. /\ op \in [Requests -> Operations \cup {None}]
        /\ pc \in [Requests -> {"idle"} \cup Statements \cup Answers]
        /\ user \in [Requests -> ApplicationUser \cup {None}]
        /\ seen \in [Requests -> SUBSET (Hashes \cup (Ids \X Ids))]
    BY DEF Init
  <1>3. \A r \in Requests : RequestOK(r)
    BY DEF Init, RequestOK
  <1> QED
    BY <1>1, <1>2, <1>3 DEF AccountsTypeOK

(* A step of one request leaves the others in order: their operations and  *)
(* their users' ids stay valid when ids are added.                         *)
LEMMA OthersStay ==
  ASSUME AccountsTypeOK, NEW r \in Requests, assigned \subseteq assigned',
         op' \in [Requests -> Operations' \cup {None}],
         pc' \in [Requests -> {"idle"} \cup Statements \cup Answers],
         user' \in [Requests -> ApplicationUser \cup {None}],
         seen' \in [Requests -> SUBSET (Hashes \cup (Ids \X Ids))],
         \A q \in Requests \ {r} : op'[q] = op[q] /\ pc'[q] = pc[q] /\ user'[q] = user[q],
         TablesOK', RequestOK(r)'
  PROVE  AccountsTypeOK'
  <1>1. ASSUME NEW q \in Requests, q # r PROVE RequestOK(q)'
    <2>1. op'[q] = op[q] /\ pc'[q] = pc[q] /\ user'[q] = user[q]
      BY <1>1
    <2>2. RequestOK(q)
      BY DEF AccountsTypeOK
    <2> QED
      BY <2>1, <2>2, OperationsGrow DEF RequestOK, HoldsItsUser
  <1> QED
    BY <1>1 DEF AccountsTypeOK

LEMMA SubmitTyped ==
  ASSUME AccountsTypeOK, NEW r \in Requests, Submit(r)
  PROVE  AccountsTypeOK'
  <1> DEFINE fresh(o) == [id |-> None, name |-> o.name, email |-> o.email,
                          confirmed |-> FALSE, hash |-> r]
             first(o) == IF o.kind = "Register" THEN "checkName"
                         ELSE IF o.kind = "Unfollow" THEN "unfollow" ELSE "find"
  <1>0. /\ op \in [Requests -> Operations \cup {None}]
        /\ pc \in [Requests -> {"idle"} \cup Statements \cup Answers]
        /\ user \in [Requests -> ApplicationUser \cup {None}]
        /\ seen \in [Requests -> SUBSET (Hashes \cup (Ids \X Ids))]
    BY DEF AccountsTypeOK
  <1>1. PICK o \in Operations :
          /\ op' = [op EXCEPT ![r] = o]
          /\ pc' = [pc EXCEPT ![r] = first(o)]
          /\ IF o.kind = "Register" THEN user' = [user EXCEPT ![r] = fresh(o)]
                                    ELSE UNCHANGED user
    BY DEF Submit, Goto
  <1>2. TablesOK' /\ UNCHANGED assigned /\ UNCHANGED seen
    BY DEF Submit, AccountsTypeOK, TablesOK, tables, Exists
  <1>3. Operations' = Operations
    BY <1>2 DEF Operations
  <1>4. o.kind = "Register" => fresh(o) \in ApplicationUser
    BY OperationFields, UserTyped DEF Hashes
  <1>5. /\ op' \in [Requests -> Operations' \cup {None}]
        /\ user' \in [Requests -> ApplicationUser \cup {None}]
    BY <1>0, <1>1, <1>3, <1>4
  <1>6. first(o) \in StatementsOf(o.kind) /\ first(o) \in Statements
    BY OperationFields DEF StatementsOf, Statements
  <1>7. pc' \in [Requests -> {"idle"} \cup Statements \cup Answers]
    BY <1>0, <1>1, <1>6
  <1>8. op'[r] = o /\ pc'[r] = first(o) /\ (o.kind = "Register" => user'[r] = fresh(o))
    BY <1>0, <1>1
  <1>9. RequestOK(r)'
    BY <1>3, <1>4, <1>6, <1>8 DEF RequestOK, HoldsItsUser
  <1> QED
    BY <1>0, <1>1, <1>2, <1>5, <1>7, <1>9, OthersStay

(* Where a request at a statement can be, and whom it holds. *)
LEMMA AtStatement ==
  ASSUME AccountsTypeOK, NEW r \in Requests, pc[r] \in Statements
  PROVE  /\ op[r] \in Operations /\ pc[r] \in StatementsOf(op[r].kind)
         /\ pc[r] \notin {"find", "unfollow"} => HoldsItsUser(r)
  BY DEF AccountsTypeOK, RequestOK, Statements, Answers

(* A request goes to its next statement, or answers. *)
LEMMA RequestMoves ==
  ASSUME AccountsTypeOK, NEW r \in Requests, NEW p \in Statements \cup Answers,
         op[r] \in Operations, p \in StatementsOf(op[r].kind) \cup Answers,
         Goto(r, p), UNCHANGED op, TablesOK', assigned \subseteq assigned',
         NEW u \in ApplicationUser \cup {None}, user' = [user EXCEPT ![r] = u],
         seen' \in [Requests -> SUBSET (Hashes \cup (Ids \X Ids))],
         p \in Statements => HoldsItsUser(r)'
  PROVE  AccountsTypeOK'
  <1>1. /\ op \in [Requests -> Operations \cup {None}]
        /\ pc \in [Requests -> {"idle"} \cup Statements \cup Answers]
        /\ user \in [Requests -> ApplicationUser \cup {None}]
    BY DEF AccountsTypeOK
  <1>2. /\ op' \in [Requests -> Operations' \cup {None}]
        /\ user' \in [Requests -> ApplicationUser \cup {None}]
        /\ pc' \in [Requests -> {"idle"} \cup Statements \cup Answers]
        /\ pc'[r] = p
    BY <1>1, OperationsGrow DEF Goto
  <1>3. RequestOK(r)'
    BY <1>2, OperationsGrow DEF RequestOK, Statements, Answers
  <1>4. \A q \in Requests \ {r} : op'[q] = op[q] /\ pc'[q] = pc[q] /\ user'[q] = user[q]
    BY <1>1 DEF Goto
  <1> QED
    BY <1>2, <1>3, <1>4, OthersStay

(* The same when the request keeps its user and no id is added. *)
LEMMA RequestGoesOn ==
  ASSUME AccountsTypeOK, NEW r \in Requests, pc[r] \in Statements,
         NEW p \in Statements \cup Answers,
         p \in StatementsOf(op[r].kind) \cup Answers,
         p \in Statements => pc[r] \notin {"find", "unfollow"},
         p \in Statements /\ op[r].kind = "Register" =>
           (p \in {"createProfile", "publish"} <=> pc[r] \in {"createProfile", "publish"}),
         Goto(r, p), UNCHANGED <<op, user, assigned>>, TablesOK',
         seen' \in [Requests -> SUBSET (Hashes \cup (Ids \X Ids))]
  PROVE  AccountsTypeOK'
  <1>1. op[r] \in Operations /\ (pc[r] \notin {"find", "unfollow"} => HoldsItsUser(r))
    BY AtStatement
  <1>2. user \in [Requests -> ApplicationUser \cup {None}] /\ pc \in [Requests -> {"idle"} \cup Statements \cup Answers]
    BY DEF AccountsTypeOK
  <1>3. pc'[r] = p
    BY <1>2 DEF Goto
  <1>4. ASSUME p \in Statements PROVE HoldsItsUser(r)'
    <2>1. HoldsItsUser(r)
      BY <1>1, <1>4
    <2> QED
      BY <1>3, <1>4, <2>1 DEF HoldsItsUser
  <1>5. user' = [user EXCEPT ![r] = user[r]]
    BY <1>2
  <1> QED
    BY <1>1, <1>2, <1>4, <1>5, RequestMoves

(* The steps of a request after its submission, those that change a table  *)
(* and the others.                                                         *)
Writes(r) ==
  \/ InsertsAccount(r) \/ CreatesProfile(r) \/ UpdatesRow(r)
  \/ InsertsVerification(r) \/ RemovesVerification(r) \/ Rotates(r)
  \/ DeletesAccount(r) \/ InsertsFollow(r) \/ RemovesFollow(r)

Reads(r) ==
  \/ Fails(r) \/ FindsAccount(r) \/ HydratesHash(r) \/ HydratesVerified(r)
  \/ ChecksName(r) \/ ChecksEmail(r) \/ InsertCollides(r) \/ Publishes(r)
  \/ ChecksVerified(r) \/ Revokes(r) \/ DeletesFollows(r)

(* They are all the steps of the system. *)
LEMMA StepCases ==
  ASSUME Next
  PROVE  UNCHANGED vars \/ \E r \in Requests : Submit(r) \/ Reads(r) \/ Writes(r)
  BY DEF Next, AllAnswered, Reads, Writes

LEMMA AtItsStatement ==
  ASSUME NEW r, Reads(r) \/ Writes(r)
  PROVE  pc[r] \in Statements
  BY DEF Reads, Writes, Fails, FindsAccount, HydratesHash, HydratesVerified, ChecksName,
     ChecksEmail, InsertCollides, Publishes, ChecksVerified, Revokes, DeletesFollows,
     InsertsAccount, CreatesProfile, UpdatesRow, InsertsVerification, RemovesVerification,
     Rotates, DeletesAccount, InsertsFollow, RemovesFollow, Statements

(* Nobody else moves a request. *)
LEMMA OwnSteps ==
  ASSUME AccountsTypeOK, [Next]_vars, NEW r \in Requests
  PROVE  \/ pc'[r] = pc[r] /\ op'[r] = op[r] /\ user'[r] = user[r]
         \/ Submit(r) \/ Reads(r) \/ Writes(r)
  <1>1. /\ op \in [Requests -> Operations \cup {None}]
        /\ pc \in [Requests -> {"idle"} \cup Statements \cup Answers]
        /\ user \in [Requests -> ApplicationUser \cup {None}]
    BY DEF AccountsTypeOK
  <1> DEFINE same == pc'[r] = pc[r] /\ op'[r] = op[r] /\ user'[r] = user[r]
  <1>2. UNCHANGED vars => same
    BY DEF vars
  <1>3. ASSUME NEW q \in Requests, q # r, Submit(q) PROVE same
    BY <1>1, <1>3 DEF Submit, Goto
  <1>4. ASSUME NEW q \in Requests, q # r, Reads(q) PROVE same
    BY <1>1, <1>4 DEF Reads, Fails, FindsAccount, HydratesHash, HydratesVerified, ChecksName,
       ChecksEmail, InsertCollides, Publishes, ChecksVerified, Revokes, DeletesFollows, Goto
  <1>5. ASSUME NEW q \in Requests, q # r, Writes(q) PROVE same
    BY <1>1, <1>5 DEF Writes, InsertsAccount, CreatesProfile, UpdatesRow, InsertsVerification,
       RemovesVerification, Rotates, DeletesAccount, InsertsFollow, RemovesFollow, Goto
  <1> QED
    BY <1>2, <1>3, <1>4, <1>5, StepCases

(* Every step of a request that has been submitted keeps the types.        *)
LEMMA StepTyped ==
  ASSUME AccountsTypeOK, NEW r \in Requests, Reads(r) \/ Writes(r)
  PROVE  AccountsTypeOK'
  <1>1. /\ user \in [Requests -> ApplicationUser \cup {None}]
        /\ seen \in [Requests -> SUBSET (Hashes \cup (Ids \X Ids))]
        /\ TablesOK
    BY DEF AccountsTypeOK
  <1>2. UNCHANGED seen => seen' \in [Requests -> SUBSET (Hashes \cup (Ids \X Ids))]
    BY <1>1
  <1>3. seen' = [seen EXCEPT ![r] = {}] => seen' \in [Requests -> SUBSET (Hashes \cup (Ids \X Ids))]
    BY <1>1
  <1>4. UNCHANGED tables => TablesOK' /\ UNCHANGED assigned
    BY <1>1 DEF tables, TablesOK, Exists
  <1>5. pc[r] \in Statements =>
          /\ op[r] \in Operations /\ pc[r] \in StatementsOf(op[r].kind)
          /\ op[r].kind # "Register" => op[r].id \in assigned /\ op[r].id \in Ids
          /\ pc[r] \notin {"find", "unfollow"} => HoldsItsUser(r)
    BY <1>1, AtStatement, OperationFields DEF TablesOK
  <1>6. CASE Fails(r)
    BY <1>2, <1>3, <1>4, <1>6, RequestGoesOn DEF Fails, Answers, Statements
  <1>7. CASE FindsAccount(r)
    <2>1. CASE account[op[r].id] = None
      BY <1>2, <1>4, <1>5, <1>7, <2>1, RequestGoesOn DEF FindsAccount, Answers, Statements
    <2>2. CASE account[op[r].id] # None
      <3> DEFINE row == account[op[r].id]
                 u == [id |-> op[r].id, name |-> row.name, email |-> row.email,
                       confirmed |-> FALSE, hash |-> None]
      <3>1. op[r].kind # "Register" /\ "hydrateHash" \in StatementsOf(op[r].kind)
        BY <1>5, <1>7, OperationFields DEF FindsAccount, StatementsOf, Statements
      <3>2. row \in Rows
        BY <1>1, <1>5, <1>7, <2>2, <3>1 DEF FindsAccount, TablesOK, Statements
      <3>3. u \in ApplicationUser
        BY <1>5, <1>7, <3>1, <3>2, UserTyped DEF FindsAccount, Rows, Statements
      <3>4. user' = [user EXCEPT ![r] = u] /\ UNCHANGED <<tables, op, seen>> /\ Goto(r, "hydrateHash")
        BY <1>7, <2>2 DEF FindsAccount
      <3>5. HoldsItsUser(r)'
        BY <1>1, <3>1, <3>3, <3>4 DEF HoldsItsUser
      <3> QED
        BY <1>2, <1>4, <1>5, <1>7, <3>1, <3>3, <3>4, <3>5, RequestMoves DEF FindsAccount, Statements
    <2> QED
      BY <2>1, <2>2
  <1>8. CASE HydratesHash(r)
    <2>1. /\ op[r].kind # "Register" /\ "hydrateVerified" \in StatementsOf(op[r].kind)
          /\ HoldsItsUser(r)
      BY <1>5, <1>8, OperationFields DEF HydratesHash, StatementsOf, Statements
    <2>2. PICK h \in Hashes \cup {None} : user' = [user EXCEPT ![r].hash = h]
      BY <1>1, <1>5, <1>8, <2>1 DEF HydratesHash, TablesOK, Statements
    <2>3. user[r] \in ApplicationUser /\ user[r].id = op[r].id
      BY <2>1 DEF HoldsItsUser
    <2>4. [user[r] EXCEPT !.hash = h] \in ApplicationUser /\ [user[r] EXCEPT !.hash = h].id = op[r].id
      BY <2>3 DEF ApplicationUser
    <2>5. user' = [user EXCEPT ![r] = [user[r] EXCEPT !.hash = h]]
      BY <1>1, <2>2
    <2>6. HoldsItsUser(r)'
      BY <1>1, <1>8, <2>1, <2>4, <2>5 DEF HoldsItsUser, HydratesHash
    <2> QED
      BY <1>2, <1>4, <1>5, <1>8, <2>1, <2>4, <2>5, <2>6, RequestMoves DEF HydratesHash, Statements
  <1>9. CASE HydratesVerified(r)
    <2> DEFINE found == [user[r] EXCEPT !.confirmed = op[r].id \in verified]
               u == Changed(found, op[r])
    <2>1. op[r] \in Operations /\ op[r].kind # "Register" /\ HoldsItsUser(r)
      BY <1>5, <1>9, OperationFields DEF HydratesVerified, StatementsOf, Statements
    <2>2. PICK p \in Continuations(user[r], op[r]) : Goto(r, p)
      BY <1>9 DEF HydratesVerified
    <2>3. p \in Statements \cup Answers /\ p \in StatementsOf(op[r].kind) \cup Answers
      BY <1>5, <1>9, <2>1, <2>2, OperationFields
      DEF HydratesVerified, Continuations, StatementsOf, Statements, Answers
    <2>4. user[r] \in ApplicationUser /\ user[r].id = op[r].id
      BY <2>1 DEF HoldsItsUser
    <2>5. found \in ApplicationUser /\ found.id = op[r].id
      <3>1. \A c \in BOOLEAN : LET v == [user[r] EXCEPT !.confirmed = c] IN
              v \in ApplicationUser /\ v.id = op[r].id
        BY <2>4 DEF ApplicationUser
      <3>2. (op[r].id \in verified) \in BOOLEAN
        OBVIOUS
      <3> QED
        BY <3>1, <3>2
    <2>6. u \in ApplicationUser /\ u.id = op[r].id
      BY <2>1, <2>5, OperationFields DEF Changed, ApplicationUser
    <2>7. user' = [user EXCEPT ![r] = u]
      BY <1>1, <1>9 DEF HydratesVerified
    <2>8. HoldsItsUser(r)'
      BY <1>1, <1>9, <2>1, <2>6, <2>7 DEF HoldsItsUser, HydratesVerified
    <2> QED
      BY <1>2, <1>4, <1>9, <2>1, <2>2, <2>3, <2>6, <2>7, <2>8, RequestMoves DEF HydratesVerified
  <1>10. CASE ChecksName(r)
    <2>1. \/ Goto(r, "checkEmail") \/ Goto(r, "ok") \/ Goto(r, "conflict")
      BY <1>10 DEF ChecksName, Refusal
    <2>2. "checkEmail" \in StatementsOf(op[r].kind)
      BY <1>5, <1>10, OperationFields DEF ChecksName, StatementsOf, Statements
    <2> QED
      BY <1>2, <1>4, <1>10, <2>1, <2>2, RequestGoesOn DEF ChecksName, Statements, Answers
  <1>11. CASE ChecksEmail(r)
    <2>1. \/ Goto(r, "insert") /\ op[r].kind = "Register"
          \/ Goto(r, "update") /\ op[r].kind # "Register"
          \/ Goto(r, "ok")
          \/ Goto(r, "conflict")
      BY <1>11 DEF ChecksEmail, Refusal
    <2>2. IF op[r].kind = "Register" THEN "insert" \in StatementsOf(op[r].kind)
                                     ELSE "update" \in StatementsOf(op[r].kind)
      BY <1>5, <1>11, OperationFields DEF ChecksEmail, StatementsOf, Statements
    <2> QED
      BY <1>2, <1>4, <1>11, <2>1, <2>2, RequestGoesOn DEF ChecksEmail, Statements, Answers
  <1>12. CASE InsertsAccount(r)
    <2>1. op[r].kind = "Register" /\ HoldsItsUser(r)
      BY <1>5, <1>12, OperationFields DEF InsertsAccount, StatementsOf, Statements
    <2>2. user[r] \in ApplicationUser /\ user[r].hash = r
      BY <1>12, <2>1 DEF HoldsItsUser, InsertsAccount
    <2>3. PICK i \in Ids \ assigned :
            /\ account' = [account EXCEPT ![i] =
                 [name |-> user[r].name, email |-> user[r].email]]
            /\ assigned' = assigned \cup {i}
            /\ credential' = [credential EXCEPT ![i] = {user[r].hash}]
            /\ user' = [user EXCEPT ![r].id = i]
      BY <1>12 DEF InsertsAccount
    <2>4. [name |-> user[r].name, email |-> user[r].email] \in Rows
      BY <2>2 DEF ApplicationUser, Rows
    <2>5. TablesOK'
      BY <1>1, <1>12, <2>2, <2>3, <2>4 DEF InsertsAccount, TablesOK, Exists, Hashes
    <2> DEFINE u == [user[r] EXCEPT !.id = i]
    <2>6. u \in ApplicationUser /\ u.id = i
      BY <2>2, <2>3 DEF ApplicationUser
    <2>7. user' = [user EXCEPT ![r] = u] /\ user'[r] = u
      BY <1>1, <2>3
    <2>8. pc'[r] = "createProfile" /\ UNCHANGED op
      BY <1>12 DEF InsertsAccount, Goto, AccountsTypeOK
    <2>9. HoldsItsUser(r)'
      BY <2>1, <2>3, <2>6, <2>7, <2>8 DEF HoldsItsUser
    <2> QED
      BY <1>2, <1>5, <1>12, <2>1, <2>3, <2>5, <2>6, <2>7, <2>9, RequestMoves
      DEF InsertsAccount, Statements, StatementsOf
  <1>13. CASE InsertCollides(r)
    BY <1>2, <1>4, <1>13, RequestGoesOn DEF InsertCollides, Statements, Answers
  <1>14. CASE CreatesProfile(r)
    <2>1. op[r].kind = "Register" /\ user[r].id \in assigned
      BY <1>5, <1>14, OperationFields DEF CreatesProfile, StatementsOf, Statements, HoldsItsUser
    <2>2. TablesOK' /\ UNCHANGED assigned
      BY <1>1, <1>14, <2>1 DEF CreatesProfile, TablesOK, Exists
    <2> QED
      BY <1>2, <1>14, <2>1, <2>2, RequestGoesOn DEF CreatesProfile, Statements, Answers, StatementsOf
  <1>15. CASE Publishes(r)
    BY <1>2, <1>4, <1>15, RequestGoesOn DEF Publishes, Statements, Answers
  <1>16. CASE UpdatesRow(r)
    <2>1. /\ op[r].kind # "Register" /\ HoldsItsUser(r)
          /\ {"isVerified", "unverify"} \subseteq StatementsOf(op[r].kind)
      BY <1>5, <1>16, OperationFields DEF UpdatesRow, StatementsOf, Statements
    <2>2. user[r] \in ApplicationUser /\ user[r].id \in assigned
      BY <1>5, <1>16, <2>1 DEF HoldsItsUser, UpdatesRow, Statements
    <2>3. [name |-> user[r].name, email |-> user[r].email] \in Rows
      BY <2>2 DEF ApplicationUser, Rows
    <2>4. TablesOK' /\ UNCHANGED assigned
      BY <1>1, <1>16, <2>2, <2>3 DEF UpdatesRow, TablesOK, Exists
    <2>5. Goto(r, "error") \/ Goto(r, "isVerified") \/ Goto(r, "unverify")
      BY <1>16 DEF UpdatesRow
    <2> QED
      BY <1>2, <1>16, <2>1, <2>4, <2>5, RequestGoesOn DEF UpdatesRow, Statements, Answers
  <1>17. CASE ChecksVerified(r)
    <2>1. op[r].kind # "Register" /\ "verify" \in StatementsOf(op[r].kind)
      BY <1>5, <1>17, OperationFields DEF ChecksVerified, StatementsOf, Statements
    <2> QED
      BY <1>2, <1>4, <1>17, <2>1, RequestGoesOn DEF ChecksVerified, Statements, Answers
  <1>18. CASE InsertsVerification(r)
    <2>1. user[r].id \in Ids
      BY <1>1, <1>5, <1>18, OperationFields
      DEF InsertsVerification, StatementsOf, Statements, HoldsItsUser
    <2>2. TablesOK' /\ UNCHANGED assigned
      BY <1>1, <1>18, <2>1 DEF InsertsVerification, TablesOK, Exists
    <2>3. Goto(r, "ok") \/ Goto(r, "error")
      BY <1>18 DEF InsertsVerification
    <2> QED
      BY <1>2, <1>18, <2>2, <2>3, RequestGoesOn DEF InsertsVerification, Statements, Answers
  <1>19. CASE RemovesVerification(r)
    <2>1. TablesOK' /\ UNCHANGED assigned
      BY <1>1, <1>19 DEF RemovesVerification, TablesOK, Exists
    <2> QED
      BY <1>2, <1>19, <2>1, RequestGoesOn DEF RemovesVerification, Statements, Answers
  <1>20. CASE Revokes(r)
    <2>1. op[r].kind = "UpdatePassword" /\ user[r].id \in Ids
      BY <1>5, <1>20, OperationFields DEF Revokes, StatementsOf, Statements, HoldsItsUser
    <2>2. seen' \in [Requests -> SUBSET (Hashes \cup (Ids \X Ids))]
      BY <1>1, <1>20, <2>1 DEF Revokes, TablesOK
    <2> QED
      BY <1>4, <1>20, <2>1, <2>2, RequestGoesOn DEF Revokes, Statements, StatementsOf
  <1>21. CASE Rotates(r)
    <2>1. op[r].kind = "UpdatePassword" /\ user[r].id \in Ids
      BY <1>5, <1>21, OperationFields DEF Rotates, StatementsOf, Statements, HoldsItsUser
    <2>2. TablesOK' /\ UNCHANGED assigned
      BY <1>1, <1>21, <2>1 DEF Rotates, TablesOK, Exists, Hashes
    <2>3. Goto(r, "checkName") \/ Goto(r, "error")
      BY <1>21 DEF Rotates
    <2> QED
      BY <1>3, <1>21, <2>1, <2>2, <2>3, RequestGoesOn DEF Rotates, Statements, StatementsOf, Answers
  <1>22. CASE DeletesFollows(r)
    <2>1. op[r].kind = "DeleteAccount"
      BY <1>5, <1>22, OperationFields DEF DeletesFollows, StatementsOf, Statements
    <2>2. seen' \in [Requests -> SUBSET (Hashes \cup (Ids \X Ids))]
      BY <1>1, <1>22 DEF DeletesFollows, FollowsOf, TablesOK
    <2> QED
      BY <1>4, <1>22, <2>1, <2>2, RequestGoesOn DEF DeletesFollows, Statements, StatementsOf
  <1>23. CASE DeletesAccount(r)
    <2>1. TablesOK' /\ UNCHANGED assigned
      BY <1>1, <1>4, <1>23 DEF DeletesAccount, TablesOK, Exists, FollowsOf
    <2>2. Goto(r, "ok") \/ Goto(r, "conflict")
      BY <1>23 DEF DeletesAccount
    <2> QED
      BY <1>3, <1>23, <2>1, <2>2, RequestGoesOn DEF DeletesAccount, Statements, Answers
  <1>24. CASE InsertsFollow(r)
    <2>1. op[r].id \in Ids /\ op[r].by \in Ids
      BY <1>1, <1>5, <1>24, OperationFields
      DEF InsertsFollow, StatementsOf, Statements, TablesOK
    <2>2. TablesOK' /\ UNCHANGED assigned
      BY <1>1, <1>24, <2>1 DEF InsertsFollow, TablesOK, Exists
    <2>3. Goto(r, "ok") \/ Goto(r, "error")
      BY <1>24 DEF InsertsFollow
    <2> QED
      BY <1>2, <1>24, <2>2, <2>3, RequestGoesOn DEF InsertsFollow, Statements, Answers
  <1>25. CASE RemovesFollow(r)
    <2>1. TablesOK' /\ UNCHANGED assigned
      BY <1>1, <1>25 DEF RemovesFollow, TablesOK, Exists
    <2> QED
      BY <1>2, <1>25, <2>1, RequestGoesOn DEF RemovesFollow, Statements, Answers
  <1> QED
    BY <1>6, <1>7, <1>8, <1>9, <1>10, <1>11, <1>12, <1>13, <1>14, <1>15, <1>16, <1>17, <1>18,
       <1>19, <1>20, <1>21, <1>22, <1>23, <1>24, <1>25 DEF Reads, Writes

(* All the handlers of an API keep the tables well typed, hand out ids     *)
(* once, and hold the user they work on.                                   *)
THEOREM AccountsTypeCorrect == Spec => []AccountsTypeOK
  <1>1. ASSUME AccountsTypeOK, [Next]_vars PROVE AccountsTypeOK'
    <2>1. CASE UNCHANGED vars
      BY <1>1, <2>1 DEF vars, tables, AccountsTypeOK, TablesOK, RequestOK, HoldsItsUser,
                        Operations, Exists
    <2>2. ASSUME NEW r \in Requests, Submit(r) PROVE AccountsTypeOK'
      BY <1>1, <2>2, SubmitTyped
    <2> QED
      BY <1>1, <2>1, <2>2, StepTyped, StepCases
  <1> QED
    BY InitTyped, <1>1, PTL DEF Spec

-----------------------------------------------------------------------------
(* Every account is whole *)

LEMMA WritesOrNot ==
  ASSUME [Next]_vars
  PROVE  UNCHANGED tables \/ \E r \in Requests : Writes(r)
  BY StepCases DEF vars, Reads, Submit, Fails, FindsAccount, HydratesHash,
     HydratesVerified, ChecksName, ChecksEmail, InsertCollides, Publishes,
     ChecksVerified, Revokes, DeletesFollows

(* The request of a write holds the user, or the ids, it writes. *)
LEMMA WritersHold ==
  ASSUME AccountsTypeOK, NEW r \in Requests, Writes(r)
  PROVE  /\ op[r] \in Operations
         /\ pc[r] = "insert" => user[r].hash = r /\ user[r].id = None
         /\ pc[r] \notin {"insert", "follow", "unfollow"} => user[r].id \in assigned
         /\ pc[r] \in {"follow", "unfollow"} => op[r].id \in assigned /\ op[r].by \in assigned
         /\ pc[r] \notin {"follow", "unfollow"} => user[r] \in ApplicationUser
  <1>1. pc[r] \in {"insert", "createProfile", "update", "verify", "unverify", "rotate",
                   "delete", "follow", "unfollow"}
    BY DEF Writes, InsertsAccount, CreatesProfile, UpdatesRow, InsertsVerification,
           RemovesVerification, Rotates, DeletesAccount, InsertsFollow, RemovesFollow
  <1>2. /\ op[r] \in Operations /\ pc[r] \in StatementsOf(op[r].kind)
        /\ pc[r] \notin {"find", "unfollow"} => HoldsItsUser(r)
    BY <1>1, AtStatement DEF Statements
  <1> QED
    BY <1>1, <1>2, OperationFields DEF StatementsOf, HoldsItsUser

LEMMA WriteKeepsWhole ==
  ASSUME AccountsTypeOK, AccountsAreWhole, NEW r \in Requests, Writes(r)
  PROVE  AccountsAreWhole'
  <1>1. TablesOK /\ TablesOK' /\ assigned \subseteq Ids
    BY StepTyped DEF AccountsTypeOK, TablesOK
  <1>2. None \notin Rows
    BY AccountsAssumption DEF Rows
  <1>3. CASE InsertsAccount(r)
    <2>1. user[r].hash = r /\ user[r].id = None /\ user[r] \in ApplicationUser
      BY <1>3, WritersHold DEF InsertsAccount
    <2>2. PICK i \in Ids \ assigned :
            /\ account' = [account EXCEPT ![i] =
                 [name |-> user[r].name, email |-> user[r].email]]
            /\ credential' = [credential EXCEPT ![i] = {user[r].hash}]
      BY <1>3 DEF InsertsAccount
    <2>3. ~ NameTaken(user[r]) /\ ~ EmailTaken(user[r]) /\ UNCHANGED <<verified, profile, follows>>
      BY <1>3 DEF InsertsAccount
    <2>4. account'[i].name = user[r].name /\ account'[i].email = user[r].email /\ credential'[i] = {r}
      BY <1>1, <2>1, <2>2 DEF TablesOK
    <2>5. \A j \in Ids \ {i} : account'[j] = account[j] /\ credential'[j] = credential[j]
      BY <1>1, <2>2 DEF TablesOK
    <2>6. \A j \in Ids \ {i} : Exists(j) =>
            account[j].name # user[r].name /\ account[j].email # user[r].email
      BY <2>1, <2>3, AccountsAssumption DEF NameTaken, EmailTaken
    <2>7. account'[i] # None
      BY <1>2, <2>1, <2>2, <1>1 DEF TablesOK, ApplicationUser, Rows
    <2> QED
      BY <2>3, <2>4, <2>5, <2>6, <2>7 DEF AccountsAreWhole, Exists, FollowsOf
  <1>4. CASE CreatesProfile(r)
    BY <1>4 DEF CreatesProfile, AccountsAreWhole, Exists, FollowsOf
  <1>5. CASE UpdatesRow(r)
    <2> DEFINE u == user[r]
               row == [name |-> u.name, email |-> u.email]
    <2>1. u.id \in Ids /\ u \in ApplicationUser
      BY <1>1, <1>5, WritersHold DEF UpdatesRow
    <2>2. UNCHANGED <<credential, verified, profile, follows>>
      BY <1>5 DEF UpdatesRow
    <2>3. CASE UNCHANGED account
      BY <2>2, <2>3 DEF AccountsAreWhole, Exists, FollowsOf
    <2>4. CASE account[u.id] # None /\ ~ NameTaken(u) /\ ~ EmailTaken(u)
               /\ account' = [account EXCEPT ![u.id] = row]
      <3>1. account'[u.id] = row /\ \A j \in Ids \ {u.id} : account'[j] = account[j]
        BY <1>1, <2>1, <2>4 DEF TablesOK
      <3>2. row # None
        BY <1>2, <2>1 DEF ApplicationUser, Rows
      <3>3. \A j \in Ids \ {u.id} : Exists(j) =>
              account[j].name # row.name /\ account[j].email # row.email
        BY <2>4 DEF NameTaken, EmailTaken
      <3> QED
        BY <2>2, <2>4, <3>1, <3>2, <3>3 DEF AccountsAreWhole, Exists, FollowsOf
    <2>5. \/ UNCHANGED account
          \/ /\ account[u.id] # None /\ ~ NameTaken(u) /\ ~ EmailTaken(u)
             /\ account' = [account EXCEPT ![u.id] = row]
      BY <1>1, <1>5, <2>1 DEF UpdatesRow, Exists, TablesOK
    <2> QED
      BY <2>3, <2>4, <2>5
  <1>6. CASE InsertsVerification(r)
    BY <1>6 DEF InsertsVerification, AccountsAreWhole, Exists, FollowsOf
  <1>7. CASE RemovesVerification(r)
    BY <1>7 DEF RemovesVerification, AccountsAreWhole, Exists, FollowsOf
  <1>8. CASE Rotates(r)
    <2>1. UNCHANGED <<account, verified, profile, follows>>
      BY <1>8 DEF Rotates
    <2>2. \A i \in Ids : \/ credential'[i] = credential[i]
                         \/ Exists(i) /\ r \in credential'[i]
      BY <1>1, <1>8 DEF Rotates, TablesOK
    <2> QED
      BY <2>1, <2>2 DEF AccountsAreWhole, Exists, FollowsOf
  <1>9. CASE DeletesAccount(r)
    <2>1. user[r].id \in Ids
      BY <1>1, <1>9, WritersHold DEF DeletesAccount
    <2> QED
      BY <1>1, <1>9, <2>1 DEF DeletesAccount, AccountsAreWhole, Exists, FollowsOf, TablesOK, tables
  <1>10. CASE InsertsFollow(r)
    BY <1>10 DEF InsertsFollow, AccountsAreWhole, Exists, FollowsOf
  <1>11. CASE RemovesFollow(r)
    BY <1>11 DEF RemovesFollow, AccountsAreWhole, Exists, FollowsOf
  <1> QED
    BY <1>3, <1>4, <1>5, <1>6, <1>7, <1>8, <1>9, <1>10, <1>11 DEF Writes

(* However the requests interleave and fail, each account has a name, an   *)
(* e-mail and a working password of its own, and a deleted one leaves      *)
(* nothing behind.                                                         *)
THEOREM AccountsStayWhole == Spec => []AccountsAreWhole
  <1>1. Init => AccountsAreWhole
    BY DEF Init, AccountsAreWhole, FollowsOf, Exists
  <1>2. ASSUME AccountsTypeOK, AccountsAreWhole, [Next]_vars PROVE AccountsAreWhole'
    <2>1. CASE UNCHANGED tables
      BY <1>2, <2>1 DEF tables, AccountsAreWhole, Exists, FollowsOf
    <2> QED
      BY <1>2, <2>1, WritesOrNot, WriteKeepsWhole
  <1> QED
    BY AccountsTypeCorrect, <1>1, <1>2, PTL DEF Spec

-----------------------------------------------------------------------------
(* What the requests of an account can rely on *)

(* An answer is final. *)
LEMMA AnswersAreFinal ==
  ASSUME AccountsTypeOK, [Next]_vars, NEW r \in Requests, pc[r] \in Answers
  PROVE  pc'[r] = pc[r] /\ op'[r] = op[r] /\ user'[r] = user[r]
  <1>1. pc[r] \notin Statements /\ pc[r] # "idle"
    BY DEF Statements, Answers
  <1>2. ~ Submit(r) /\ ~ Reads(r) /\ ~ Writes(r)
    BY <1>1, AtItsStatement DEF Submit
  <1> QED
    BY <1>2, OwnSteps

(* A deleted account does not come back: ids are handed out once, and an   *)
(* UPDATE finds no row.                                                    *)
LEMMA GoneStaysGone ==
  ASSUME AccountsTypeOK, [Next]_vars, NEW i \in assigned, ~ Exists(i)
  PROVE  ~ Exists(i)'
  <1>1. i \in Ids /\ account[i] = None /\ TablesOK
    BY DEF AccountsTypeOK, TablesOK, Exists
  <1>2. ASSUME NEW r \in Requests, Writes(r) PROVE account'[i] = None
    BY <1>1, <1>2 DEF Writes, TablesOK, InsertsAccount, CreatesProfile, UpdatesRow,
       InsertsVerification, RemovesVerification, Rotates, DeletesAccount, InsertsFollow,
       RemovesFollow, tables
  <1> QED
    BY <1>1, <1>2, WritesOrNot DEF tables, Exists

(* An account that a DeleteAccount has deleted stays deleted, whatever the *)
(* other requests had read of it before.                                   *)
THEOREM DeletionIsFinal == Spec => []DeletedIsGone
  <1>1. Init => DeletedIsGone
    BY DEF Init, DeletedIsGone
  <1>2. ASSUME AccountsTypeOK, DeletedIsGone, [Next]_vars PROVE DeletedIsGone'
    <2> SUFFICES ASSUME NEW r \in Requests, pc'[r] = "ok", op'[r].kind = "DeleteAccount"
                 PROVE  ~ Exists(op[r].id)' /\ op'[r] = op[r]
      BY DEF DeletedIsGone, Exists
    <2>1. pc[r] \in {"idle"} \cup Statements \cup Answers
      BY <1>2 DEF AccountsTypeOK
    <2>2. CASE pc[r] \in Answers
      <3>1. pc[r] = "ok" /\ op'[r] = op[r] /\ op[r] \in Operations
        BY <1>2, <2>2, AnswersAreFinal DEF AccountsTypeOK, RequestOK, Answers
      <3>2. op[r].id \in assigned /\ ~ Exists(op[r].id)
        BY <1>2, <3>1, OperationFields DEF DeletedIsGone
      <3> QED
        BY <1>2, <3>1, <3>2, GoneStaysGone
    <2>3. CASE pc[r] \notin Answers
      <3>1. pc'[r] # pc[r] /\ ~ Submit(r)
        BY <1>2, <2>1, <2>3 DEF Submit, Answers, Goto, AccountsTypeOK
      <3>2. Reads(r) \/ Writes(r)
        BY <1>2, <3>1, OwnSteps
      <3>3. pc[r] \in Statements /\ op'[r] = op[r]
        BY <3>2, AtItsStatement
        DEF Reads, Writes, Fails, FindsAccount, HydratesHash, HydratesVerified, ChecksName,
            ChecksEmail, InsertCollides, Publishes, ChecksVerified, Revokes, DeletesFollows,
            InsertsAccount, CreatesProfile, UpdatesRow, InsertsVerification,
            RemovesVerification, Rotates, DeletesAccount, InsertsFollow, RemovesFollow
      <3>4. pc[r] \in {"find", "hydrateHash", "hydrateVerified", "unlink", "delete"}
        BY <1>2, <3>3, AtStatement DEF StatementsOf
      <3>5. DeletesAccount(r)
        BY <1>2, <3>2, <3>3, <3>4
        DEF Reads, Writes, Fails, FindsAccount, HydratesHash, HydratesVerified, Continuations,
            ChecksName, ChecksEmail, InsertCollides, Publishes, ChecksVerified, Revokes,
            DeletesFollows, InsertsAccount, CreatesProfile, UpdatesRow, InsertsVerification,
            RemovesVerification, Rotates, InsertsFollow, RemovesFollow, Goto, AccountsTypeOK
      <3>6. user[r].id = op[r].id /\ op[r].id \in Ids
        BY <1>2, <3>3, <3>5, AtStatement, OperationFields
        DEF DeletesAccount, HoldsItsUser, AccountsTypeOK, TablesOK
      <3> QED
        BY <1>2, <3>3, <3>5, <3>6 DEF DeletesAccount, AccountsTypeOK, TablesOK, Goto, Exists
    <2> QED
      BY <2>2, <2>3
  <1> QED
    BY AccountsTypeCorrect, <1>1, <1>2, PTL DEF Spec

(* Only a registration that has failed half-way leaves an account without  *)
(* a profile.                                                              *)
THEOREM ProfilesAreMade == Spec => []ProfileMissingOnlyOnFailure
  <1>1. Init => ProfileMissingOnlyOnFailure
    BY DEF Init, ProfileMissingOnlyOnFailure
  <1>2. ASSUME AccountsTypeOK, ProfileMissingOnlyOnFailure, [Next]_vars
        PROVE  ProfileMissingOnlyOnFailure'
    <2> SUFFICES ASSUME NEW i \in Ids, Exists(i)', i \notin profile'
                 PROVE  \E r \in Requests : /\ pc'[r] \in {"createProfile", "error"}
                                            /\ op'[r].kind = "Register" /\ user'[r].id = i
      BY DEF ProfileMissingOnlyOnFailure
    <2>1. CASE Exists(i) /\ i \notin profile
      <3>1. PICK r \in Requests : /\ pc[r] \in {"createProfile", "error"}
                                  /\ op[r].kind = "Register" /\ user[r].id = i
        BY <1>2, <2>1 DEF ProfileMissingOnlyOnFailure
      <3>2. CASE pc'[r] = pc[r] /\ op'[r] = op[r] /\ user'[r] = user[r]
        BY <3>1, <3>2
      <3>3. CASE Submit(r) \/ Reads(r) \/ Writes(r)
        <4>1. CreatesProfile(r) \/ Fails(r)
          BY <3>1, <3>3, AtItsStatement
          DEF Submit, Reads, Writes, FindsAccount, HydratesHash, HydratesVerified, ChecksName,
              ChecksEmail, InsertCollides, Publishes, ChecksVerified, Revokes, DeletesFollows,
              InsertsAccount, UpdatesRow, InsertsVerification, RemovesVerification, Rotates,
              DeletesAccount, InsertsFollow, RemovesFollow, Statements
        <4>2. op' = op /\ user' = user /\ pc'[r] = "error"
          BY <1>2, <2>1, <3>1, <4>1 DEF CreatesProfile, Fails, Goto, AccountsTypeOK, Exists
        <4> QED
          BY <3>1, <4>2
      <3> QED
        BY <1>2, <3>2, <3>3, OwnSteps
    <2>2. CASE ~ (Exists(i) /\ i \notin profile)
      <3>1. PICK q \in Requests : Writes(q)
        BY <1>2, <2>2, WritesOrNot DEF tables, Exists
      <3>2. TablesOK /\ (pc[q] \notin {"insert", "follow", "unfollow"} => user[q].id \in assigned)
        BY <1>2, <3>1, WritersHold DEF AccountsTypeOK
      <3>3. CASE InsertsAccount(q)
        <4>1. user'[q].id = i /\ pc'[q] = "createProfile" /\ op'[q] = op[q]
          BY <1>2, <2>2, <3>2, <3>3
          DEF InsertsAccount, Goto, AccountsTypeOK, TablesOK, Exists
        <4>2. op[q].kind = "Register"
          BY <1>2, <3>3, AtStatement, OperationFields DEF InsertsAccount, StatementsOf, Statements
        <4> QED
          BY <4>1, <4>2
      <3>4. CASE DeletesAccount(q)
        BY <2>2, <3>2, <3>4 DEF DeletesAccount, TablesOK, Exists, tables
      <3>5. CASE UpdatesRow(q)
        BY <2>2, <3>2, <3>5 DEF UpdatesRow, TablesOK, Exists
      <3> QED
        BY <2>2, <3>1, <3>3, <3>4, <3>5
        DEF Writes, CreatesProfile, InsertsVerification, RemovesVerification, Rotates,
            InsertsFollow, RemovesFollow, Exists
    <2> QED
      BY <2>1, <2>2
  <1> QED
    BY AccountsTypeCorrect, <1>1, <1>2, PTL DEF Spec

-----------------------------------------------------------------------------
(* Passwords *)

(* The request has yet to store the hash of its password. *)
Unwritten(r) ==
  \/ pc[r] \in {"idle", "find", "hydrateHash", "hydrateVerified", "revoke", "rotate"}
  \/ op[r].kind = "Register" /\ pc[r] \in {"checkName", "checkEmail", "insert"}

(* Until then nobody else can know it. *)
HashesAreFresh ==
  \A r \in Requests : Unwritten(r) =>
    /\ \A i \in Ids : r \notin credential[i]
    /\ \A q \in Requests : user[q] # None /\ user[q].hash = r =>
         q = r /\ op[q].kind = "Register"

LEMMA FreshInit == Init => HashesAreFresh
  <1> SUFFICES ASSUME Init PROVE HashesAreFresh
    OBVIOUS
  <1>1. \A i \in Ids : credential[i] \subseteq {Original}
    BY DEF Init
  <1>2. \A q \in Requests : user[q] = None
    BY DEF Init
  <1> QED
    BY <1>1, <1>2, AccountsAssumption DEF HashesAreFresh

(* A request that has stored its hash, or never will, does not go back. *)
LEMMA WrittenStays ==
  ASSUME AccountsTypeOK, [Next]_vars, NEW r \in Requests, ~ Unwritten(r)
  PROVE  ~ Unwritten(r)'
  <1>1. pc \in [Requests -> {"idle"} \cup Statements \cup Answers]
    BY DEF AccountsTypeOK
  <1>2. CASE pc'[r] = pc[r] /\ op'[r] = op[r]
    BY <1>2 DEF Unwritten
  <1>3. CASE Reads(r) \/ Writes(r)
    <2>1. /\ pc[r] \in Statements /\ op[r] \in Operations
          /\ pc[r] \in StatementsOf(op[r].kind)
      BY <1>3, AtItsStatement, AtStatement
    <2>2. op' = op
      BY <1>3
      DEF Reads, Writes, Fails, FindsAccount, HydratesHash, HydratesVerified, ChecksName,
          ChecksEmail, InsertCollides, Publishes, ChecksVerified, Revokes, DeletesFollows,
          InsertsAccount, CreatesProfile, UpdatesRow, InsertsVerification,
          RemovesVerification, Rotates, DeletesAccount, InsertsFollow, RemovesFollow
    <2>3. pc[r] \notin {"find", "hydrateHash", "hydrateVerified", "revoke", "rotate"}
      BY DEF Unwritten
    <2>4. pc'[r] \notin {"idle", "find", "hydrateHash", "hydrateVerified", "revoke", "rotate",
                         "checkName"}
      BY <1>1, <1>3, <2>3
      DEF Reads, Writes, Fails, FindsAccount, HydratesHash, HydratesVerified, ChecksName,
          ChecksEmail, InsertCollides, Publishes, ChecksVerified, Revokes, DeletesFollows,
          InsertsAccount, CreatesProfile, UpdatesRow, InsertsVerification, Refusal,
          RemovesVerification, Rotates, DeletesAccount, InsertsFollow, RemovesFollow, Goto
    <2>5. op[r].kind = "Register" => pc'[r] \notin {"checkEmail", "insert"}
      BY <1>1, <1>3, <2>1, <2>3
      DEF Unwritten, StatementsOf, Reads, Writes, Fails, FindsAccount, HydratesHash,
          HydratesVerified, ChecksName,
          ChecksEmail, InsertCollides, Publishes, ChecksVerified, Revokes, DeletesFollows,
          InsertsAccount, CreatesProfile, UpdatesRow, InsertsVerification, Refusal,
          RemovesVerification, Rotates, DeletesAccount, InsertsFollow, RemovesFollow, Goto
    <2> QED
      BY <2>2, <2>4, <2>5 DEF Unwritten
  <1> QED
    BY <1>2, <1>3, OwnSteps DEF Submit, Unwritten

(* The hashes that a step stores and that a request comes to hold. *)
LEMMA StoredHashes ==
  ASSUME AccountsTypeOK, [Next]_vars, NEW i \in Ids, NEW h \in credential'[i] \ credential[i]
  PROVE  h \in Requests /\ Unwritten(h) /\ ~ Unwritten(h)' /\ (~ Exists(i) => i \notin assigned)
  <1>1. TablesOK
    BY DEF AccountsTypeOK
  <1>2. PICK r \in Requests : Writes(r)
    BY WritesOrNot DEF tables
  <1>3. CASE InsertsAccount(r)
    <2>1. user[r].hash = r /\ op[r].kind = "Register"
      BY <1>3, AtStatement, OperationFields
      DEF InsertsAccount, StatementsOf, HoldsItsUser, Statements
    <2>2. h = r /\ i \notin assigned
      BY <1>1, <1>3, <2>1 DEF InsertsAccount, TablesOK
    <2>3. pc'[r] = "createProfile"
      BY <1>3 DEF InsertsAccount, Goto, AccountsTypeOK
    <2> QED
      BY <1>3, <2>1, <2>2, <2>3 DEF Unwritten, InsertsAccount
  <1>4. CASE Rotates(r)
    <2>1. op[r].kind = "UpdatePassword"
      BY <1>4, AtStatement, OperationFields DEF Rotates, StatementsOf, Statements
    <2>2. h = r /\ Exists(i) /\ pc'[r] = "checkName" /\ op' = op
      BY <1>1, <1>4 DEF Rotates, TablesOK, Goto, AccountsTypeOK
    <2> QED
      BY <1>4, <2>1, <2>2 DEF Unwritten, Rotates
  <1> QED
    BY <1>1, <1>2, <1>3, <1>4
    DEF Writes, CreatesProfile, UpdatesRow, InsertsVerification, RemovesVerification,
        DeletesAccount, InsertsFollow, RemovesFollow, tables, TablesOK

(* Where the hash that a request holds comes from. *)
LEMMA HeldHashes ==
  ASSUME AccountsTypeOK, [Next]_vars, NEW q \in Requests, user'[q] # None
  PROVE  \/ user[q] # None /\ user'[q].hash = user[q].hash /\ op'[q] = op[q]
         \/ user'[q].hash = q /\ op'[q].kind = "Register"
         \/ user'[q].hash = None
         \/ \E i \in Ids : user'[q].hash \in credential[i]
  <1>1. /\ user \in [Requests -> ApplicationUser \cup {None}] /\ TablesOK
        /\ op \in [Requests -> Operations \cup {None}] /\ RequestOK(q)
    BY DEF AccountsTypeOK
  <1>2. CASE user'[q] = user[q] /\ op'[q] = op[q]
    BY <1>2
  <1>3. CASE Submit(q)
    <2>1. PICK o \in Operations :
            /\ op' = [op EXCEPT ![q] = o]
            /\ IF o.kind = "Register"
               THEN user' = [user EXCEPT ![q] =
                      [id |-> None, name |-> o.name, email |-> o.email,
                       confirmed |-> FALSE, hash |-> q]]
               ELSE UNCHANGED user
      BY <1>3 DEF Submit
    <2>2. CASE o.kind = "Register"
      BY <1>1, <2>1, <2>2
    <2>3. user[q] = None
      BY <1>1, <1>3 DEF Submit, RequestOK
    <2> QED
      BY <2>1, <2>2, <2>3
  <1>4. CASE FindsAccount(q)
    BY <1>1, <1>4 DEF FindsAccount
  <1>5. ASSUME pc[q] \in Statements \ {"find", "unfollow"}
        PROVE  user[q] \in ApplicationUser /\ user[q] # None
    BY <1>5, AtStatement, AccountsAssumption DEF HoldsItsUser
  <1>6. CASE HydratesHash(q)
    <2>1. op[q].id \in Ids
      BY <1>1, <1>6, AtStatement, OperationFields
      DEF HydratesHash, StatementsOf, Statements, TablesOK
    <2>2. PICK h \in IF credential[op[q].id] = {} THEN {None} ELSE credential[op[q].id] :
            user' = [user EXCEPT ![q].hash = h]
      BY <1>6 DEF HydratesHash
    <2>3. user'[q].hash = h
      BY <1>1, <1>5, <1>6, <2>2 DEF HydratesHash, Statements, ApplicationUser
    <2> QED
      BY <2>1, <2>2, <2>3
  <1>7. CASE HydratesVerified(q)
    <2> DEFINE found == [user[q] EXCEPT !.confirmed = op[q].id \in verified]
    <2>1. user[q] \in ApplicationUser /\ user[q] # None
      BY <1>5, <1>7 DEF HydratesVerified, Statements
    <2>2. user'[q] = Changed(found, op[q]) /\ op'[q] = op[q]
      BY <1>1, <1>7 DEF HydratesVerified
    <2>3. found.hash = user[q].hash /\ DOMAIN found = DOMAIN user[q]
      BY <2>1 DEF ApplicationUser
    <2>4. DOMAIN user[q] = {"id", "name", "email", "confirmed", "hash"}
      BY <2>1 DEF ApplicationUser
    <2>5. Changed(found, op[q]).hash = found.hash
      BY <2>3, <2>4 DEF Changed
    <2> QED
      BY <2>1, <2>2, <2>3, <2>5
  <1>8. CASE InsertsAccount(q)
    <2>1. user[q] \in ApplicationUser /\ user[q] # None
      BY <1>5, <1>8 DEF InsertsAccount, Statements
    <2>2. PICK i \in Ids : user' = [user EXCEPT ![q].id = i]
      BY <1>8 DEF InsertsAccount
    <2>3. user'[q].hash = user[q].hash
      BY <1>1, <2>1, <2>2 DEF ApplicationUser
    <2> QED
      BY <1>8, <2>1, <2>3 DEF InsertsAccount
  <1>9. CASE UNCHANGED <<op, user>>
    BY <1>9
  <1> QED
    BY <1>2, <1>3, <1>4, <1>6, <1>7, <1>8, <1>9, OwnSteps
    DEF Reads, Writes, Fails, ChecksName, ChecksEmail, InsertCollides, Publishes,
        ChecksVerified, Revokes, DeletesFollows, CreatesProfile, UpdatesRow,
        InsertsVerification, RemovesVerification, Rotates, DeletesAccount, InsertsFollow,
        RemovesFollow

LEMMA FreshStep ==
  ASSUME AccountsTypeOK, HashesAreFresh, [Next]_vars
  PROVE  HashesAreFresh'
  <1> SUFFICES ASSUME NEW r \in Requests, Unwritten(r)'
               PROVE  /\ \A i \in Ids : r \notin credential'[i]
                      /\ \A q \in Requests : user'[q] # None /\ user'[q].hash = r =>
                           q = r /\ op'[q].kind = "Register"
    BY DEF HashesAreFresh
  <1>1. Unwritten(r)
    BY WrittenStays
  <1>2. /\ \A i \in Ids : r \notin credential[i]
        /\ \A q \in Requests : user[q] # None /\ user[q].hash = r =>
             q = r /\ op[q].kind = "Register"
    BY <1>1 DEF HashesAreFresh
  <1>3. ASSUME NEW i \in Ids PROVE r \notin credential'[i]
    BY <1>2, StoredHashes
  <1>4. ASSUME NEW q \in Requests, user'[q] # None, user'[q].hash = r
        PROVE  q = r /\ op'[q].kind = "Register"
    BY <1>2, <1>4, HeldHashes, AccountsAssumption DEF Hashes
  <1> QED
    BY <1>3, <1>4

(* A request that is past its rotation. *)
Rotated(r) ==
  /\ pc[r] \in {"checkName", "checkEmail", "update", "isVerified", "verify", "unverify",
                "ok", "conflict"}
  /\ op[r].kind = "UpdatePassword"

(* The password that a request was given is among those its UPDATE has     *)
(* met, or already gone; once rotated, it is gone.                         *)
RotationInv ==
  \A r \in Requests :
    /\ pc[r] = "rotate" /\ user[r].hash \in credential[user[r].id] =>
         user[r].hash \in seen[r]
    /\ Rotated(r) => /\ user[r] \in ApplicationUser /\ user[r].id \in assigned
                     /\ user[r].hash \notin credential[user[r].id]

(* A password that is gone does not come back. *)
LEMMA GoneHashes ==
  ASSUME AccountsTypeOK, HashesAreFresh, [Next]_vars, NEW r \in Requests,
         user[r] # None, op[r].kind = "UpdatePassword", user[r].id \in assigned,
         user[r].hash \notin credential[user[r].id]
  PROVE  user[r].hash \notin credential'[user[r].id]
  <1>1. user[r].id \in Ids
    BY DEF AccountsTypeOK, TablesOK
  <1>2. SUFFICES ASSUME user[r].hash \in credential'[user[r].id] PROVE FALSE
    OBVIOUS
  <1>3. user[r].hash \in Requests /\ Unwritten(user[r].hash)
    BY <1>1, <1>2, StoredHashes
  <1> QED
    BY <1>3 DEF HashesAreFresh

(* Ids stay assigned, and what a request has seen is its own. *)
LEMMA SeenIsOwn ==
  ASSUME AccountsTypeOK, [Next]_vars, NEW r \in Requests
  PROVE  /\ assigned \subseteq assigned'
         /\ seen'[r] = seen[r] \/ Reads(r) \/ Writes(r)
  <1>1. seen \in [Requests -> SUBSET (Hashes \cup (Ids \X Ids))]
    BY DEF AccountsTypeOK
  <1>2. UNCHANGED vars => assigned \subseteq assigned' /\ seen'[r] = seen[r]
    BY DEF vars, tables
  <1>3. ASSUME NEW q \in Requests, Submit(q)
        PROVE  assigned \subseteq assigned' /\ seen'[r] = seen[r]
    BY <1>3 DEF Submit, tables
  <1>4. ASSUME NEW q \in Requests, Reads(q)
        PROVE  assigned \subseteq assigned' /\ (q # r => seen'[r] = seen[r])
    BY <1>1, <1>4 DEF Reads, Fails, FindsAccount, HydratesHash, HydratesVerified, ChecksName,
       ChecksEmail, InsertCollides, Publishes, ChecksVerified, Revokes, DeletesFollows, tables
  <1>5. ASSUME NEW q \in Requests, Writes(q)
        PROVE  assigned \subseteq assigned' /\ (q # r => seen'[r] = seen[r])
    BY <1>1, <1>5 DEF Writes, InsertsAccount, CreatesProfile, UpdatesRow, InsertsVerification,
       RemovesVerification, Rotates, DeletesAccount, InsertsFollow, RemovesFollow, tables
  <1> QED
    BY <1>2, <1>3, <1>4, <1>5, StepCases

(* How a password request comes to where its rotation is under way or done. *)
LEMMA RotationSteps ==
  ASSUME AccountsTypeOK, NEW r \in Requests, Reads(r) \/ Writes(r),
         op'[r].kind = "UpdatePassword", pc'[r] = "rotate" \/ Rotated(r)'
  PROVE  \/ Revokes(r) /\ pc'[r] = "rotate"
         \/ Rotates(r) /\ Rotated(r)'
         \/ Rotated(r) /\ Rotated(r)' /\ user' = user /\ UNCHANGED op
  <1>1. pc \in [Requests -> {"idle"} \cup Statements \cup Answers]
    BY DEF AccountsTypeOK
  <1>2. op' = op
    BY DEF Reads, Writes, Fails, FindsAccount, HydratesHash, HydratesVerified, ChecksName,
       ChecksEmail, InsertCollides, Publishes, ChecksVerified, Revokes, DeletesFollows,
       InsertsAccount, CreatesProfile, UpdatesRow, InsertsVerification, RemovesVerification,
       Rotates, DeletesAccount, InsertsFollow, RemovesFollow
  <1>3. op[r].kind = "UpdatePassword" /\ pc[r] \in StatementsOf("UpdatePassword")
    BY <1>2, AtItsStatement, AtStatement
  <1>4. ~ (InsertsAccount(r) \/ CreatesProfile(r) \/ InsertCollides(r) \/ Publishes(r)
            \/ DeletesFollows(r) \/ DeletesAccount(r) \/ InsertsFollow(r) \/ RemovesFollow(r))
    BY <1>3 DEF StatementsOf, InsertsAccount, CreatesProfile, InsertCollides, Publishes,
       DeletesFollows, DeletesAccount, InsertsFollow, RemovesFollow
  <1>5. ~ (Fails(r) \/ FindsAccount(r) \/ HydratesHash(r) \/ HydratesVerified(r))
    BY <1>1, <1>3
    DEF Fails, FindsAccount, HydratesHash, HydratesVerified, Continuations, Rotated, Goto
  <1>6. CASE Revokes(r)
    BY <1>1, <1>6 DEF Revokes, Goto
  <1>7. CASE Rotates(r)
    BY <1>1, <1>7 DEF Rotates, Goto
  <1>8. CASE ChecksName(r) \/ ChecksEmail(r) \/ UpdatesRow(r) \/ ChecksVerified(r)
               \/ InsertsVerification(r) \/ RemovesVerification(r)
    BY <1>1, <1>2, <1>3, <1>8
    DEF Rotated, Goto, Refusal, ChecksName, ChecksEmail, UpdatesRow, ChecksVerified,
        InsertsVerification, RemovesVerification
  <1> QED
    BY <1>4, <1>5, <1>6, <1>7, <1>8 DEF Reads, Writes

(* No submission comes to a rotation, and only a password request rotates. *)
LEMMA SubmitRotates ==
  ASSUME AccountsTypeOK, NEW r \in Requests, Submit(r)
  PROVE  pc'[r] # "rotate" /\ ~ Rotated(r)'
  BY DEF AccountsTypeOK, Submit, Goto, Rotated

LEMMA RotateIsPassword ==
  ASSUME AccountsTypeOK', NEW r \in Requests, pc'[r] = "rotate"
  PROVE  op'[r].kind = "UpdatePassword"
  <1>1. op'[r] \in Operations' /\ pc'[r] \in StatementsOf(op'[r].kind)
    BY DEF AccountsTypeOK, RequestOK, Statements, Answers
  <1> QED
    BY <1>1 DEF StatementsOf

LEMMA RotationStep ==
  ASSUME AccountsTypeOK, HashesAreFresh, RotationInv, [Next]_vars
  PROVE  RotationInv'
  <1> DEFINE Pending(r) == pc[r] = "rotate" /\ user[r].hash \in credential[user[r].id]
             Done(r) == /\ user[r] \in ApplicationUser /\ user[r].id \in assigned
                        /\ user[r].hash \notin credential[user[r].id]
  <1> SUFFICES ASSUME NEW r \in Requests
               PROVE  /\ Pending(r)' => user'[r].hash \in seen'[r]
                      /\ Rotated(r)' => Done(r)'
    BY DEF RotationInv
  <1>1. /\ Pending(r) => user[r].hash \in seen[r]
        /\ Rotated(r) => Done(r)
    BY DEF RotationInv
  <1>2. ASSUME pc[r] \in {"revoke", "rotate"}
        PROVE  /\ op[r].kind = "UpdatePassword" /\ user[r] \in ApplicationUser
               /\ user[r].id \in assigned /\ user[r].id \in Ids
    BY <1>2, AtStatement, OperationFields
    DEF StatementsOf, Statements, HoldsItsUser, AccountsTypeOK, TablesOK
  <1>3. ASSUME Done(r), op[r].kind = "UpdatePassword", user'[r] = user[r]
        PROVE  Done(r)'
    <2>1. user[r].hash \notin credential'[user[r].id]
      BY <1>3, GoneHashes, AccountsAssumption
    <2> QED
      BY <1>3, <2>1, SeenIsOwn
  <1>4. CASE pc'[r] = pc[r] /\ op'[r] = op[r] /\ user'[r] = user[r] /\ seen'[r] = seen[r]
    <2>1. ASSUME Pending(r)' PROVE user'[r].hash \in seen'[r]
      <3>1. pc[r] = "rotate"
        BY <1>4, <2>1
      <3>2. Done(r) => Done(r)'
        BY <1>2, <1>3, <1>4, <3>1
      <3> QED
        BY <1>1, <1>2, <1>4, <2>1, <3>1, <3>2
    <2>2. ASSUME Rotated(r)' PROVE Done(r)'
      BY <1>1, <1>3, <1>4, <2>2 DEF Rotated
    <2> QED
      BY <2>1, <2>2
  <1>5. CASE Submit(r)
    BY <1>5, SubmitRotates
  <1>6. CASE Reads(r) \/ Writes(r)
    <2>1. SUFFICES ASSUME Pending(r)' \/ Rotated(r)'
                   PROVE  /\ Pending(r)' => user'[r].hash \in seen'[r]
                          /\ Rotated(r)' => Done(r)'
      OBVIOUS
    <2>2. op'[r].kind = "UpdatePassword"
      BY <1>6, <2>1, StepTyped, RotateIsPassword DEF Rotated
    <2>3. \/ Revokes(r) /\ pc'[r] = "rotate"
          \/ Rotates(r) /\ Rotated(r)'
          \/ Rotated(r) /\ Rotated(r)' /\ user' = user /\ UNCHANGED op
      BY <1>6, <2>1, <2>2, RotationSteps
    <2>4. Rotated(r)' => pc'[r] # "rotate"
      BY DEF Rotated
    <2>5. CASE Revokes(r) /\ pc'[r] = "rotate"
      BY <2>4, <2>5 DEF Revokes, tables, AccountsTypeOK
    <2>6. CASE Rotates(r) /\ Rotated(r)'
      <3>1. pc[r] = "rotate" /\ user[r] \in ApplicationUser /\ user[r].id \in assigned /\ user[r].id \in Ids
        BY <1>2, <2>6 DEF Rotates
      <3>2. user[r].hash # r
        BY <1>2, <3>1, AccountsAssumption DEF HashesAreFresh, Unwritten
      <3>3. Exists(user[r].id)
        BY <2>6 DEF Rotates, Rotated, Goto, AccountsTypeOK
      <3>4. PICK revoked \in SUBSET credential[user[r].id] :
              /\ seen[r] \cap credential[user[r].id] \subseteq revoked
              /\ credential' = [credential EXCEPT ![user[r].id] = (@ \ revoked) \cup {r}]
        BY <2>6, <3>3 DEF Rotates
      <3>5. credential'[user[r].id] = (credential[user[r].id] \ revoked) \cup {r}
        BY <3>1, <3>4 DEF AccountsTypeOK, TablesOK
      <3>6. user[r].hash \notin credential'[user[r].id]
        BY <1>1, <3>1, <3>2, <3>4, <3>5
      <3>7. user' = user /\ assigned' = assigned
        BY <2>6 DEF Rotates
      <3> QED
        BY <2>4, <2>6, <3>1, <3>6, <3>7
    <2>7. CASE Rotated(r) /\ Rotated(r)' /\ user' = user /\ UNCHANGED op
      BY <1>1, <1>3, <2>4, <2>7 DEF Rotated
    <2> QED
      BY <2>3, <2>5, <2>6, <2>7
  <1> QED
    BY <1>4, <1>5, <1>6, OwnSteps, SeenIsOwn

(* Once a password is replaced, it opens the account no more. *)
THEOREM OldPasswordIsGone == Spec => []PasswordIsReplaced
  <1> DEFINE Inv == HashesAreFresh /\ RotationInv
  <1>1. Init => Inv
    BY FreshInit DEF Init, RotationInv, Rotated
  <1>2. AccountsTypeOK /\ Inv /\ [Next]_vars => Inv'
    BY FreshStep, RotationStep
  <1>3. Inv => PasswordIsReplaced
    BY DEF RotationInv, Rotated, PasswordIsReplaced
  <1> QED
    BY AccountsTypeCorrect, <1>1, <1>2, <1>3, PTL DEF Spec
=============================================================================
