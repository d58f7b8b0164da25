------------------------------ MODULE Accounts ------------------------------
(***************************************************************************)
(* User accounts of the web API: the handlers of Features.Users that       *)
(* create, change and delete an account, as concurrent requests.           *)
(*                                                                         *)
(* A request runs a sequence of SQL statements, each on its own or in a    *)
(* short transaction, and keeps what it has read (the ApplicationUser) in  *)
(* memory in between.  One action is one statement, or the statements of a *)
(* transaction up to its commit, with the C# code after it up to the next  *)
(* statement.  UserManager is ASP.NET Core Identity: it validates that     *)
(* name and e-mail are free, with two queries, before every write.         *)
(***************************************************************************)
EXTENDS FiniteSets

CONSTANTS Ids,       \* the account ids NEWID will hand out
          Names, Emails,
          Requests,  \* the requests; one that sets a password sets its own
          Original,  \* the password hash of an account older than the requests
          None       \* null: no row, no id, no hash

Hashes == Requests \cup {Original}
Rows == [name : Names, email : Emails]
ApplicationUser ==
  [id : Ids \cup {None}, name : Names, email : Emails,
   confirmed : BOOLEAN, hash : Hashes \cup {None}]

ASSUME AccountsAssumption ==
  /\ Original \notin Requests
  /\ None \notin Ids \cup Hashes \cup Rows \cup ApplicationUser

VARIABLES account,     \* Auth.UserAccount: the row of each id, or None
          assigned,    \* the ids that have been handed out
          credential,  \* Auth.UserCredential: the hashes that are not revoked
          verified,    \* Auth.UserVerification: the accounts that have a row
          profile,     \* Social.UserProfile: the accounts that have a row
          follows,     \* Social.UserFollow: pairs of follower and followed
          op,          \* what each request asks for
          pc,          \* its next statement, or its answer
          user,        \* the ApplicationUser it holds
          seen         \* what the open transaction of a request has touched

tables == <<account, assigned, credential, verified, profile, follows>>
vars == <<tables, op, pc, user, seen>>

Exists(i) == account[i] # None

(* The user of an operation is known by its id; "by" is the follower. *)
Operations ==
       [kind : {"Register"}, name : Names, email : Emails]
  \cup [kind : {"UpdateEmail"}, id : assigned, email : Emails]
  \cup [kind : {"UpdateUsername"}, id : assigned, name : Names]
  \cup [kind : {"ConfirmUser", "UpdateProfile", "UpdatePassword", "DeleteAccount"},
        id : assigned]
  \cup {o \in [kind : {"Follow", "Unfollow"}, id : assigned, by : assigned] :
          o.id # o.by}

Statements ==
  {"find", "hydrateHash", "hydrateVerified", "checkName", "checkEmail",
   "insert", "createProfile", "publish", "update", "isVerified", "verify",
   "unverify", "revoke", "rotate", "unlink", "delete", "follow", "unfollow"}

(* ok; NotFoundException and the like; ConflictException; Unauthorized-    *)
(* Exception for a wrong password; any other exception.                    *)
Answers == {"ok", "notFound", "conflict", "mismatch", "error"}

Goto(r, place) == pc' = [pc EXCEPT ![r] = place]

-----------------------------------------------------------------------------

(* Any population of accounts, each complete, and no request yet. *)
Init ==
  /\ account \in [Ids -> Rows \cup {None}]
  /\ \A i, j \in Ids :
       i # j /\ Exists(i) /\ Exists(j) =>
         account[i].name # account[j].name /\ account[i].email # account[j].email
  /\ assigned = {i \in Ids : Exists(i)}
  /\ credential = [i \in Ids |-> IF Exists(i) THEN {Original} ELSE {}]
  /\ verified \in SUBSET assigned
  /\ profile = assigned
  /\ follows = {}
  /\ op = [r \in Requests |-> None]
  /\ pc = [r \in Requests |-> "idle"]
  /\ user = [r \in Requests |-> None]
  /\ seen = [r \in Requests |-> {}]

(* A controller hands a request to its handler. *)
Submit(r) ==
  /\ pc[r] = "idle"
  /\ \E o \in Operations :
       /\ op' = [op EXCEPT ![r] = o]
       /\ IF o.kind = "Register"
          THEN /\ user' = [user EXCEPT ![r] =
                    [id |-> None, name |-> o.name, email |-> o.email,
                     confirmed |-> FALSE, hash |-> r]]
               /\ Goto(r, "checkName")
          ELSE /\ Goto(r, IF o.kind = "Unfollow" THEN "unfollow" ELSE "find")
               /\ UNCHANGED user
  /\ UNCHANGED <<tables, seen>>

(* The connection drops, a statement times out, the client goes away: an   *)
(* exception leaves the handler and an open transaction rolls back.        *)
Fails(r) ==
  /\ pc[r] \in Statements
  /\ Goto(r, "error")
  /\ seen' = [seen EXCEPT ![r] = {}]
  /\ UNCHANGED <<tables, op, user>>

-----------------------------------------------------------------------------
(* FindByIdAsync: the account, then HydrateAsync. *)

FindsAccount(r) ==
  LET row == account[op[r].id] IN
  /\ pc[r] = "find"
  /\ IF row = None
     THEN Goto(r, "notFound") /\ UNCHANGED user
     ELSE /\ user' = [user EXCEPT ![r] =
               [id |-> op[r].id, name |-> row.name, email |-> row.email,
                confirmed |-> FALSE, hash |-> None]]
          /\ Goto(r, "hydrateHash")
  /\ UNCHANGED <<tables, op, seen>>

(* ExecuteScalar takes the first row, if there are several. *)
HydratesHash(r) ==
  LET active == credential[op[r].id] IN
  /\ pc[r] = "hydrateHash"
  /\ \E h \in IF active = {} THEN {None} ELSE active :
       user' = [user EXCEPT ![r].hash = h]
  /\ Goto(r, "hydrateVerified")
  /\ UNCHANGED <<tables, op, seen>>

(* What the handler changes in memory; SetEmailAsync drops the confirmation. *)
Changed(u, o) ==
  CASE o.kind = "ConfirmUser"    -> [u EXCEPT !.confirmed = TRUE]
    [] o.kind = "UpdateEmail"    -> [u EXCEPT !.email = o.email, !.confirmed = FALSE]
    [] o.kind = "UpdateUsername" -> [u EXCEPT !.name = o.name]
    [] OTHER                     -> u

(* Where a handler goes with the user it has found.  A password may be the *)
(* wrong one; without an active credential it always is.                   *)
Continuations(u, o) ==
  CASE o.kind = "UpdatePassword" -> {"mismatch"} \cup (IF u.hash = None THEN {} ELSE {"revoke"})
    [] o.kind = "DeleteAccount"  -> {"unlink"}
    [] o.kind = "Follow"         -> {"follow"}
    [] OTHER                     -> {"checkName"}

HydratesVerified(r) ==
  /\ pc[r] = "hydrateVerified"
  /\ user' = [user EXCEPT ![r] =
       Changed([@ EXCEPT !.confirmed = op[r].id \in verified], op[r])]
  /\ \E place \in Continuations(user[r], op[r]) : Goto(r, place)
  /\ UNCHANGED <<tables, op, seen>>

-----------------------------------------------------------------------------
(* UserManager.ValidateUserAsync *)

NameTaken(u) == \E i \in Ids \ {u.id} : Exists(i) /\ account[i].name = u.name
EmailTaken(u) == \E i \in Ids \ {u.id} : Exists(i) /\ account[i].email = u.email

(* ConfirmUserHandler does not look at the result of UpdateAsync. *)
Refusal(r) == IF op[r].kind = "ConfirmUser" THEN "ok" ELSE "conflict"

ChecksName(r) ==
  /\ pc[r] = "checkName"
  /\ Goto(r, IF NameTaken(user[r]) THEN Refusal(r) ELSE "checkEmail")
  /\ UNCHANGED <<tables, op, user, seen>>

ChecksEmail(r) ==
  /\ pc[r] = "checkEmail"
  /\ Goto(r, IF EmailTaken(user[r]) THEN Refusal(r)
             ELSE IF op[r].kind = "Register" THEN "insert" ELSE "update")
  /\ UNCHANGED <<tables, op, user, seen>>

-----------------------------------------------------------------------------
(* RegisterUserHandler *)

(* CreateAsync: account and credential in one transaction. *)
InsertsAccount(r) ==
  /\ pc[r] = "insert"
  /\ ~ NameTaken(user[r]) /\ ~ EmailTaken(user[r])
  /\ \E i \in Ids \ assigned :
       /\ account' = [account EXCEPT ![i] =
            [name |-> user[r].name, email |-> user[r].email]]
       /\ assigned' = assigned \cup {i}
       /\ credential' = [credential EXCEPT ![i] = {user[r].hash}]
       /\ user' = [user EXCEPT ![r].id = i]
  /\ Goto(r, "createProfile")
  /\ UNCHANGED <<verified, profile, follows, op, seen>>

(* Slip: a failing insert of the profile is caught and ignored. *)
CreatesProfileOrNot(r) ==
  /\ pc[r] = "createProfile"
  /\ \/ Exists(user[r].id) /\ profile' = profile \cup {user[r].id}
     \/ UNCHANGED profile
  /\ Goto(r, "publish")
  /\ UNCHANGED <<account, assigned, credential, verified, follows, op, user, seen>>

(* The unique keys of the table caught a race: DuplicateUserName. *)
InsertCollides(r) ==
  /\ pc[r] = "insert"
  /\ NameTaken(user[r]) \/ EmailTaken(user[r])
  /\ Goto(r, "conflict")
  /\ UNCHANGED <<tables, op, user, seen>>

CreatesProfile(r) ==
  /\ pc[r] = "createProfile"
  /\ IF Exists(user[r].id)
     THEN profile' = profile \cup {user[r].id} /\ Goto(r, "publish")
     ELSE Goto(r, "error") /\ UNCHANGED profile
  /\ UNCHANGED <<account, assigned, credential, verified, follows, op, user, seen>>

(* The notification for the confirmation e-mail; Fails covers its errors. *)
Publishes(r) ==
  /\ pc[r] = "publish"
  /\ Goto(r, "ok")
  /\ UNCHANGED <<tables, op, user, seen>>

(* Slip: MERGE instead of UPDATE, which inserts the row when it is gone. *)
UpdatesOrInsertsRow(r) ==
  LET u == user[r] IN
  /\ pc[r] = "update"
  /\ IF NameTaken(u) \/ EmailTaken(u)
     THEN Goto(r, "error") /\ UNCHANGED account
     ELSE /\ account' = [account EXCEPT ![u.id] = [name |-> u.name, email |-> u.email]]
          /\ Goto(r, IF u.confirmed THEN "isVerified" ELSE "unverify")
  /\ UNCHANGED <<assigned, credential, verified, profile, follows, op, user, seen>>

-----------------------------------------------------------------------------
(* DapperUserStore.UpdateAsync: the whole row, then the verification row. *)

UpdatesRow(r) ==
  LET u == user[r] IN
  /\ pc[r] = "update"
  /\ IF Exists(u.id) /\ (NameTaken(u) \/ EmailTaken(u))
     THEN Goto(r, "error") /\ UNCHANGED account
     ELSE /\ account' = [account EXCEPT ![u.id] =
               IF @ = None THEN None ELSE [name |-> u.name, email |-> u.email]]
          /\ Goto(r, IF u.confirmed THEN "isVerified" ELSE "unverify")
  /\ UNCHANGED <<assigned, credential, verified, profile, follows, op, user, seen>>

ChecksVerified(r) ==
  /\ pc[r] = "isVerified"
  /\ Goto(r, IF user[r].id \in verified THEN "ok" ELSE "verify")
  /\ UNCHANGED <<tables, op, user, seen>>

(* A duplicate key is swallowed; a foreign key that finds no account is not. *)
InsertsVerification(r) ==
  /\ pc[r] = "verify"
  /\ IF Exists(user[r].id)
     THEN verified' = verified \cup {user[r].id} /\ Goto(r, "ok")
     ELSE Goto(r, "error") /\ UNCHANGED verified
  /\ UNCHANGED <<account, assigned, credential, profile, follows, op, user, seen>>

RemovesVerification(r) ==
  /\ pc[r] = "unverify"
  /\ verified' = verified \ {user[r].id}
  /\ Goto(r, "ok")
  /\ UNCHANGED <<account, assigned, credential, profile, follows, op, user, seen>>

-----------------------------------------------------------------------------
(* SetPasswordHashAsync: revoke and insert in one transaction. *)

Revokes(r) ==
  /\ pc[r] = "revoke"
  /\ seen' = [seen EXCEPT ![r] = credential[user[r].id]]
  /\ Goto(r, "rotate")
  /\ UNCHANGED <<tables, op, user>>

(* Slip: the insert comes first and the revocation takes it along. *)
RotatesInsertFirst(r) ==
  LET i == user[r].id IN
  /\ pc[r] = "rotate"
  /\ IF Exists(i)
     THEN /\ credential' = [credential EXCEPT ![i] = {}]
          /\ Goto(r, "checkName")
     ELSE Goto(r, "error") /\ UNCHANGED credential
  /\ seen' = [seen EXCEPT ![r] = {}]
  /\ UNCHANGED <<account, assigned, verified, profile, follows, op, user>>

(* Slip: nothing is revoked. *)
RotatesWithoutRevoking(r) ==
  LET i == user[r].id IN
  /\ pc[r] = "rotate"
  /\ IF Exists(i)
     THEN credential' = [credential EXCEPT ![i] = @ \cup {r}] /\ Goto(r, "checkName")
     ELSE Goto(r, "error") /\ UNCHANGED credential
  /\ seen' = [seen EXCEPT ![r] = {}]
  /\ UNCHANGED <<account, assigned, verified, profile, follows, op, user>>

(* The scan of the UPDATE meets every credential committed before it began *)
(* and may or may not meet one that is committed while it waits for locks. *)
(* The insert fails on its foreign key when the account is gone.           *)
Rotates(r) ==
  LET i == user[r].id IN
  /\ pc[r] = "rotate"
  /\ IF Exists(i)
     THEN /\ \E revoked \in SUBSET credential[i] :
               /\ seen[r] \cap credential[i] \subseteq revoked
               /\ credential' = [credential EXCEPT ![i] = (@ \ revoked) \cup {r}]
          /\ Goto(r, "checkName")
     ELSE Goto(r, "error") /\ UNCHANGED credential
  /\ seen' = [seen EXCEPT ![r] = {}]
  /\ UNCHANGED <<account, assigned, verified, profile, follows, op, user>>

-----------------------------------------------------------------------------
(* DapperUserStore.DeleteAsync and UserFollowRepository *)

FollowsOf(i) == {f \in follows : i \in {f[1], f[2]}}

DeletesFollows(r) ==
  /\ pc[r] = "unlink"
  /\ seen' = [seen EXCEPT ![r] = FollowsOf(user[r].id)]
  /\ Goto(r, "delete")
  /\ UNCHANGED <<tables, op, user>>

(* The account goes, and what cascades with it; or a foreign key refuses:  *)
(* a follow that was inserted meanwhile, a post, a comment or a photo.     *)
DeletesAccount(r) ==
  LET i == user[r].id IN
  /\ pc[r] = "delete"
  /\ \/ /\ FollowsOf(i) \subseteq seen[r]
        /\ account' = [account EXCEPT ![i] = None]
        /\ credential' = [credential EXCEPT ![i] = {}]
        /\ verified' = verified \ {i}
        /\ profile' = profile \ {i}
        /\ follows' = follows \ FollowsOf(i)
        /\ Goto(r, "ok")
        /\ UNCHANGED assigned
     \/ Goto(r, "conflict") /\ Exists(i) /\ UNCHANGED tables
  /\ seen' = [seen EXCEPT ![r] = {}]
  /\ UNCHANGED <<op, user>>

(* IF NOT EXISTS ... INSERT under HOLDLOCK; both foreign keys are checked. *)
InsertsFollow(r) ==
  /\ pc[r] = "follow"
  /\ IF Exists(op[r].id) /\ Exists(op[r].by)
     THEN follows' = follows \cup {<<op[r].by, op[r].id>>} /\ Goto(r, "ok")
     ELSE Goto(r, "error") /\ UNCHANGED follows
  /\ UNCHANGED <<account, assigned, credential, verified, profile, op, user, seen>>

RemovesFollow(r) ==
  /\ pc[r] = "unfollow"
  /\ follows' = follows \ {<<op[r].by, op[r].id>>}
  /\ Goto(r, "ok")
  /\ UNCHANGED <<account, assigned, credential, verified, profile, op, user, seen>>

-----------------------------------------------------------------------------

AllAnswered == (\A r \in Requests : pc[r] \in Answers) /\ UNCHANGED vars

Next ==
  \/ \E r \in Requests :
       \/ Submit(r) \/ Fails(r)
       \/ FindsAccount(r) \/ HydratesHash(r) \/ HydratesVerified(r)
       \/ ChecksName(r) \/ ChecksEmail(r)
       \/ InsertsAccount(r) \/ InsertCollides(r) \/ CreatesProfile(r) \/ Publishes(r)
       \/ UpdatesRow(r) \/ ChecksVerified(r) \/ InsertsVerification(r) \/ RemovesVerification(r)
       \/ Revokes(r) \/ Rotates(r)
       \/ DeletesFollows(r) \/ DeletesAccount(r)
       \/ InsertsFollow(r) \/ RemovesFollow(r)
  \/ AllAnswered

Spec == Init /\ [][Next]_vars

-----------------------------------------------------------------------------

(* The statements of each kind of request, as far as they can come up. *)
StatementsOf(kind) ==
  CASE kind = "Register" -> {"checkName", "checkEmail", "insert", "createProfile", "publish"}
    [] kind = "Unfollow" -> {"unfollow"}
    [] kind = "Follow"   -> {"find", "hydrateHash", "hydrateVerified", "follow"}
    [] kind = "DeleteAccount" ->
         {"find", "hydrateHash", "hydrateVerified", "unlink", "delete"}
    [] kind = "UpdatePassword" ->
         {"find", "hydrateHash", "hydrateVerified", "revoke", "rotate", "checkName",
          "checkEmail", "update", "isVerified", "verify", "unverify"}
    [] OTHER ->
         {"find", "hydrateHash", "hydrateVerified", "checkName", "checkEmail",
          "update", "isVerified", "verify", "unverify"}

(* The user of a request: the account to be, the account made, or the one  *)
(* that was asked for.                                                     *)
HoldsItsUser(r) ==
  /\ user[r] \in ApplicationUser
  /\ IF op[r].kind # "Register" THEN user[r].id = op[r].id
     ELSE IF pc[r] \in {"createProfile", "publish"} THEN user[r].id \in assigned
     ELSE user[r].id = None /\ user[r].hash = r

TablesOK ==
  /\ account \in [Ids -> Rows \cup {None}]
  /\ assigned \subseteq Ids /\ \A i \in Ids : Exists(i) => i \in assigned
  /\ credential \in [Ids -> SUBSET Hashes]
  /\ verified \subseteq Ids /\ profile \subseteq Ids /\ follows \subseteq Ids \X Ids

RequestOK(r) ==
  IF pc[r] = "idle" THEN user[r] = None
  ELSE /\ op[r] \in Operations
       /\ pc[r] \in StatementsOf(op[r].kind) \cup Answers
       /\ pc[r] \in Statements \ {"find", "unfollow"} => HoldsItsUser(r)

(* Types; a row has an id that was handed out, a request is in its own     *)
(* handler, and past its first statement it holds the user it works on.    *)
AccountsTypeOK ==
  /\ TablesOK
  /\ op \in [Requests -> Operations \cup {None}]
  /\ pc \in [Requests -> {"idle"} \cup Statements \cup Answers]
  /\ user \in [Requests -> ApplicationUser \cup {None}]
  /\ seen \in [Requests -> SUBSET (Hashes \cup (Ids \X Ids))]
  /\ \A r \in Requests : RequestOK(r)

(* At every moment, between the statements of the requests too, each       *)
(* account has a name and an e-mail of its own and a password that works,  *)
(* and nothing is left of an account that is gone.                         *)
AccountsAreWhole ==
  /\ \A i, j \in Ids : i # j /\ Exists(i) /\ Exists(j) =>
       account[i].name # account[j].name /\ account[i].email # account[j].email
  /\ \A i \in Ids :
       IF Exists(i) THEN credential[i] # {}
       ELSE credential[i] = {} /\ i \notin verified \cup profile /\ FollowsOf(i) = {}

(* An account without a profile, which can have no avatar and no           *)
(* biography, is one whose registration is still at work or has failed     *)
(* after its first transaction; no request that answered "ok" leaves one.  *)
ProfileMissingOnlyOnFailure ==
  \A i \in Ids : Exists(i) /\ i \notin profile =>
    \E r \in Requests : /\ pc[r] \in {"createProfile", "error"}
                       /\ op[r].kind = "Register" /\ user[r].id = i

(* Once the rotation of a password is committed, the password that was     *)
(* given as the current one works no more, whatever other requests of the  *)
(* same account do, and even if the request goes on to fail.               *)
PasswordIsReplaced ==
  \A r \in Requests :
    /\ pc[r] \in {"checkName", "checkEmail", "update", "isVerified", "verify",
                  "unverify", "ok", "conflict"}
    /\ op[r].kind = "UpdatePassword"
    => user[r].hash \notin credential[user[r].id]

(* What DeleteAccount has deleted stays deleted: a request that read the   *)
(* account before does not write it back.                                  *)
DeletedIsGone ==
  \A r \in Requests :
    pc[r] = "ok" /\ op[r].kind = "DeleteAccount" => ~ Exists(op[r].id)

(* The comment of UpdateEmailHandler: SetEmailAsync "resets EmailConfirmed *)
(* to false, so the user must re-confirm the new address".  That is, if    *)
(* an account with the e-mail of a successful UpdateEmail is verified, a   *)
(* ConfirmUser has found the account with this e-mail, or a request has    *)
(* found this e-mail confirmed already.                                    *)
NewEmailIsReconfirmed ==
  \A r \in Requests :
    /\ pc[r] = "ok" /\ op[r].kind = "UpdateEmail" /\ op[r].id \in verified
    /\ account[op[r].id].email = op[r].email
    => \E c \in Requests :
         user[c] # None /\ user[c].id = op[r].id
           /\ user[c].email = op[r].email /\ user[c].confirmed
=============================================================================
