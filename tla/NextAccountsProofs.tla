-------------------------- MODULE NextAccountsProofs --------------------------
(***************************************************************************)
(* Theorems about NextAccounts, for any sets of ids, names, addresses,     *)
(* passwords and browsers, and any number of requests at once.             *)
(***************************************************************************)
EXTENDS NextAccounts, TLAPS

(* What a statement can do to the table of accounts. *)
Creates ==
  \E i \in Ids \ assigned, row \in Rows :
    /\ Put(i, row) /\ assigned' = assigned \cup {i}
    /\ ~NameTaken(row.name) /\ ~EmailTaken(row.email) /\ ~row.verified

Rewrites ==
  \E i \in Live, row \in Rows :
    /\ Put(i, row) /\ UNCHANGED assigned
    /\ \A j \in Live \ {i} :
         /\ row.name = account[i].name \/ row.name # account[j].name
         /\ row.email = account[i].email \/ row.email # account[j].email
    /\ row.verified => \/ account[i].verified
                       \/ \E t \in mail : t.kind = "confirm" /\ t.id = i

Removes == \E i \in Live : Put(i, None) /\ UNCHANGED assigned

TableStep == UNCHANGED tables \/ Creates \/ Rewrites \/ Removes

-----------------------------------------------------------------------------
(* The tables.                                                             *)

LEMMA TypedTables ==
  ASSUME NextAccountsTypeOK
  PROVE  /\ assigned \subseteq Ids /\ Live \subseteq assigned
         /\ account \in [Ids -> Rows \cup {None}]
         /\ \A i \in Live : account[i] \in Rows
         /\ mail \subseteq Tokens
         /\ req \in [Slots -> Requests]
  BY DEF NextAccountsTypeOK, TablesOK, Live

(* A request in a slot, and its fields. *)
LEMMA TypedRequest ==
  ASSUME NextAccountsTypeOK, NEW s \in Slots
  PROVE  /\ req[s] \in Requests
         /\ RequestOK(req[s], assigned, mail)
         /\ req[s].user \in Ids \cup {None}
         /\ req[s].read \in Rows \cup {None}
         /\ req[s].token \in Tokens \cup {None}
  BY DEF NextAccountsTypeOK, Requests

LEMMA RequestFunction == ASSUME NextAccountsTypeOK PROVE req \in [Slots -> Requests]
  BY DEF NextAccountsTypeOK

(* A request with some fields replaced is a request. *)
LEMMA StageTyped ==
  ASSUME NEW q \in Requests, NEW stage \in Stages
  PROVE  [q EXCEPT !.at = stage] \in Requests
  BY DEF Requests

LEMMA AnswerTyped ==
  ASSUME NEW q \in Requests, NEW stage \in Stages, NEW code \in Nat
  PROVE  [q EXCEPT !.at = stage, !.code = code] \in Requests
  BY DEF Requests

LEMMA ReadTyped ==
  ASSUME NEW q \in Requests, NEW stage \in Stages, NEW row \in Rows
  PROVE  [q EXCEPT !.read = row, !.at = stage] \in Requests
  BY DEF Requests

LEMMA FreeTyped ==
  ASSUME NEW q \in Requests, NEW stage \in Stages, NEW free \in SUBSET {"name", "email"}
  PROVE  [q EXCEPT !.free = free, !.at = stage] \in Requests
  BY DEF Requests

LEMMA HeaderTyped ==
  ASSUME NEW q \in Requests, NEW stage \in Stages, NEW code \in Nat,
         NEW sets \in {"nothing", "session", "removal"}
  PROVE  [q EXCEPT !.sets = sets, !.at = stage, !.code = code] \in Requests
  BY DEF Requests

LEMMA UserTyped ==
  ASSUME NEW q \in Requests, NEW stage \in Stages, NEW i \in Ids
  PROVE  [q EXCEPT !.user = i, !.at = stage] \in Requests
  BY DEF Requests

LEMMA SessionTyped ==
  ASSUME NEW q \in Requests, NEW stage \in Stages, NEW code \in Nat, NEW i \in Ids
  PROVE  [q EXCEPT !.user = i, !.sets = "session", !.at = stage, !.code = code] \in Requests
  BY DEF Requests

(* An account that exists is a live row. *)
LEMMA ExistsIsLive ==
  ASSUME NextAccountsTypeOK, NEW i \in Ids \cup {None}, Exists(i)
  PROVE  i \in Live /\ i \in Ids /\ account[i] \in Rows
  BY NoneIsNothing, TypedTables DEF Exists, Live

(* A row with one field changed is a row. *)
LEMMA ChangedRow ==
  ASSUME NEW r \in Rows
  PROVE  /\ LET q == [r EXCEPT !.verified = TRUE]
            IN  q \in Rows /\ q.name = r.name /\ q.email = r.email
         /\ \A h \in Hashes : LET q == [r EXCEPT !.hash = h]
              IN  /\ q \in Rows /\ q.name = r.name /\ q.email = r.email
                  /\ q.verified = r.verified
  BY DEF Rows

LEMMA NewRowTyped ==
  ASSUME NEW n \in Names, NEW e \in Emails, NEW p \in Passwords
  PROVE  LET r == [name |-> n, email |-> e, hash |-> [pw |-> p, times |-> 1],
                   verified |-> FALSE]
         IN  r \in Rows /\ r.name = n /\ r.email = e /\ ~r.verified
  BY DEF Rows, Hashes

LEMMA CreatesRow ==
  ASSUME NextAccountsTypeOK, NEW s \in Slots, req[s].op = "register", CreateNewUser(s)
  PROVE  TableStep /\ UNCHANGED mail
  <1>1. CASE NameTaken(req[s].name) \/ EmailTaken(req[s].email)
    BY <1>1 DEF CreateNewUser, Refuse, Nothing, TableStep, tables
  <1>2. CASE ~(NameTaken(req[s].name) \/ EmailTaken(req[s].email))
    <2> DEFINE row == [name |-> req[s].name, email |-> req[s].email,
                       hash |-> [pw |-> req[s].pw, times |-> 1], verified |-> FALSE]
    <2>1. PICK i \in Ids \ assigned :
            Put(i, row) /\ assigned' = assigned \cup {i} /\ UNCHANGED mail
      BY <1>2 DEF CreateNewUser
    <2>2. row \in Rows /\ row.name = req[s].name /\ row.email = req[s].email /\ ~row.verified
      BY TypedRequest, NewRowTyped DEF RequestOK
    <2> HIDE DEF row
    <2>3. ~NameTaken(row.name) /\ ~EmailTaken(row.email)
      BY <1>2, <2>2
    <2> QED
      BY <2>1, <2>2, <2>3 DEF TableStep, Creates
  <1> QED
    BY <1>1, <1>2

LEMMA ConfirmsRow ==
  ASSUME NextAccountsTypeOK, NEW s \in Slots, ConfirmUser(s)
  PROVE  TableStep /\ UNCHANGED mail
  <1>1. CASE UNCHANGED <<account, assigned, mail>>
    BY <1>1 DEF TableStep, tables
  <1>2. CASE ~UNCHANGED <<account, assigned, mail>>
    <2> DEFINE t == req[s].token
               row == [account[t.id] EXCEPT !.verified = TRUE]
    <2>1. /\ req[s].op = "confirm" /\ req[s].at = "update" /\ Exists(t.id)
          /\ Put(t.id, row) /\ UNCHANGED <<assigned, mail>>
      BY <1>2 DEF ConfirmUser, GetCurrentUser, Refuse, Nothing
    <2>2. t \in mail /\ t \in Tokens /\ t.kind = "confirm" /\ t.id \in Ids
      BY <2>1, TypedRequest, TypedTables DEF RequestOK, Tokens
    <2>3. t.id \in Live /\ account[t.id] \in Rows
      BY <2>1, <2>2, ExistsIsLive
    <2>4. row \in Rows /\ row.name = account[t.id].name /\ row.email = account[t.id].email
      BY <2>3, ChangedRow
    <2> HIDE DEF row
    <2>5. \E c \in mail : c.kind = "confirm" /\ c.id = t.id
      BY <2>2
    <2> QED
      BY <2>1, <2>3, <2>4, <2>5 DEF TableStep, Rewrites
  <1> QED
    BY <1>1, <1>2

LEMMA RehashesRow ==
  ASSUME NextAccountsTypeOK, NEW s \in Slots, UpdatePassword(s)
  PROVE  TableStep /\ UNCHANGED mail
  <1>1. CASE UNCHANGED <<account, assigned, mail>>
    BY <1>1 DEF TableStep, tables
  <1>2. CASE ~UNCHANGED <<account, assigned, mail>>
    <2> DEFINE i == req[s].user
               h == [pw |-> req[s].pw, times |-> 2]
               row == [account[i] EXCEPT !.hash = h]
    <2>1. /\ req[s].op = "password" /\ Exists(i)
          /\ Put(i, row) /\ UNCHANGED <<assigned, mail>>
      BY <1>2 DEF UpdatePassword, GetCurrentUser, Refuse, Nothing
    <2>2. h \in Hashes /\ i \in Ids \cup {None}
      BY <2>1, TypedRequest DEF RequestOK, Hashes
    <2> HIDE DEF h
    <2>3. i \in Live /\ account[i] \in Rows
      BY <2>1, <2>2, ExistsIsLive
    <2>4. /\ row \in Rows /\ row.name = account[i].name /\ row.email = account[i].email
          /\ row.verified = account[i].verified
      BY <2>2, <2>3, ChangedRow
    <2> HIDE DEF row
    <2> QED
      BY <2>1, <2>3, <2>4 DEF TableStep, Rewrites
  <1> QED
    BY <1>1, <1>2

LEMMA UpdatesRow ==
  ASSUME NextAccountsTypeOK, NEW s \in Slots, req[s].op = "edit", UpdateUser(s)
  PROVE  TableStep /\ UNCHANGED mail
  <1>1. CASE UNCHANGED <<account, assigned, mail>>
    BY <1>1 DEF TableStep, tables
  <1>2. CASE ~UNCHANGED <<account, assigned, mail>>
    <2> DEFINE i == req[s].user
               newEmail == Changes(s, "email")
               newName == Changes(s, "name")
               old == account[i]
               e == IF newEmail THEN req[s].email ELSE old.email
               n == IF newName THEN req[s].name ELSE old.name
               v == IF newEmail THEN FALSE ELSE old.verified
               row == [old EXCEPT !.email = e, !.name = n, !.verified = v]
    <2>1. /\ Exists(i)
          /\ newEmail => \A j \in Live \ {i} : account[j].email # req[s].email
          /\ newName => \A j \in Live \ {i} : account[j].name # req[s].name
          /\ UNCHANGED <<assigned, mail>>
      BY <1>2 DEF UpdateUser, Refuse, Nothing
    <2>2. i \in Live /\ old \in Rows /\ req[s].name \in Names /\ req[s].email \in Emails
      BY <2>1, TypedRequest, ExistsIsLive DEF RequestOK
    <2>3. Put(i, [old EXCEPT !.email = IF newEmail THEN req[s].email ELSE @,
                             !.name = IF newName THEN req[s].name ELSE @,
                             !.verified = IF newEmail THEN FALSE ELSE @])
      BY <1>2 DEF UpdateUser, Refuse, Nothing
    <2>4. Put(i, row)
      BY <2>2, <2>3 DEF Rows
    <2> HIDE DEF newEmail, newName, old
    <2>5. e \in Emails /\ n \in Names /\ v \in BOOLEAN
      BY <2>2 DEF Rows
    <2>6. row \in Rows /\ row.email = e /\ row.name = n /\ row.verified = v
      BY <2>2, <2>5 DEF Rows
    <2> HIDE DEF row
    <2>7. \A j \in Live \ {i} : /\ row.name = old.name \/ row.name # account[j].name
                                /\ row.email = old.email \/ row.email # account[j].email
      BY <2>1, <2>6
    <2>8. row.verified => old.verified
      BY <2>6
    <2> QED
      BY <2>1, <2>2, <2>4, <2>6, <2>7, <2>8 DEF TableStep, Rewrites, old
  <1> QED
    BY <1>1, <1>2

LEMMA DeletesRow ==
  ASSUME NextAccountsTypeOK, NEW s \in Slots, DeleteAccount(s)
  PROVE  TableStep /\ UNCHANGED mail
  <1>1. CASE UNCHANGED <<account, assigned, mail>>
    BY <1>1 DEF TableStep, tables
  <1>2. CASE ~UNCHANGED <<account, assigned, mail>>
    <2>1. Exists(req[s].user) /\ Put(req[s].user, None) /\ UNCHANGED <<assigned, mail>>
      BY <1>2 DEF DeleteAccount, GetCurrentUser, CheckIfUserCanEditUser, Refuse, Nothing
    <2>2. req[s].user \in Live
      BY <2>1, TypedRequest, ExistsIsLive
    <2> QED
      BY <2>1, <2>2 DEF TableStep, Removes
  <1> QED
    BY <1>1, <1>2

(* A mail adds a token for an id that has been handed out. *)
MailStep ==
  \/ UNCHANGED mail
  \/ /\ UNCHANGED tables
     /\ \E t \in Tokens : t.id \in assigned /\ mail' = mail \cup {t}

LEMMA SendsMail ==
  ASSUME NextAccountsTypeOK, NEW s \in Slots,
         NEW kind \in {"confirm", "reset"}, NEW address \in Emails,
         NEW next, NEW code, SendMail(s, kind, req[s].user, address, next, code)
  PROVE  TableStep /\ MailStep
  <1>1. CASE Refuse(s, 500)
    BY <1>1 DEF Refuse, Nothing, TableStep, MailStep, tables
  <1>2. CASE ~Refuse(s, 500)
    <2> DEFINE t == [kind |-> kind, id |-> req[s].user, to |-> address]
    <2>1. req[s].at = "mail" /\ mail' = mail \cup {t} /\ UNCHANGED tables
      BY <1>2 DEF SendMail
    <2>2. req[s].user \in assigned /\ req[s].user \in Ids
      BY <2>1, TypedRequest, TypedTables DEF RequestOK
    <2>3. t \in Tokens /\ t.id \in assigned
      BY <2>2 DEF Tokens
    <2> QED
      BY <2>1, <2>3 DEF TableStep, MailStep
  <1> QED
    BY <1>1, <1>2

(* Every step of the system is one of these on the tables. *)
LEMMA TableSteps ==
  ASSUME NextAccountsTypeOK, [Next]_vars
  PROVE  TableStep /\ MailStep
  <1>1. CASE UNCHANGED <<account, assigned, mail>>
    BY <1>1 DEF TableStep, MailStep, tables
  <1>2. CASE ~UNCHANGED <<account, assigned, mail>>
    <2>1. PICK s \in Slots : HandlerStep(s)
      BY <1>2 DEF Next, vars, Receive, Lose, Send, CookieExpires
    <2>2. /\ ~LoginUser(s) /\ ~LogoutUser(s) /\ ~ResetPasswordLink(s)
      BY <1>2 DEF LoginUser, LogoutUser, ResetPasswordLink, Refuse, Nothing
    <2>3. CASE RegisterUser(s)
      <3>1. req[s].op = "register" /\ req[s].email \in Emails
        BY <2>3, TypedRequest DEF RegisterUser, RequestOK
      <3>2. ~CheckFree(s)
        BY <1>2 DEF CheckFree, Refuse, Nothing
      <3> QED
        BY <2>3, <3>1, <3>2, CreatesRow, SendsMail DEF RegisterUser, MailStep
    <2>4. CASE ConfirmUser(s)
      BY <2>4, ConfirmsRow DEF MailStep
    <2>5. CASE ResendConfirmation(s)
      <3>1. SendMail(s, "confirm", req[s].user, req[s].read.email, "done", 200)
        BY <1>2, <2>5 DEF ResendConfirmation, GetCurrentUser, Nothing
      <3>2. req[s].read \in Rows
        BY <2>5, <3>1, TypedRequest DEF ResendConfirmation, SendMail, RequestOK
      <3> QED
        BY <3>1, <3>2, SendsMail DEF Rows
    <2>6. CASE ResetPassword(s)
      <3>1. SendMail(s, "reset", req[s].user, req[s].email, "done", 200)
        BY <1>2, <2>6 DEF ResetPassword, Refuse, Nothing
      <3>2. req[s].email \in Emails
        BY <2>6, TypedRequest DEF ResetPassword, RequestOK
      <3> QED
        BY <3>1, <3>2, SendsMail
    <2>7. CASE UpdatePassword(s)
      BY <2>7, RehashesRow DEF MailStep
    <2>8. CASE EditUserInfo(s)
      <3>1. req[s].op = "edit" /\ req[s].email \in Emails
        BY <2>8, TypedRequest DEF EditUserInfo, RequestOK
      <3>2. \/ SendMail(s, "confirm", req[s].user, req[s].email,
                        IF Changes(s, "name") THEN "name" ELSE "update", 0)
            \/ UpdateUser(s)
        BY <1>2, <2>8 DEF EditUserInfo, GetCurrentUser, CheckIfUserCanEditUser, ReadUser,
             CheckEmail, CheckName, Refuse, Nothing
      <3> QED
        BY <3>1, <3>2, UpdatesRow, SendsMail DEF MailStep
    <2>9. CASE DeleteAccount(s)
      BY <2>9, DeletesRow DEF MailStep
    <2> QED
      BY <2>1, <2>2, <2>3, <2>4, <2>5, <2>6, <2>7, <2>8, <2>9 DEF HandlerStep
  <1> QED
    BY <1>1, <1>2

(* What a step does to the tables leaves them well formed. *)
LEMMA TablesTyped ==
  ASSUME NextAccountsTypeOK, TableStep, MailStep
  PROVE  TablesOK' /\ assigned \subseteq assigned' /\ mail \subseteq mail'
  <1>1. mail \subseteq mail' /\ mail' \subseteq Tokens
    BY TypedTables DEF MailStep
  <1>2. /\ assigned \subseteq assigned' /\ assigned' \subseteq Ids
        /\ account' \in [Ids -> Rows \cup {None}]
        /\ \A i \in Ids : account'[i] # None => i \in assigned'
    <2>0. \A i \in Ids : account[i] # None => i \in assigned
      BY TypedTables DEF Live
    <2>1. CASE UNCHANGED tables
      BY <2>0, <2>1, TypedTables DEF tables
    <2>2. CASE Creates
      BY <2>0, <2>2, TypedTables DEF Creates, Put
    <2>3. CASE Rewrites
      BY <2>0, <2>3, TypedTables DEF Rewrites, Put
    <2>4. CASE Removes
      BY <2>0, <2>4, TypedTables DEF Removes, Put
    <2> QED
      BY <2>1, <2>2, <2>3, <2>4 DEF TableStep
  <1>3. \A t \in mail' : t.id \in assigned'
    BY <1>2 DEF MailStep, NextAccountsTypeOK, TablesOK
  <1> QED
    BY <1>1, <1>2, <1>3 DEF TablesOK, Live

-----------------------------------------------------------------------------
(* The requests.                                                           *)

(* More ids and mails keep a request in order. *)
LEMMA RequestsStay ==
  ASSUME NEW r, NEW ids, NEW sent, NEW more, NEW further,
         ids \subseteq more, sent \subseteq further, RequestOK(r, ids, sent)
  PROVE  RequestOK(r, more, further)
  BY DEF RequestOK

(* One request changes, into another that is in order. *)
Moves(s, r) ==
  /\ req' = [req EXCEPT ![s] = r]
  /\ r \in Requests
  /\ RequestOK(r, assigned', mail')

LEMMA RequestsTyped ==
  ASSUME NextAccountsTypeOK, assigned \subseteq assigned', mail \subseteq mail',
         NEW s \in Slots, NEW r, Moves(s, r)
  PROVE  /\ req' \in [Slots -> Requests]
         /\ \A q \in Slots : RequestOK(req'[q], assigned', mail')
  <1>1. req' \in [Slots -> Requests]
    BY TypedTables DEF Moves
  <1>2. ASSUME NEW q \in Slots PROVE RequestOK(req'[q], assigned', mail')
    <2>1. CASE q = s
      BY <2>1, TypedTables DEF Moves
    <2>2. CASE q # s
      <3>1. req'[q] = req[q]
        BY <2>2, TypedTables DEF Moves
      <3> QED
        BY <3>1, TypedRequest, RequestsStay
    <2> QED
      BY <2>1, <2>2
  <1> QED
    BY <1>1, <1>2

(* The forms of change that the handlers share. *)
LEMMA RequestGoesOn ==
  ASSUME NextAccountsTypeOK, assigned \subseteq assigned', mail \subseteq mail',
         NEW s \in Slots, NEW stage \in Stages, Goto(s, stage),
         stage \in {"email", "mail"} => req[s].user # None /\ req[s].op # "resend",
         stage = "update" /\ req[s].op = "confirm" => req[s].token.kind = "confirm"
  PROVE  \E r : Moves(s, r)
  <1> DEFINE r == [req[s] EXCEPT !.at = stage]
  <1>1. req' = [req EXCEPT ![s] = r]
    BY DEF Goto
  <1>2. r \in Requests
    BY TypedRequest, StageTyped
  <1>3. RequestOK(r, assigned, mail)
    BY TypedRequest DEF RequestOK, Requests
  <1> HIDE DEF r
  <1> QED
    BY <1>1, <1>2, <1>3, RequestsStay DEF Moves

LEMMA RequestReplies ==
  ASSUME NextAccountsTypeOK, assigned \subseteq assigned', mail \subseteq mail',
         NEW s \in Slots, NEW code \in Nat, Reply(s, code)
  PROVE  \E r : Moves(s, r)
  <1> DEFINE r == [req[s] EXCEPT !.at = "done", !.code = code]
  <1>1. req' = [req EXCEPT ![s] = r]
    BY TypedRequest DEF Reply, Requests
  <1>2. r \in Requests
    BY TypedRequest, AnswerTyped DEF Stages
  <1>3. RequestOK(r, assigned, mail)
    BY TypedRequest DEF RequestOK, Requests
  <1> HIDE DEF r
  <1> QED
    BY <1>1, <1>2, <1>3, RequestsStay DEF Moves

(* getCurrentUser: what is read is a row, and the session is somebody's. *)
LEMMA RequestHasUser ==
  ASSUME NextAccountsTypeOK, NEW s \in Slots,
         NEW stage \in Stages, GetCurrentUser(s, stage),
         stage = "update" => req[s].op # "confirm"
  PROVE  \E r : Moves(s, r)
  <1>1. UNCHANGED <<assigned, mail>>
    BY DEF GetCurrentUser, Nothing
  <1>2. CASE Exists(req[s].user)
    <2> DEFINE row == account[req[s].user]
               r == [req[s] EXCEPT !.read = row, !.at = stage]
    <2>1. row \in Rows /\ req[s].user # None
      BY <1>2, TypedRequest, ExistsIsLive DEF Exists
    <2>2. req' = [req EXCEPT ![s] = r]
      BY <1>2, TypedRequest DEF GetCurrentUser, Requests
    <2> HIDE DEF row
    <2>3. r \in Requests
      BY <2>1, TypedRequest, ReadTyped
    <2>4. RequestOK(r, assigned, mail)
      BY <2>1, TypedRequest DEF RequestOK, Requests
    <2> HIDE DEF r
    <2> QED
      BY <1>1, <2>2, <2>3, <2>4 DEF Moves
  <1>3. CASE ~Exists(req[s].user)
    BY <1>1, <1>3, RequestReplies DEF GetCurrentUser
  <1> QED
    BY <1>2, <1>3

LEMMA RequestSetsSession ==
  ASSUME NextAccountsTypeOK, assigned \subseteq assigned', mail \subseteq mail',
         NEW s \in Slots, NEW i \in Ids, i \in assigned',
         NEW stage \in {"mail", "done"}, NEW code \in Nat,
         SetLoginSession(s, i, stage, code), req[s].op # "resend", i # None
  PROVE  \E r : Moves(s, r)
  <1> DEFINE r == [req[s] EXCEPT !.user = i, !.sets = "session", !.at = stage, !.code = code]
  <1>1. req' = [req EXCEPT ![s] = r]
    BY TypedRequest DEF SetLoginSession, Requests
  <1>2. r \in Requests
    BY TypedRequest, SessionTyped DEF Stages
  <1>3. RequestOK(r, assigned', mail')
    <2>1. RequestOK(req[s], assigned', mail')
      BY TypedRequest, RequestsStay
    <2> QED
      BY <2>1, TypedRequest DEF RequestOK, Requests
  <1> HIDE DEF r
  <1> QED
    BY <1>1, <1>2, <1>3 DEF Moves

LEMMA MailMoves ==
  ASSUME NextAccountsTypeOK, assigned \subseteq assigned', mail \subseteq mail',
         NEW s \in Slots, NEW kind, NEW i, NEW address,
         NEW stage \in {"name", "update", "done"}, NEW code \in Nat,
         stage = "update" => req[s].op # "confirm",
         SendMail(s, kind, i, address, stage, code)
  PROVE  \E r : Moves(s, r)
  <1>1. CASE Reply(s, 500)
    BY <1>1, RequestReplies
  <1>2. CASE req' = [req EXCEPT ![s].at = stage, ![s].code = code]
    <2> DEFINE r == [req[s] EXCEPT !.at = stage, !.code = code]
    <2>1. req' = [req EXCEPT ![s] = r]
      BY <1>2, TypedRequest DEF Requests
    <2>2. r \in Requests
      BY TypedRequest, AnswerTyped DEF Stages
    <2>3. RequestOK(r, assigned, mail)
      BY TypedRequest DEF RequestOK, Requests
    <2> HIDE DEF r
    <2> QED
      BY <2>1, <2>2, <2>3, RequestsStay DEF Moves
  <1> QED
    BY <1>1, <1>2 DEF SendMail, Refuse

LEMMA ReadUserMoves ==
  ASSUME NextAccountsTypeOK, NEW s \in Slots, req[s].op = "edit", ReadUser(s)
  PROVE  \E r : Moves(s, r)
  <1>1. UNCHANGED <<assigned, mail>>
    BY DEF ReadUser, Nothing
  <1>2. CASE Exists(req[s].user)
    <2> DEFINE row == account[req[s].user]
               stage == CASE req[s].email # row.email -> "email"
                          [] req[s].email = row.email /\ req[s].name # row.name -> "name"
                          [] OTHER -> "update"
               r == [req[s] EXCEPT !.read = row, !.at = stage]
    <2>1. row \in Rows /\ req[s].user # None
      BY <1>2, TypedRequest, ExistsIsLive DEF Exists
    <2>2. req' = [req EXCEPT ![s].read = row, ![s].at = stage]
      BY <1>2 DEF ReadUser
    <2>3. stage \in {"email", "name", "update"} /\ stage \in Stages
      BY DEF Stages
    <2> HIDE DEF row, stage
    <2>4. req' = [req EXCEPT ![s] = r]
      BY <2>2, RequestFunction, TypedRequest DEF Requests
    <2>5. r \in Requests
      BY <2>1, <2>3, TypedRequest, ReadTyped
    <2>6. RequestOK(r, assigned, mail)
      BY <2>1, <2>3, TypedRequest DEF RequestOK, Requests
    <2> HIDE DEF r
    <2> QED
      BY <1>1, <2>4, <2>5, <2>6 DEF Moves
  <1>3. CASE ~Exists(req[s].user)
    BY <1>1, <1>3, RequestReplies DEF ReadUser
  <1> QED
    BY <1>2, <1>3

LEMMA CheckFreeMoves ==
  ASSUME NextAccountsTypeOK, NEW s \in Slots, req[s].op = "register", CheckFree(s)
  PROVE  \E r : Moves(s, r)
  <1>1. UNCHANGED <<assigned, mail>>
    BY DEF CheckFree, Refuse, Nothing
  <1>2. CASE Reply(s, 409)
    BY <1>1, <1>2, RequestReplies
  <1>3. CASE ~Reply(s, 409)
    <2>1. PICK field \in {"name", "email"} :
            req' = [req EXCEPT ![s].free = @ \cup {field},
                               ![s].at = IF req[s].free = {} THEN "check" ELSE "create"]
      BY <1>3 DEF CheckFree, Refuse
    <2> DEFINE stage == IF req[s].free = {} THEN "check" ELSE "create"
               free == req[s].free \cup {field}
               r == [req[s] EXCEPT !.free = free, !.at = stage]
    <2>2. stage \in {"check", "create"} /\ stage \in Stages
      BY DEF Stages
    <2>3. req' = [req EXCEPT ![s] = r]
      BY <2>1, TypedRequest DEF Requests
    <2>0. free \in SUBSET {"name", "email"}
      BY TypedRequest DEF Requests
    <2> HIDE DEF stage, free
    <2>4. r \in Requests
      BY <2>0, <2>2, TypedRequest, FreeTyped
    <2>5. RequestOK(r, assigned, mail)
      BY <2>2, TypedRequest DEF RequestOK, Requests
    <2> HIDE DEF r
    <2> QED
      BY <1>1, <2>3, <2>4, <2>5 DEF Moves
  <1> QED
    BY <1>2, <1>3

(* Mail to the address that was asked for: the user is found first. *)
LEMMA FoundMoves ==
  ASSUME NextAccountsTypeOK, UNCHANGED <<assigned, mail>>,
         NEW s \in Slots, req[s].op = "forgot", NEW i \in Live,
         req' = [req EXCEPT ![s].user = i, ![s].at = "mail"]
  PROVE  \E r : Moves(s, r)
  <1> DEFINE r == [req[s] EXCEPT !.user = i, !.at = "mail"]
  <1>1. req' = [req EXCEPT ![s] = r]
    BY RequestFunction, TypedRequest DEF Requests
  <1>2. i \in Ids /\ i \in assigned /\ i # None
    BY TypedTables, NoneIsNothing
  <1>3. r \in Requests
    BY <1>2, TypedRequest, UserTyped DEF Stages
  <1>4. RequestOK(r, assigned, mail)
    BY <1>2, TypedRequest DEF RequestOK, Requests
  <1> HIDE DEF r
  <1> QED
    BY <1>1, <1>3, <1>4 DEF Moves

LEMMA LogoutMoves ==
  ASSUME NextAccountsTypeOK, NEW s \in Slots, LogoutUser(s)
  PROVE  \E r : Moves(s, r)
  <1>1. UNCHANGED <<assigned, mail>>
    BY DEF LogoutUser, Nothing
  <1>2. CASE Reply(s, 401)
    BY <1>1, <1>2, RequestReplies
  <1>3. CASE req' = [req EXCEPT ![s].sets = "removal", ![s].at = "done", ![s].code = 302]
    <2> DEFINE code == 302
               sets == "removal"
               r == [req[s] EXCEPT !.sets = sets, !.at = "done", !.code = code]
    <2>1. req' = [req EXCEPT ![s] = r]
      <3>1. req' = [req EXCEPT ![s] = [@ EXCEPT !.sets = sets, !.at = "done", !.code = code]]
        BY <1>3, RequestFunction, TypedRequest DEF Requests
      <3> QED
        BY <3>1
    <2>2. "done" \in Stages /\ code \in Nat /\ sets \in {"nothing", "session", "removal"}
      BY DEF Stages
    <2> HIDE DEF code, sets
    <2>3. r \in Requests
      BY <2>2, TypedRequest, HeaderTyped
    <2>4. RequestOK(r, assigned, mail)
      BY TypedRequest DEF RequestOK, Requests
    <2> HIDE DEF r
    <2> QED
      BY <1>1, <2>1, <2>3, <2>4 DEF Moves
  <1> QED
    BY <1>2, <1>3 DEF LogoutUser

(* Every handler moves one request, its own. *)
LEMMA HandlerMoves ==
  ASSUME NextAccountsTypeOK, NEW s \in Slots, HandlerStep(s),
         assigned \subseteq assigned', mail \subseteq mail'
  PROVE  \E r : Moves(s, r)
  <1>1. CASE LoginUser(s)
    <2>1. CASE Reply(s, 401)
      BY <2>1, RequestReplies
    <2>2. CASE \E i \in Live : SetLoginSession(s, i, "done", 200)
      BY <1>1, <2>2, RequestSetsSession, TypedTables, NoneIsNothing DEF LoginUser
    <2> QED
      BY <1>1, <2>1, <2>2 DEF LoginUser, Refuse
  <1>2. CASE LogoutUser(s)
    BY <1>2, LogoutMoves
  <1>3. CASE ResetPasswordLink(s)
    <2>1. CASE Reply(s, 200)
      BY <2>1, RequestReplies
    <2>2. CASE Exists(req[s].token.id) /\ SetLoginSession(s, req[s].token.id, "done", 302)
      <3>1. req[s].token.id \in Ids /\ req[s].token.id \in assigned /\ req[s].token.id # None
        BY <1>3, <2>2, TypedRequest, TypedTables, ExistsIsLive, NoneIsNothing
           DEF ResetPasswordLink, RequestOK, Tokens
      <3> QED
        BY <1>3, <2>2, <3>1, RequestSetsSession DEF ResetPasswordLink
    <2> QED
      BY <1>3, <2>1, <2>2 DEF ResetPasswordLink, Refuse
  <1>4. CASE RegisterUser(s)
    <2>1. CASE CheckFree(s)
      BY <1>4, <2>1, CheckFreeMoves DEF RegisterUser
    <2>2. CASE CreateNewUser(s)
      <3>1. CASE Reply(s, 500)
        BY <3>1, RequestReplies
      <3>2. CASE ~Reply(s, 500)
        <4>1. PICK i \in Ids \ assigned :
                assigned' = assigned \cup {i} /\ SetLoginSession(s, i, "mail", 0)
          BY <2>2, <3>2 DEF CreateNewUser, Refuse
        <4> QED
          BY <1>4, <4>1, RequestSetsSession, NoneIsNothing DEF RegisterUser
      <3> QED
        BY <3>1, <3>2
    <2>3. CASE SendMail(s, "confirm", req[s].user, req[s].email, "done", 201)
      BY <2>3, MailMoves
    <2> QED
      BY <1>4, <2>1, <2>2, <2>3 DEF RegisterUser
  <1>5. CASE ConfirmUser(s)
    <2>1. CASE GetCurrentUser(s, "find")
      BY <2>1, RequestHasUser DEF Stages
    <2>2. CASE \E c \in {200, 400, 401, 500} : Reply(s, c)
      BY <2>2, RequestReplies
    <2>3. CASE Goto(s, "update") /\ req[s].token.kind = "confirm"
      BY <2>3, RequestGoesOn DEF Stages
    <2> QED
      BY <1>5, <2>1, <2>2, <2>3 DEF ConfirmUser, Refuse
  <1>6. CASE ResendConfirmation(s)
    <2>1. CASE GetCurrentUser(s, "mail")
      BY <2>1, RequestHasUser DEF Stages
    <2>2. CASE SendMail(s, "confirm", req[s].user, req[s].read.email, "done", 200)
      BY <2>2, MailMoves
    <2> QED
      BY <1>6, <2>1, <2>2 DEF ResendConfirmation
  <1>7. CASE ResetPassword(s)
    <2>1. CASE Reply(s, 200)
      BY <2>1, RequestReplies
    <2>2. CASE \E i \in Live : /\ req' = [req EXCEPT ![s].user = i, ![s].at = "mail"]
                               /\ Nothing
      BY <1>7, <2>2, FoundMoves DEF ResetPassword, Nothing
    <2>3. CASE SendMail(s, "reset", req[s].user, req[s].email, "done", 200)
      BY <2>3, MailMoves
    <2> QED
      BY <1>7, <2>1, <2>2, <2>3 DEF ResetPassword, Refuse
  <1>8. CASE UpdatePassword(s)
    <2>1. CASE GetCurrentUser(s, "update")
      BY <1>8, <2>1, RequestHasUser DEF UpdatePassword, Stages
    <2>2. CASE \E c \in {200, 500} : Reply(s, c)
      BY <2>2, RequestReplies
    <2> QED
      BY <1>8, <2>1, <2>2 DEF UpdatePassword, Refuse
  <1>9. CASE EditUserInfo(s)
    <2>0. req[s].op = "edit"
      BY <1>9 DEF EditUserInfo
    <2>1. CASE GetCurrentUser(s, "peer")
      BY <2>1, RequestHasUser DEF Stages
    <2>2. CASE \E c \in {200, 400, 404, 500} : Reply(s, c)
      BY <2>2, RequestReplies
    <2>3. CASE ReadUser(s)
      BY <2>0, <2>3, ReadUserMoves
    <2>4. CASE CheckIfUserCanEditUser(s, "read") \/ CheckName(s)
      BY <2>0, <2>2, <2>4, RequestGoesOn DEF CheckIfUserCanEditUser, CheckName, Refuse, Stages
    <2>5. CASE CheckEmail(s)
      <3>1. req[s].user # None
        BY <2>5, TypedRequest DEF CheckEmail, RequestOK
      <3> QED
        BY <2>0, <2>2, <2>5, <3>1, RequestGoesOn DEF CheckEmail, Refuse, Stages
    <2>6. CASE SendMail(s, "confirm", req[s].user, req[s].email,
                        IF Changes(s, "name") THEN "name" ELSE "update", 0)
      BY <2>0, <2>6, MailMoves
    <2>7. CASE UpdateUser(s)
      BY <2>2, <2>7 DEF UpdateUser, Refuse
    <2> QED
      BY <1>9, <2>1, <2>3, <2>4, <2>5, <2>6, <2>7 DEF EditUserInfo
  <1>10. CASE DeleteAccount(s)
    <2>0. req[s].op = "delete"
      BY <1>10 DEF DeleteAccount
    <2>1. CASE GetCurrentUser(s, "peer")
      BY <2>1, RequestHasUser DEF Stages
    <2>2. CASE \E c \in {200, 404, 500} : Reply(s, c)
      BY <2>2, RequestReplies
    <2>3. CASE Goto(s, "update")
      BY <2>0, <2>3, RequestGoesOn DEF Stages
    <2> QED
      BY <1>10, <2>1, <2>2, <2>3 DEF DeleteAccount, CheckIfUserCanEditUser, Refuse
  <1> QED
    BY <1>1, <1>2, <1>3, <1>4, <1>5, <1>6, <1>7, <1>8, <1>9, <1>10 DEF HandlerStep

(* A form or a link that a browser can send. *)
LEMMA InputInOrder ==
  ASSUME NextAccountsTypeOK, NEW b \in Browsers, NEW q \in Inputs(b)
  PROVE  q \in Requests /\ q.op \in Operations /\ RequestOK(q, assigned, mail)
  <1> DEFINE Ask(op, n, e, p, t) == Request(op, b, cookie[b], n, e, p, t)
  <1>1. cookie[b] \in assigned \cup {None} /\ cookie[b] \in Ids \cup {None}
    BY TypedTables DEF NextAccountsTypeOK
  <1>2. "idle" \in Stages
    BY DEF Stages
  <1>3. ASSUME NEW op \in Operations, NEW n \in Names \cup {None}, NEW e \in Emails \cup {None},
               NEW p \in Passwords \cup {None}, NEW t \in Tokens \cup {None},
               q = Ask(op, n, e, p, t),
               op \in {"register", "edit"} => n \in Names /\ e \in Emails,
               op \in {"register", "password"} => p \in Passwords,
               op = "forgot" => e \in Emails,
               op \in {"confirm", "resetLink"} => t \in mail
        PROVE  q \in Requests /\ q.op \in Operations /\ RequestOK(q, assigned, mail)
    BY <1>1, <1>2, <1>3 DEF Request, Requests, RequestOK
  <1> HIDE DEF Ask
  <1>4. CASE q \in {Ask("register", n, e, p, None) :
                      n \in Names, e \in Emails, p \in Passwords}
    BY <1>3, <1>4 DEF Operations
  <1>5. CASE q \in {Ask("login", n, None, p, None) : n \in Names, p \in Passwords}
    BY <1>3, <1>5 DEF Operations
  <1>6. CASE q \in {Ask(op, None, None, None, None) : op \in {"logout", "resend", "delete"}}
    BY <1>3, <1>6 DEF Operations
  <1>7. CASE q \in {Ask(op, None, None, None, t) : op \in {"confirm", "resetLink"}, t \in mail}
    BY <1>3, <1>7, TypedTables DEF Operations
  <1>8. CASE q \in {Ask("forgot", None, e, None, None) : e \in Emails}
    BY <1>3, <1>8 DEF Operations
  <1>9. CASE q \in {Ask("password", None, None, p, None) : p \in Passwords}
    BY <1>3, <1>9 DEF Operations
  <1>10. CASE q \in {Ask("edit", n, e, None, None) : n \in Names, e \in Emails}
    BY <1>3, <1>10 DEF Operations
  <1> QED
    BY <1>4, <1>5, <1>6, <1>7, <1>8, <1>9, <1>10 DEF Inputs, Ask

(* The request that a browser sends. *)
LEMMA SendMoves ==
  ASSUME NextAccountsTypeOK, NEW s \in Slots, NEW b \in Browsers, Send(s, b)
  PROVE  \E r : Moves(s, r)
  <1>1. PICK q \in Inputs(b) : req' = [req EXCEPT ![s] = [q EXCEPT !.at = FirstStage(q.op)]]
    BY DEF Send
  <1> DEFINE stage == FirstStage(q.op)
             r == [q EXCEPT !.at = stage]
  <1>2. q \in Requests /\ q.op \in Operations /\ RequestOK(q, assigned, mail)
    BY InputInOrder
  <1>3. stage \in {"auth", "check", "find"} /\ stage \in Stages
    BY <1>2 DEF FirstStage, Operations, WithSession, Stages
  <1>4. UNCHANGED <<assigned, mail>> /\ req' = [req EXCEPT ![s] = r]
    BY <1>1 DEF Send
  <1> HIDE DEF stage
  <1>5. r \in Requests
    BY <1>2, <1>3, StageTyped
  <1>6. RequestOK(r, assigned, mail)
    BY <1>2, <1>3 DEF RequestOK, Requests
  <1> HIDE DEF r
  <1> QED
    BY <1>4, <1>5, <1>6 DEF Moves

LEMMA IdleInOrder ==
  ASSUME NEW ids, NEW sent
  PROVE  Idle \in Requests /\ RequestOK(Idle, ids, sent)
  BY DEF Idle, Request, Requests, RequestOK, Stages

(* The session that an answer leaves in its browser. *)
LEMMA CookieTyped ==
  ASSUME NextAccountsTypeOK, [Next]_vars, assigned \subseteq assigned'
  PROVE  cookie' \in [Browsers -> assigned' \cup {None}]
  <1>0. cookie \in [Browsers -> assigned \cup {None}]
    BY DEF NextAccountsTypeOK
  <1>1. CASE UNCHANGED cookie
    BY <1>0, <1>1
  <1>2. CASE \E b \in Browsers : CookieExpires(b)
    BY <1>0, <1>2 DEF CookieExpires
  <1>3. CASE \E s \in Slots : Receive(s)
    <2>1. PICK s \in Slots : Receive(s)
      BY <1>3
    <2>2. req[s].user \in assigned \cup {None}
      BY TypedRequest DEF RequestOK
    <2>3. req[s].sets \in {"nothing", "session", "removal"}
      BY TypedRequest DEF Requests
    <2> QED
      BY <1>0, <2>1, <2>2, <2>3 DEF Receive
  <1> QED
    BY <1>1, <1>2, <1>3 DEF Next, vars, HandlerStep, Lose, Send

-----------------------------------------------------------------------------

LEMMA InitTyped == Init => NextAccountsTypeOK
  <1> SUFFICES ASSUME Init PROVE NextAccountsTypeOK
    OBVIOUS
  <1>1. assigned \subseteq Ids /\ mail = {} /\ cookie = [b \in Browsers |-> None]
    BY DEF Init
  <1>2. PICK n \in Names, e \in Emails, p \in Passwords :
          account = [i \in Ids |->
            IF i \in assigned
            THEN [name |-> n, email |-> e, hash |-> [pw |-> p, times |-> 1], verified |-> FALSE]
            ELSE None]
    BY DEF Init
  <1>3. [name |-> n, email |-> e, hash |-> [pw |-> p, times |-> 1], verified |-> FALSE] \in Rows
    BY NewRowTyped
  <1>4. account \in [Ids -> Rows \cup {None}] /\ Live \subseteq assigned
    BY <1>2, <1>3 DEF Live
  <1>5. req = [s \in Slots |-> Idle]
    BY DEF Init
  <1> QED
    BY <1>1, <1>4, <1>5, IdleInOrder DEF NextAccountsTypeOK, TablesOK

LEMMA NextTyped ==
  ASSUME NextAccountsTypeOK, [Next]_vars
  PROVE  NextAccountsTypeOK'
  <1>1. TablesOK' /\ assigned \subseteq assigned' /\ mail \subseteq mail'
    BY TableSteps, TablesTyped
  <1>2. cookie' \in [Browsers -> assigned' \cup {None}]
    BY <1>1, CookieTyped
  <1>3. UNCHANGED req \/ \E s \in Slots : \E r : Moves(s, r)
    <2>1. CASE \E s \in Slots : HandlerStep(s)
      BY <1>1, <2>1, HandlerMoves
    <2>2. CASE \E s \in Slots : Receive(s) \/ Lose(s)
      BY <2>2, IdleInOrder DEF Receive, Lose, Moves
    <2>3. CASE \E s \in Slots, b \in Browsers : Send(s, b)
      BY <2>3, SendMoves
    <2> QED
      BY <2>1, <2>2, <2>3 DEF Next, vars, CookieExpires
  <1>4. /\ req' \in [Slots -> Requests]
        /\ \A s \in Slots : RequestOK(req[s], assigned, mail)'
    <2>1. CASE UNCHANGED req
      BY <1>1, <2>1, TypedTables, TypedRequest, RequestsStay
    <2>2. CASE \E s \in Slots : \E r : Moves(s, r)
      BY <1>1, <2>2, RequestsTyped
    <2> QED
      BY <1>3, <2>1, <2>2
  <1> QED
    BY <1>1, <1>2, <1>4 DEF NextAccountsTypeOK

(* Every state is well typed: whatever is in flight, a session, a request  *)
(* and a mailed token name ids that have been handed out.                  *)
THEOREM NextAccountsTypeCorrect == Spec => []NextAccountsTypeOK
  <1>1. Init => NextAccountsTypeOK
    BY InitTyped
  <1>2. NextAccountsTypeOK /\ [Next]_vars => NextAccountsTypeOK'
    BY NextTyped
  <1> QED
    BY <1>1, <1>2, PTL DEF Spec

(* The unique columns, not the looks before them, keep two accounts apart  *)
(* in name and in address.                                                 *)
THEOREM UniquenessHolds == Spec => []NamesAreUnique
  <1>1. Init => NamesAreUnique
    <2> SUFFICES ASSUME Init, NEW i \in Live, NEW j \in Live, i # j PROVE FALSE
      BY DEF NamesAreUnique
    <2>1. PICK n \in Names, e \in Emails, p \in Passwords :
          account = [k \in Ids |->
            IF k \in assigned
            THEN [name |-> n, email |-> e, hash |-> [pw |-> p, times |-> 1], verified |-> FALSE]
            ELSE None]
      BY DEF Init
    <2>2. i \in assigned /\ j \in assigned
      BY <2>1 DEF Live
    <2> QED
      BY <2>2 DEF Init
  <1>2. NextAccountsTypeOK /\ NamesAreUnique /\ [Next]_vars => NamesAreUnique'
    <2> SUFFICES ASSUME NextAccountsTypeOK, NamesAreUnique, [Next]_vars
                 PROVE  NamesAreUnique'
      OBVIOUS
    <2>0. TableStep
      BY TableSteps
    <2>1. CASE UNCHANGED tables
      BY <2>1 DEF tables, NamesAreUnique, Live
    <2>2. CASE Creates
      BY <2>2, TypedTables DEF Creates, Put, NamesAreUnique, Live, NameTaken, EmailTaken
    <2>3. CASE Rewrites
      BY <2>3, TypedTables DEF Rewrites, Put, NamesAreUnique, Live
    <2>4. CASE Removes
      BY <2>4, TypedTables DEF Removes, Put, NamesAreUnique, Live
    <2> QED
      BY <2>0, <2>1, <2>2, <2>3, <2>4 DEF TableStep
  <1> QED
    BY <1>1, <1>2, NextAccountsTypeCorrect, PTL DEF Spec

(* No order of confirmations, edits and deletions marks an account as      *)
(* verified for which no confirmation was mailed.                          *)
THEOREM VerificationHolds == Spec => []VerifiedByMail
  <1>1. Init => VerifiedByMail
    BY DEF Init, VerifiedByMail, Live
  <1>2. NextAccountsTypeOK /\ VerifiedByMail /\ [Next]_vars => VerifiedByMail'
    <2> SUFFICES ASSUME NextAccountsTypeOK, VerifiedByMail, [Next]_vars
                 PROVE  VerifiedByMail'
      OBVIOUS
    <2>0. TableStep /\ mail \subseteq mail'
      BY TableSteps, TablesTyped
    <2>1. CASE UNCHANGED tables
      BY <2>0, <2>1 DEF tables, VerifiedByMail, Live
    <2>2. CASE Creates
      BY <2>0, <2>2, TypedTables DEF Creates, Put, VerifiedByMail, Live
    <2>3. CASE Rewrites
      BY <2>0, <2>3, TypedTables DEF Rewrites, Put, VerifiedByMail, Live
    <2>4. CASE Removes
      BY <2>0, <2>4, TypedTables DEF Removes, Put, VerifiedByMail, Live
    <2> QED
      BY <2>0, <2>1, <2>2, <2>3, <2>4 DEF TableStep
  <1> QED
    BY <1>1, <1>2, NextAccountsTypeCorrect, PTL DEF Spec

(* Nothing that was in flight brings a deleted account back.               *)
THEOREM DeletionHolds == Spec => DeletedStaysDeleted
  <1>1. NextAccountsTypeOK /\ [Next]_vars
          => [\A i \in assigned : account[i] = None => account'[i] = None]_vars
    <2> SUFFICES ASSUME NextAccountsTypeOK, [Next]_vars,
                        NEW i \in assigned, account[i] = None
                 PROVE  account'[i] = None
      OBVIOUS
    <2>0. TableStep /\ i \in Ids
      BY TableSteps, TypedTables
    <2>1. CASE UNCHANGED tables
      BY <2>1 DEF tables
    <2>2. CASE Creates
      BY <2>0, <2>2, TypedTables DEF Creates, Put
    <2>3. CASE Rewrites
      BY <2>0, <2>3, TypedTables DEF Rewrites, Put, Live
    <2>4. CASE Removes
      BY <2>0, <2>4, TypedTables DEF Removes, Put, Live
    <2> QED
      BY <2>0, <2>1, <2>2, <2>3, <2>4 DEF TableStep
  <1> QED
    BY <1>1, NextAccountsTypeCorrect, PTL DEF Spec, DeletedStaysDeleted
=============================================================================
