---------------------------- MODULE NextAccounts ----------------------------
(***************************************************************************)
(* Accounts and sessions of the archived Next.js application.  The session *)
(* is a sealed cookie that holds an account's id; confirmation and reset   *)
(* tokens are signed with a secret each and hold an id as well, not the    *)
(* address they were mailed to.  One action is one Prisma statement or one *)
(* mail, with the code up to the next await; the answer of a request, and  *)
(* the cookie it sets, reach the browser later or never.                   *)
(***************************************************************************)
EXTENDS Naturals

CONSTANTS Ids,         \* cuid(): ids are never used again
          Names, Emails, Passwords,
          Browsers,
          Slots,       \* the requests that can be under way at once
          MaxRequests, \* bound: requests in all
          None

VARIABLES account,  \* User: the row of each id, or None
          assigned, \* the ids that have been handed out
          cookie,   \* the session of each browser: an id or None
          mail,     \* the tokens that were mailed
          req, served

tables == <<account, assigned>>
vars == <<account, assigned, cookie, mail, req, served>>

(* argon2 of argon2 of a password verifies neither of the two. *)
Hashes == [pw : Passwords, times : 1..2]
Rows == [name : Names, email : Emails, hash : Hashes, verified : BOOLEAN]
Tokens == [kind : {"confirm", "reset"}, id : Ids, to : Emails]

(* None is neither an id nor a row. *)
ASSUME NoneIsNothing == None \notin Ids \cup Rows

Exists(i) == i # None /\ account[i] # None
Live == {i \in Ids : account[i] # None}
NameTaken(n) == \E i \in Live : account[i].name = n
EmailTaken(e) == \E i \in Live : account[i].email = e

Request(op, b, session, n, e, p, t) ==
  [op |-> op, browser |-> b, user |-> session, name |-> n, email |-> e, pw |-> p,
   token |-> t, at |-> "idle", read |-> None, free |-> {}, sets |-> "nothing", code |-> 0]
Idle == Request("none", None, None, None, None, None, None)

Operations == {"register", "login", "logout", "confirm", "resend", "forgot",
               "resetLink", "password", "edit", "delete"}
WithSession == {"confirm", "resend", "password", "edit", "delete"}
Stages == {"idle", "auth", "check", "create", "find", "mail", "peer", "read",
           "email", "name", "update", "done"}

Requests == [op : Operations \cup {"none"}, browser : Browsers \cup {None},
             user : Ids \cup {None}, name : Names \cup {None}, email : Emails \cup {None},
             pw : Passwords \cup {None}, token : Tokens \cup {None}, at : Stages,
             read : Rows \cup {None}, free : SUBSET {"name", "email"},
             sets : {"nothing", "session", "removal"}, code : Nat]

Goto(s, stage) == req' = [req EXCEPT ![s].at = stage]
Reply(s, code) == req' = [req EXCEPT ![s].at = "done", ![s].code = code]
Nothing == UNCHANGED <<account, assigned, mail>>
Refuse(s, code) == Reply(s, code) /\ Nothing

Put(i, row) == account' = [account EXCEPT ![i] = row]

-----------------------------------------------------------------------------

Init ==
  /\ \E i \in Ids : assigned = {i}
  /\ \E n \in Names, e \in Emails, p \in Passwords :
       account = [i \in Ids |->
         IF i \in assigned
         THEN [name |-> n, email |-> e, hash |-> [pw |-> p, times |-> 1], verified |-> FALSE]
         ELSE None]
  /\ cookie = [b \in Browsers |-> None]
  /\ mail = {}
  /\ req = [s \in Slots |-> Idle]
  /\ served = 0

(* What a browser can ask for: the forms of its pages, and the links in    *)
(* the mails.  A route that needs no session ignores the cookie.           *)
Inputs(b) ==
  LET Ask(op, n, e, p, t) == Request(op, b, cookie[b], n, e, p, t) IN
       {Ask("register", n, e, p, None) : n \in Names, e \in Emails, p \in Passwords}
  \cup {Ask("login", n, None, p, None) : n \in Names, p \in Passwords}
  \cup {Ask(op, None, None, None, None) : op \in {"logout", "resend", "delete"}}
  \cup {Ask(op, None, None, None, t) : op \in {"confirm", "resetLink"}, t \in mail}
  \cup {Ask("forgot", None, e, None, None) : e \in Emails}
  \cup {Ask("password", None, None, p, None) : p \in Passwords}
  \cup {Ask("edit", n, e, None, None) : n \in Names, e \in Emails}

FirstStage(op) ==
  CASE op \in WithSession -> "auth"
    [] op = "register" -> "check"
    [] op \in {"login", "logout", "forgot", "resetLink"} -> "find"

Send(s, b) ==
  /\ req[s].at = "idle"
  /\ served < MaxRequests
  /\ \E r \in Inputs(b) :
       /\ r.op \in WithSession => cookie[b] # None  \* 401 without a cookie
       /\ req' = [req EXCEPT ![s] = [r EXCEPT !.at = FirstStage(r.op)]]
  /\ served' = served + 1
  /\ UNCHANGED <<account, assigned, cookie, mail>>

(* The answer arrives.  Its Set-Cookie header was written before the code  *)
(* that may have failed later: an error answer carries it as well.         *)
Receive(s) ==
  LET b == req[s].browser IN
  /\ req[s].at = "done"
  /\ cookie' = [cookie EXCEPT ![b] =
       CASE req[s].sets = "session" -> req[s].user
         [] req[s].sets = "removal" -> None
         [] req[s].sets = "nothing" -> @]
  /\ req' = [req EXCEPT ![s] = Idle]
  /\ UNCHANGED <<account, assigned, mail, served>>

(* The answer is lost, and its cookie with it. *)
Lose(s) ==
  /\ req[s].at = "done"
  /\ req' = [req EXCEPT ![s] = Idle]
  /\ UNCHANGED <<account, assigned, cookie, mail, served>>

(* The browser drops the cookie after SESSION_MAX_AGE. *)
CookieExpires(b) ==
  /\ cookie[b] # None
  /\ cookie' = [cookie EXCEPT ![b] = None]
  /\ UNCHANGED <<account, assigned, mail, req, served>>

-----------------------------------------------------------------------------
(* The session.                                                            *)

(* setLoginSession: the cookie of the answer will hold this id. *)
SetLoginSession(s, i, stage, code) ==
  req' = [req EXCEPT ![s].user = i, ![s].sets = "session",
                     ![s].at = stage, ![s].code = code]

(* getLoginSession and findUserByIdService: the row is kept in memory. *)
GetCurrentUser(s, next) ==
  /\ req[s].at = "auth"
  /\ IF Exists(req[s].user)
     THEN req' = [req EXCEPT ![s].read = account[req[s].user], ![s].at = next]
     ELSE Reply(s, 401)
  /\ Nothing

(* localStrat and loginUser *)
LoginUser(s) ==
  LET found == {i \in Live : account[i].name = req[s].name} IN
  /\ req[s].op = "login"
  /\ req[s].at = "find"
  /\ \/ \E i \in found : /\ account[i].hash = [pw |-> req[s].pw, times |-> 1]
                         /\ SetLoginSession(s, i, "done", 200)
                         /\ Nothing
     \/ /\ \A i \in found : account[i].hash # [pw |-> req[s].pw, times |-> 1]
        /\ Refuse(s, 401)

LogoutUser(s) ==
  /\ req[s].op = "logout"
  /\ req[s].at = "find"
  /\ IF req[s].user = None
     THEN Reply(s, 401)
     ELSE req' = [req EXCEPT ![s].sets = "removal", ![s].at = "done", ![s].code = 302]
  /\ Nothing

(* getServerSideProps of users/reset-password: the link logs in.  A wrong  *)
(* or an expired token shows a page.                                       *)
ResetPasswordLink(s) ==
  /\ req[s].op = "resetLink"
  /\ req[s].at = "find"
  /\ \/ /\ req[s].token.kind = "reset"
        /\ Exists(req[s].token.id)
        /\ SetLoginSession(s, req[s].token.id, "done", 302)
        /\ Nothing
     \/ Refuse(s, 200)

-----------------------------------------------------------------------------
(* Registration.                                                           *)

(* Promise.all of two queries, in either order *)
CheckFree(s) ==
  /\ req[s].at = "check"
  /\ \E field \in {"name", "email"} \ req[s].free :
       IF \/ field = "name" /\ NameTaken(req[s].name)
          \/ field = "email" /\ EmailTaken(req[s].email)
       THEN Refuse(s, 409)
       ELSE /\ req' = [req EXCEPT
                 ![s].free = @ \cup {field},
                 ![s].at = IF req[s].free = {} THEN "check" ELSE "create"]
            /\ Nothing

(* Without the unique columns. *)
CreateNewUserUnchecked(s) ==
  /\ req[s].at = "create"
  /\ \E i \in Ids \ assigned :
       /\ Put(i, [name |-> req[s].name, email |-> req[s].email,
                  hash |-> [pw |-> req[s].pw, times |-> 1], verified |-> FALSE])
       /\ assigned' = assigned \cup {i}
       /\ SetLoginSession(s, i, "mail", 0)
       /\ UNCHANGED mail

(* createNewUserService: the columns are unique.  The session follows. *)
CreateNewUser(s) ==
  /\ req[s].at = "create"
  /\ IF NameTaken(req[s].name) \/ EmailTaken(req[s].email)
     THEN Refuse(s, 500)
     ELSE \E i \in Ids \ assigned :
            /\ Put(i, [name |-> req[s].name, email |-> req[s].email,
                       hash |-> [pw |-> req[s].pw, times |-> 1], verified |-> FALSE])
            /\ assigned' = assigned \cup {i}
            /\ SetLoginSession(s, i, "mail", 0)
            /\ UNCHANGED mail

SendMail(s, kind, i, address, next, code) ==
  /\ req[s].at = "mail"
  /\ \/ /\ mail' = mail \cup {[kind |-> kind, id |-> i, to |-> address]}
        /\ req' = [req EXCEPT ![s].at = next, ![s].code = code]
        /\ UNCHANGED tables
     \/ Refuse(s, 500)

RegisterUser(s) ==
  /\ req[s].op = "register"
  /\ \/ CheckFree(s)
     \/ CreateNewUser(s)
     \/ SendMail(s, "confirm", req[s].user, req[s].email, "done", 201)

-----------------------------------------------------------------------------
(* Confirmation.                                                           *)

(* The user of the session is confirmed, whoever the token is for. *)
ConfirmUserOfSession(s) ==
  /\ req[s].op = "confirm"
  /\ \/ GetCurrentUser(s, "update")
     \/ /\ req[s].at = "update"
        /\ IF Exists(req[s].user)
           THEN /\ Put(req[s].user, [account[req[s].user] EXCEPT !.verified = TRUE])
                /\ Reply(s, 200)
                /\ UNCHANGED <<assigned, mail>>
           ELSE Refuse(s, 500)

(* verifyConfirmationToken may find the token expired; a reset token does  *)
(* not have its secret.  accountIsVerified is the value getCurrentUser     *)
(* has read.                                                               *)
ConfirmUser(s) ==
  /\ req[s].op = "confirm"
  /\ \/ GetCurrentUser(s, "find")
     \/ /\ req[s].at = "find"
        /\ \/ Refuse(s, 401)
           \/ req[s].token.kind = "reset" /\ Refuse(s, 500)
           \/ /\ req[s].token.kind = "confirm"
              /\ CASE req[s].read.verified -> Refuse(s, 400)
                   [] req[s].user # req[s].token.id -> Refuse(s, 401)
                   [] OTHER -> Goto(s, "update") /\ Nothing
     \/ /\ req[s].at = "update"
        /\ IF Exists(req[s].token.id)
           THEN /\ Put(req[s].token.id, [account[req[s].token.id] EXCEPT !.verified = TRUE])
                /\ Reply(s, 200)
                /\ UNCHANGED <<assigned, mail>>
           ELSE Refuse(s, 500)

(* To the address that getCurrentUser has read. *)
ResendConfirmation(s) ==
  /\ req[s].op = "resend"
  /\ \/ GetCurrentUser(s, "mail")
     \/ SendMail(s, "confirm", req[s].user, req[s].read.email, "done", 200)

ResetPassword(s) ==
  /\ req[s].op = "forgot"
  /\ \/ /\ req[s].at = "find"
        /\ \/ \E i \in Live : /\ account[i].email = req[s].email
                              /\ req' = [req EXCEPT ![s].user = i, ![s].at = "mail"]
                              /\ Nothing
           \/ ~EmailTaken(req[s].email) /\ Refuse(s, 200)
     \/ SendMail(s, "reset", req[s].user, req[s].email, "done", 200)

(* The controller hashes the password, and so does the service. *)
UpdatePassword(s) ==
  /\ req[s].op = "password"
  /\ \/ GetCurrentUser(s, "update")
     \/ /\ req[s].at = "update"
        /\ IF Exists(req[s].user)
           THEN /\ Put(req[s].user,
                       [account[req[s].user] EXCEPT !.hash = [pw |-> req[s].pw, times |-> 2]])
                /\ Reply(s, 200)
                /\ UNCHANGED <<assigned, mail>>
           ELSE Refuse(s, 500)

-----------------------------------------------------------------------------
(* The account page edits the session's own account, or deletes it.        *)

(* checkIfUserCanEditUser looks for the user of the path. *)
CheckIfUserCanEditUser(s, next) ==
  /\ req[s].at = "peer"
  /\ IF Exists(req[s].user) THEN Goto(s, next) /\ Nothing ELSE Refuse(s, 404)

Changes(s, field) == req[s][field] # req[s].read[field]

(* updateUserService reads the row again; a new address gets its token     *)
(* before the name is looked at and before anything is written.            *)
ReadUser(s) ==
  /\ req[s].at = "read"
  /\ IF Exists(req[s].user)
     THEN LET row == account[req[s].user] IN
          req' = [req EXCEPT
            ![s].read = row,
            ![s].at = CASE req[s].email # row.email -> "email"
                        [] req[s].email = row.email /\ req[s].name # row.name -> "name"
                        [] OTHER -> "update"]
     ELSE Reply(s, 404)
  /\ Nothing

CheckEmail(s) ==
  /\ req[s].at = "email"
  /\ IF EmailTaken(req[s].email) THEN Refuse(s, 400) ELSE Goto(s, "mail") /\ Nothing

CheckName(s) ==
  /\ req[s].at = "name"
  /\ IF NameTaken(req[s].name) THEN Refuse(s, 400) ELSE Goto(s, "update") /\ Nothing

(* The row that was read is written back as a whole. *)
UpdateUserUpserts(s) ==
  /\ req[s].at = "update"
  /\ Put(req[s].user, [req[s].read EXCEPT !.email = req[s].email, !.name = req[s].name])
  /\ Reply(s, 200)
  /\ UNCHANGED <<assigned, mail>>

(* Only the fields that differ from the row that was read are written. *)
UpdateUser(s) ==
  LET i == req[s].user
      others == Live \ {i} IN
  /\ req[s].at = "update"
  /\ IF /\ Exists(i)
        /\ Changes(s, "email") => \A j \in others : account[j].email # req[s].email
        /\ Changes(s, "name") => \A j \in others : account[j].name # req[s].name
     THEN /\ Put(i, [account[i] EXCEPT
               !.email = IF Changes(s, "email") THEN req[s].email ELSE @,
               !.name = IF Changes(s, "name") THEN req[s].name ELSE @,
               !.verified = IF Changes(s, "email") THEN FALSE ELSE @])
          /\ Reply(s, 200)
          /\ UNCHANGED <<assigned, mail>>
     ELSE Refuse(s, 500)

EditUserInfo(s) ==
  /\ req[s].op = "edit"
  /\ \/ GetCurrentUser(s, "peer")
     \/ CheckIfUserCanEditUser(s, "read")
     \/ ReadUser(s)
     \/ CheckEmail(s)
     \/ SendMail(s, "confirm", req[s].user, req[s].email,
                 IF Changes(s, "name") THEN "name" ELSE "update", 0)
     \/ CheckName(s)
     \/ UpdateUser(s)

(* The follows of other users may still refer to the row (500). *)
DeleteAccount(s) ==
  /\ req[s].op = "delete"
  /\ \/ GetCurrentUser(s, "peer")
     \/ CheckIfUserCanEditUser(s, "update")
     \/ /\ req[s].at = "update"
        /\ \/ /\ Exists(req[s].user)
              /\ Put(req[s].user, None)
              /\ Reply(s, 200)
              /\ UNCHANGED <<assigned, mail>>
           \/ Refuse(s, 500)

-----------------------------------------------------------------------------

HandlerStep(s) ==
  /\ \/ LoginUser(s) \/ LogoutUser(s) \/ ResetPasswordLink(s) \/ RegisterUser(s)
     \/ ConfirmUser(s) \/ ResendConfirmation(s) \/ ResetPassword(s)
     \/ UpdatePassword(s) \/ EditUserInfo(s) \/ DeleteAccount(s)
  /\ UNCHANGED <<cookie, served>>

Next ==
  \/ \E s \in Slots : HandlerStep(s) \/ Receive(s) \/ Lose(s)
  \/ \E s \in Slots, b \in Browsers : Send(s, b)
  \/ \E b \in Browsers : CookieExpires(b)

Spec == Init /\ [][Next]_vars
-----------------------------------------------------------------------------

(* What a request knows: the session and the cookie it sets name ids that  *)
(* have been handed out, a link carries a token that was mailed, and mail  *)
(* goes out for an id.                                                     *)
RequestOK(r, ids, sent) ==
  /\ r.user \in ids \cup {None}
  /\ r.op \in {"register", "edit"} => r.name \in Names /\ r.email \in Emails
  /\ r.op \in {"register", "password"} => r.pw \in Passwords
  /\ r.op = "forgot" => r.email \in Emails
  /\ r.op \in {"confirm", "resetLink"} => r.token \in sent
  /\ r.op = "confirm" /\ r.at = "update" => r.token.kind = "confirm"
  /\ r.at \in {"email", "mail"} => r.user # None
  /\ r.op = "resend" /\ r.at = "mail" => r.read \in Rows

TablesOK ==
  /\ assigned \subseteq Ids
  /\ account \in [Ids -> Rows \cup {None}]
  /\ Live \subseteq assigned
  /\ mail \subseteq Tokens
  /\ \A t \in mail : t.id \in assigned

(* The type invariant. *)
NextAccountsTypeOK ==
  /\ TablesOK
  /\ cookie \in [Browsers -> assigned \cup {None}]
  /\ req \in [Slots -> Requests]
  /\ \A s \in Slots : RequestOK(req[s], assigned, mail)

(* The controllers look whether a name and an address are free, and write  *)
(* later; two registrations, or a registration and an edit, can both find  *)
(* them free.  Accounts still differ in both.                              *)
NamesAreUnique ==
  \A i, j \in Live :
    i # j => account[i].name # account[j].name /\ account[i].email # account[j].email

(* An account is verified only if a confirmation token for it was mailed,  *)
(* whatever links were followed with whose session.  (Not: to the address  *)
(* it has now.  The token does not name the address.)                      *)
VerifiedByMail ==
  \A i \in Live :
    account[i].verified => \E t \in mail : t.kind = "confirm" /\ t.id = i

(* What was in flight when an account was deleted does not bring it back,  *)
(* and its id is not used again.                                           *)
DeletedStaysDeleted ==
  [][\A i \in assigned : account[i] = None => account'[i] = None]_vars
=============================================================================
