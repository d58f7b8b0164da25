----------------------------- MODULE WebSession -----------------------------
(***************************************************************************)
(* The session of the web frontend: a signed cookie that keeps the tokens  *)
(* of an account, its id, and a copy of its username.  A loader or an      *)
(* action of a route sees the cookie that came with its request, calls the *)
(* API once, and may answer with a new cookie, which replaces the one of   *)
(* the browser when it arrives, whatever has become of that meanwhile.     *)
(* The API reads an account in one statement and writes it in another.     *)
(***************************************************************************)
EXTENDS Naturals

CONSTANTS Ids, Names,
          Browsers,
          Slots,       \* the requests that can be under way at once
          MaxRequests, \* bound: requests in all
          NoHeader, None

VARIABLES name,   \* the API: the username of each account, or None
          known,  \* history: the accounts there were, and the usernames that
                  \* the API said they had
          cookie, \* the session of each browser, or None
          unsure, \* its copy may be out of date, see CookieTellsTruth
          req, served

vars == <<name, known, cookie, unsure, req, served>>

(* The tokens are those of one account. *)
Sessions == [token : Ids, id : Ids, name : Names]

ASSUME NoneIsNothing ==
  /\ None \notin Browsers \cup Names \cup Sessions \cup {NoHeader}
  /\ NoHeader \notin Sessions

(* "session" is the cookie of the request, "sets" that of the answer:      *)
(* a session, None to remove it, or NoHeader if there is no Set-Cookie.    *)
(* "id" and "was" are the account the API has read, and its username then. *)
Idle == [op |-> "none", browser |-> None, session |-> None, name |-> None,
         at |-> "idle", id |-> None, was |-> None, sets |-> NoHeader]

Operations == {"login", "register", "logout", "username", "settings", "delete"}
NeedsAuth == {"username", "settings", "delete"}

Requests == [op : Operations \cup {"none"}, browser : Browsers \cup {None},
             session : Sessions \cup {None}, name : Names \cup {None},
             at : {"idle", "sent", "found", "answered"},
             id : Ids \cup {None}, was : Names \cup {None},
             sets : Sessions \cup {None, NoHeader}]

Exists(i) == name[i] # None
Taken(n) == \E i \in Ids : name[i] = n
Busy(b) == \E s \in Slots : req[s].browser = b
BusyBeside(s) == \E r \in Slots \ {s} : req[r].browser = req[s].browser

Answer(s, sets) == req' = [req EXCEPT ![s].at = "answered", ![s].sets = sets]

-----------------------------------------------------------------------------

Init ==
  /\ name \in [Ids -> Names \cup {None}]
  /\ \A i, j \in Ids : i # j /\ Exists(i) => name[i] # name[j]
  /\ known = {<<i, name[i]>> : i \in {j \in Ids : Exists(j)}}
  /\ cookie = [b \in Browsers |-> None]
  /\ unsure = [b \in Browsers |-> FALSE]
  /\ req = [s \in Slots |-> Idle]
  /\ served = 0

(* Several tabs of a browser send requests.  Without a session requireAuth *)
(* redirects to the login page.                                            *)
Send(s, b) ==
  /\ req[s].at = "idle"
  /\ served < MaxRequests
  /\ \E op \in Operations :
     \E n \in IF op \in {"login", "register", "username"} THEN Names ELSE {None} :
       /\ op \in NeedsAuth => cookie[b] # None
       /\ req' = [req EXCEPT ![s] = [Idle EXCEPT !.op = op, !.browser = b, !.name = n,
                                                 !.session = cookie[b], !.at = "sent"]]
  /\ served' = served + 1
  /\ unsure' = [unsure EXCEPT ![b] = @ \/ Busy(b)]
  /\ UNCHANGED <<name, known, cookie>>

(* The browser keeps its session and takes the name over. *)
ReceiveMerges(s) ==
  LET b == req[s].browser
      new == req[s].sets
  IN
  /\ req[s].at = "answered"
  /\ cookie' = [cookie EXCEPT ![b] =
       IF new \in Sessions /\ @ # None THEN [@ EXCEPT !.name = new.name]
       ELSE IF new = NoHeader THEN @ ELSE new]
  /\ req' = [req EXCEPT ![s] = Idle]
  /\ UNCHANGED <<name, known, unsure, served>>

(* The answer arrives and its cookie replaces the browser's. *)
Receive(s) ==
  LET b == req[s].browser
      new == req[s].sets
  IN
  /\ req[s].at = "answered"
  /\ cookie' = [cookie EXCEPT ![b] = IF new = NoHeader THEN @ ELSE new]
  /\ req' = [req EXCEPT ![s] = Idle]
  /\ UNCHANGED <<name, known, unsure, served>>

(* The answer is lost: the tab navigates on, or the connection breaks. *)
Lose(s) ==
  /\ req[s].at = "answered"
  /\ unsure' = [unsure EXCEPT ![req[s].browser] = TRUE]
  /\ req' = [req EXCEPT ![s] = Idle]
  /\ UNCHANGED <<name, known, cookie, served>>

(* maxAge, 21 days *)
CookieExpires(b) ==
  /\ cookie' = [cookie EXCEPT ![b] = None]
  /\ UNCHANGED <<name, known, unsure, req, served>>

-----------------------------------------------------------------------------

Called(s, op) == req[s].op = op /\ req[s].at = "sent"

(* The API refuses, for an invalid form, an expired token or a taken name, *)
(* or breaks off: the route returns an error and sets no cookie.  So it    *)
(* does without an error for pages and settings that write no account row. *)
Refused(s) ==
  /\ req[s].op # "logout" /\ req[s].at \in {"sent", "found"}
  /\ Answer(s, NoHeader)
  /\ UNCHANGED <<name, known, unsure>>

(* createAuthSession: a session from nothing but the payload. *)
CreateAuthSession(s, i, n) ==
  /\ Answer(s, [token |-> i, id |-> i, name |-> n])
  /\ unsure' = [unsure EXCEPT ![req[s].browser] = BusyBeside(s)]

Login(s) ==
  /\ Called(s, "login")
  /\ \E i \in Ids : name[i] = req[s].name /\ CreateAuthSession(s, i, req[s].name)
  /\ UNCHANGED <<name, known>>

Register(s) ==
  /\ Called(s, "register")
  /\ ~Taken(req[s].name)
  /\ \E i \in Ids :
       /\ \A n \in Names : <<i, n>> \notin known
       /\ name' = [name EXCEPT ![i] = req[s].name]
       /\ known' = known \cup {<<i, req[s].name>>}
       /\ CreateAuthSession(s, i, req[s].name)

(* destroySession *)
Logout(s) ==
  /\ Called(s, "logout")
  /\ Answer(s, None)
  /\ unsure' = [unsure EXCEPT ![req[s].browser] = BusyBeside(s)]
  /\ UNCHANGED <<name, known>>

(* The API changes the name of an account or removes it: every other       *)
(* browser that uses it does not hear of it, and neither does this one if  *)
(* the answer of the API is lost.                                          *)
Unheard(s, i, heard) ==
  [b \in Browsers |->
     unsure[b] \/ (IF b = req[s].browser
                   THEN ~heard
                   ELSE Busy(b) \/ (cookie[b] # None /\ cookie[b].id = i))]

(* The handler reads the account: the token's, or, when an e-mail address  *)
(* is confirmed, the one that the confirmation token names.                *)
FindsUser(s) ==
  /\ req[s].at = "sent" /\ req[s].op \in NeedsAuth
  /\ \E i \in IF req[s].op = "settings" THEN Ids ELSE {req[s].session.token} :
       /\ Exists(i)
       /\ req' = [req EXCEPT ![s].at = "found", ![s].id = i, ![s].was = name[i]]
  /\ UNCHANGED <<name, known, unsure>>

Found(s, op) == req[s].op = op /\ req[s].at = "found"

(* DapperUserStore.UpdateAsync writes the whole row, username included.    *)
(* The unique column guards a row that is still there, and the handler     *)
(* does not learn that none is.                                            *)
UpdateAsync(i, n) ==
  /\ Exists(i) => \A j \in Ids \ {i} : name[j] # n
  /\ name' = [name EXCEPT ![i] = IF @ = None THEN None ELSE n]
  /\ known' = known \cup {<<i, n>>}

(* The action of the account page, intent "username", without the commit   *)
(* of the session.                                                         *)
UpdateUsernameKeepsCookie(s) ==
  /\ Found(s, "username")
  /\ UpdateAsync(req[s].id, req[s].name)
  /\ unsure' = Unheard(s, req[s].id, TRUE)
  /\ Answer(s, NoHeader)

(* The action of the account page, intent "username": the session of the   *)
(* request with the new name.                                              *)
UpdateUsername(s) ==
  /\ Found(s, "username")
  /\ UpdateAsync(req[s].id, req[s].name)
  /\ \E heard \in BOOLEAN :
       /\ unsure' = Unheard(s, req[s].id, heard)
       /\ Answer(s, IF heard THEN [req[s].session EXCEPT !.name = req[s].name] ELSE NoHeader)

(* Intent "delete": the session goes with the account. *)
DeleteAccount(s) ==
  /\ Found(s, "delete")
  /\ name' = [name EXCEPT ![req[s].id] = None]
  /\ \E heard \in BOOLEAN :
       /\ unsure' = Unheard(s, req[s].id, heard)
       /\ Answer(s, IF heard THEN None ELSE NoHeader)
  /\ UNCHANGED known

(* E-mail, profile, password and confirmation: the row is written with the *)
(* username that was read, which undoes a rename in between.               *)
OtherSettings(s) ==
  /\ Found(s, "settings")
  /\ UpdateAsync(req[s].id, req[s].was)
  /\ unsure' = IF name' = name THEN unsure ELSE Unheard(s, req[s].id, TRUE)
  /\ Answer(s, NoHeader)

-----------------------------------------------------------------------------

RouteStep(s) ==
  /\ \/ Login(s) \/ Register(s) \/ Logout(s) \/ FindsUser(s) \/ UpdateUsername(s)
     \/ DeleteAccount(s) \/ OtherSettings(s) \/ Refused(s)
  /\ UNCHANGED <<cookie, served>>

Next ==
  \/ \E s \in Slots : RouteStep(s) \/ Receive(s) \/ Lose(s)
  \/ \E s \in Slots, b \in Browsers : Send(s, b)
  \/ \E b \in Browsers : CookieExpires(b)

Spec == Init /\ [][Next]_vars
-----------------------------------------------------------------------------

RequestOK(r) ==
  /\ r.browser = None <=> r.at = "idle"
  /\ r.at \in {"sent", "found"} /\ r.op \in {"login", "register", "username"} => r.name \in Names
  /\ r.at \in {"sent", "found"} /\ r.op \in NeedsAuth => r.session # None
  /\ r.at = "found" => r.op \in NeedsAuth /\ r.id \in Ids /\ r.was \in Names
  /\ r.at = "found" /\ r.op # "settings" => r.id = r.session.token

(* The type invariant. *)
WebSessionTypeOK ==
  /\ name \in [Ids -> Names \cup {None}]
  /\ known \subseteq Ids \X Names
  /\ cookie \in [Browsers -> Sessions \cup {None}]
  /\ unsure \in [Browsers -> BOOLEAN]
  /\ req \in [Slots -> Requests]
  /\ \A s \in Slots : RequestOK(req[s])

(* However requests, logins and logouts of several tabs overtake each      *)
(* other, a browser never holds the tokens of one account with the id of   *)
(* another, or with a name that the API never said was that account's.     *)
CookieCoherent ==
  \A b \in Browsers :
    cookie[b] # None =>
      /\ cookie[b].token = cookie[b].id
      /\ <<cookie[b].id, cookie[b].name>> \in known

(* The pages show the name of the cookie without asking the API.  It is    *)
(* the account's, and the account is there, once no request of the browser *)
(* is under way, unless another browser renamed or removed the account or  *)
(* wrote its old name back, an answer was lost, or two requests of the     *)
(* browser overlapped since its last login.  (Overlapping renames do leave *)
(* the name of the answer that arrived last, a late rename brings back a   *)
(* session that logged out, and a settings request that overlaps a rename  *)
(* restores the old name behind the cookie of the browser that renamed.)   *)
CookieTellsTruth ==
  \A b \in Browsers :
    ~unsure[b] /\ ~Busy(b) /\ cookie[b] # None => name[cookie[b].id] = cookie[b].name
=============================================================================
