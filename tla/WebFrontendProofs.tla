------------------------- MODULE WebFrontendProofs -------------------------
(***************************************************************************)
(* Theorems about the web frontend: the session cookie, for any accounts,  *)
(* names and browsers and any number of requests at once, and the brewery  *)
(* directory, for any size of a page and any number of breweries.          *)
(***************************************************************************)
EXTENDS WebSession, BreweryDirectory, FiniteSetTheorems, WellFoundedInduction, TLAPS

(* The session. *)

(* A session is of one account, by a name the account has had. *)
Coherent(c, pairs) == c \in Sessions => c.token = c.id /\ <<c.id, c.name>> \in pairs

AllCoherent ==
  /\ \A i \in Ids : Exists(i) => <<i, name[i]>> \in known
  /\ \A b \in Browsers : Coherent(cookie[b], known)
  /\ \A s \in Slots : Coherent(req[s].session, known) /\ Coherent(req[s].sets, known)
  /\ \A s \in Slots : req[s].at = "found" => <<req[s].id, req[s].was>> \in known

(* It shows the name the account has. *)
True(c, names) == c \in Sessions => names[c.id] = c.name

(* What the API has read of an account for a request is still so. *)
Reads(r, names) == r.at = "found" => names[r.id] = r.was

Answered(b) == {s \in Slots : req[s].browser = b /\ req[s].at = "answered"}

(* A browser that is not unsure has at most one request under way.  Its    *)
(* session is true, or the answer brings one that is, and the API has read *)
(* the name that the account still has.                                    *)
Sure(b) ==
  ~unsure[b] =>
    /\ \A r, s \in Slots : req[r].browser = b /\ req[s].browser = b => r = s
    /\ \A s \in Answered(b) : True(req[s].sets, name)
    /\ (\A s \in Answered(b) : req[s].sets = NoHeader) => True(cookie[b], name)
    /\ \A s \in Slots : req[s].browser = b => Reads(req[s], name)

IInv ==
  /\ WebSessionTypeOK
  /\ AllCoherent
  /\ \A b \in Browsers : Sure(b)

-----------------------------------------------------------------------------

LEMMA Typed ==
  ASSUME IInv
  PROVE  /\ name \in [Ids -> Names \cup {None}]
         /\ known \subseteq Ids \X Names
         /\ cookie \in [Browsers -> Sessions \cup {None}]
         /\ unsure \in [Browsers -> BOOLEAN]
         /\ req \in [Slots -> Requests]
         /\ \A i \in Ids : Exists(i) => <<i, name[i]>> \in known
  BY DEF IInv, WebSessionTypeOK, AllCoherent

LEMMA Request ==
  ASSUME IInv, NEW s \in Slots
  PROVE  /\ req[s] \in Requests /\ RequestOK(req[s])
         /\ Coherent(req[s].session, known) /\ Coherent(req[s].sets, known)
         /\ req[s].at = "found" => <<req[s].id, req[s].was>> \in known
         /\ req[s].session \in Sessions \cup {None}
         /\ req[s].sets \in Sessions \cup {None, NoHeader}
         /\ req[s].at # "idle" => req[s].browser \in Browsers
         /\ req[s].browser \in Browsers => req[s].at # "idle"
  <1>1. req[s] \in Requests /\ RequestOK(req[s])
    BY DEF IInv, WebSessionTypeOK
  <1>2. /\ Coherent(req[s].session, known) /\ Coherent(req[s].sets, known)
        /\ req[s].at = "found" => <<req[s].id, req[s].was>> \in known
    BY DEF IInv, AllCoherent
  <1> QED
    BY <1>1, <1>2, NoneIsNothing DEF Requests, RequestOK

(* A step gives one request a new state; sessions stay coherent as long as *)
(* nothing that is known is forgotten.                                     *)
LEMMA TypesStay ==
  ASSUME IInv, NEW s \in Slots, NEW r \in Requests, RequestOK(r),
         req' = [req EXCEPT ![s] = r],
         name' \in [Ids -> Names \cup {None}], known' \subseteq Ids \X Names,
         cookie' \in [Browsers -> Sessions \cup {None}], unsure' \in [Browsers -> BOOLEAN]
  PROVE  WebSessionTypeOK'
  <1>1. req' \in [Slots -> Requests] /\ \A q \in Slots : RequestOK(req'[q])
    BY Typed, Request
  <1> QED
    BY <1>1 DEF WebSessionTypeOK

LEMMA CoherenceStays ==
  ASSUME IInv, NEW s \in Slots, NEW r \in Requests, req' = [req EXCEPT ![s] = r],
         known \subseteq known',
         \A i \in Ids : name'[i] # None => <<i, name'[i]>> \in known',
         Coherent(r.session, known'), Coherent(r.sets, known'),
         r.at = "found" => <<r.id, r.was>> \in known',
         \A b \in Browsers : cookie'[b] \in Sessions =>
           cookie'[b] = cookie[b] \/ cookie'[b] = req[s].sets
  PROVE  AllCoherent'
  <1>1. \A b \in Browsers : Coherent(cookie'[b], known')
    BY Request DEF IInv, AllCoherent, Coherent
  <1>2. ASSUME NEW q \in Slots
        PROVE  /\ Coherent(req'[q].session, known') /\ Coherent(req'[q].sets, known')
               /\ req'[q].at = "found" => <<req'[q].id, req'[q].was>> \in known'
    <2>1. CASE q = s
      BY <2>1, Typed
    <2>2. CASE q # s
      <3>1. req'[q] = req[q]
        BY <2>2, Typed
      <3> QED
        BY <3>1, Request DEF Coherent
    <2> QED
      BY <2>1, <2>2
  <1> QED
    BY <1>1, <1>2 DEF AllCoherent, Exists

-----------------------------------------------------------------------------
(* What becomes of a browser.                                              *)

(* A browser that the step does not concern. *)
LEMMA SureStays ==
  ASSUME IInv, NEW b \in Browsers, NEW s \in Slots, NEW r \in Requests,
         req' = [req EXCEPT ![s] = r], req[s].browser # b, r.browser # b,
         unsure[b] => unsure'[b], cookie'[b] = cookie[b],
         ~unsure'[b] => /\ True(cookie[b], name) => True(cookie[b], name')
                        /\ \A q \in Answered(b) : True(req[q].sets, name) => True(req[q].sets, name')
                        /\ \A q \in Slots : req[q].browser = b /\ Reads(req[q], name)
                             => Reads(req[q], name')
  PROVE  Sure(b)'
  <1> SUFFICES ASSUME ~unsure'[b]
               PROVE  /\ \A q, s2 \in Slots : req'[q].browser = b /\ req'[s2].browser = b => q = s2
                      /\ \A q \in Answered(b)' : True(req'[q].sets, name')
                      /\ (\A q \in Answered(b)' : req'[q].sets = NoHeader)
                           => True(cookie'[b], name')
                      /\ \A q \in Slots : req'[q].browser = b => Reads(req'[q], name')
    BY DEF Sure
  <1>1. Sure(b) /\ ~unsure[b]
    BY DEF IInv
  <1>2. req'[s] = r /\ \A q \in Slots \ {s} : req'[q] = req[q]
    BY Typed
  <1>3. Answered(b)' = Answered(b) /\ \A q \in Answered(b) : req'[q] = req[q]
    BY <1>2 DEF Answered
  <1> QED
    BY <1>1, <1>2, <1>3 DEF Sure

(* The browser whose only request is answered. *)
LEMMA SureAnswered ==
  ASSUME IInv, NEW s \in Slots, NEW r \in Requests, req' = [req EXCEPT ![s] = r],
         NEW b \in Browsers, b = req[s].browser, r.browser = b, r.at = "answered",
         ~unsure'[b] => ~BusyBeside(s),
         ~unsure'[b] => True(r.sets, name'),
         ~unsure'[b] /\ r.sets = NoHeader => True(cookie[b], name'),
         cookie'[b] = cookie[b]
  PROVE  Sure(b)'
  <1> SUFFICES ASSUME ~unsure'[b]
               PROVE  /\ \A q, s2 \in Slots : req'[q].browser = b /\ req'[s2].browser = b => q = s2
                      /\ \A q \in Answered(b)' : True(req'[q].sets, name')
                      /\ (\A q \in Answered(b)' : req'[q].sets = NoHeader)
                           => True(cookie'[b], name')
                      /\ \A q \in Slots : req'[q].browser = b => Reads(req'[q], name')
    BY DEF Sure
  <1>1. req'[s] = r /\ \A q \in Slots \ {s} : req'[q] = req[q]
    BY Typed
  <1>2. \A q \in Slots : req'[q].browser = b => q = s
    BY <1>1 DEF BusyBeside
  <1>3. Answered(b)' = {s}
    BY <1>1, <1>2 DEF Answered
  <1>4. Reads(req'[s], name')
    BY <1>1 DEF Reads
  <1> QED
    BY <1>1, <1>2, <1>3, <1>4

(* A sure browser has no other request. *)
LEMMA Alone ==
  ASSUME IInv, NEW s \in Slots, req[s].browser \in Browsers, ~unsure[req[s].browser]
  PROVE  ~BusyBeside(s)
  BY DEF IInv, Sure, BusyBeside

(* Its session is true while its request is not answered. *)
LEMMA TrueWhileSent ==
  ASSUME IInv, NEW s \in Slots, req[s].browser \in Browsers, ~unsure[req[s].browser],
         req[s].at \in {"sent", "found"}
  PROVE  True(cookie[req[s].browser], name)
  <1>1. Answered(req[s].browser) = {}
    BY DEF IInv, Sure, Answered
  <1> QED
    BY <1>1 DEF IInv, Sure

(* And while it has none. *)
LEMMA TrueWhileIdle ==
  ASSUME IInv, NEW b \in Browsers, ~unsure[b], ~Busy(b)
  PROVE  True(cookie[b], name)
  BY DEF IInv, Sure, Answered, Busy

-----------------------------------------------------------------------------
(* The steps of the browser.                                               *)

LEMMA IdleTyped == Idle \in Requests /\ RequestOK(Idle) /\ Idle.browser = None
                   /\ Idle.session = None /\ Idle.sets = NoHeader /\ Idle.at = "idle"
  BY DEF Idle, Requests, RequestOK, NeedsAuth

LEMMA SendIsSound ==
  ASSUME IInv, NEW s \in Slots, NEW b \in Browsers, Send(s, b)
  PROVE  IInv'
  <1>1. PICK op \in Operations, n \in Names \cup {None} :
          /\ op \in NeedsAuth => cookie[b] # None
          /\ op \in {"login", "register", "username"} => n \in Names
          /\ req' = [req EXCEPT ![s] = [Idle EXCEPT !.op = op, !.browser = b, !.name = n,
                                                    !.session = cookie[b], !.at = "sent"]]
    BY DEF Send
  <1> DEFINE r == [Idle EXCEPT !.op = op, !.browser = b, !.name = n,
                               !.session = cookie[b], !.at = "sent"]
  <1>2. /\ r.op = op /\ r.browser = b /\ r.name = n /\ r.session = cookie[b]
        /\ r.at = "sent" /\ r.sets = NoHeader
    BY DEF Idle
  <1>3. r \in Requests
    BY Typed DEF Idle, Requests
  <1> HIDE DEF r
  <1>4. RequestOK(r)
    BY <1>1, <1>2, NoneIsNothing DEF RequestOK
  <1>5. /\ UNCHANGED <<name, known, cookie>> /\ unsure' = [unsure EXCEPT ![b] = @ \/ Busy(b)]
        /\ req[s].at = "idle" /\ req' = [req EXCEPT ![s] = r]
    BY <1>1 DEF Send, r
  <1>6. WebSessionTypeOK'
    BY <1>3, <1>4, <1>5, Typed, TypesStay
  <1>7. AllCoherent'
    <2>1. Coherent(cookie[b], known') /\ Coherent(NoHeader, known')
      BY <1>5, NoneIsNothing DEF IInv, AllCoherent, Coherent
    <2> QED
      BY <1>2, <1>3, <1>5, <2>1, Typed, CoherenceStays DEF Exists
  <1>8. ASSUME NEW c \in Browsers PROVE Sure(c)'
    <2>1. req[s].browser \notin Browsers
      BY <1>5, Request, NoneIsNothing
    <2>2. CASE c # b
      BY <1>2, <1>3, <1>5, <2>1, <2>2, Typed, SureStays
    <2>3. CASE c = b
      <3> SUFFICES ASSUME ~unsure'[b] PROVE Sure(b)'
        BY <2>3 DEF Sure
      <3>1. ~unsure[b] /\ ~Busy(b)
        BY <1>5, Typed
      <3>2. True(cookie'[b], name')
        BY <1>5, <3>1, TrueWhileIdle
      <3>3. \A q \in Slots : req'[q].browser = b => q = s
        BY <1>5, <3>1, Typed DEF Busy
      <3>4. Answered(b)' = {}
        BY <1>2, <1>5, <3>3, Typed DEF Answered
      <3>5. Reads(req'[s], name')
        BY <1>2, <1>5, Typed DEF Reads
      <3> QED
        BY <3>2, <3>3, <3>4, <3>5 DEF Sure
    <2> QED
      BY <2>2, <2>3
  <1> QED
    BY <1>6, <1>7, <1>8 DEF IInv

LEMMA DoneIsSound ==
  ASSUME IInv, NEW s \in Slots, req[s].at = "answered", req' = [req EXCEPT ![s] = Idle],
         NEW b, b = req[s].browser, UNCHANGED <<name, known>>,
         cookie' = [cookie EXCEPT ![b] =
           IF req[s].sets = NoHeader THEN @ ELSE req[s].sets] \/ UNCHANGED cookie,
         unsure' = [unsure EXCEPT ![b] = TRUE] \/ UNCHANGED unsure,
         unsure' = [unsure EXCEPT ![b] = TRUE] \/
           cookie' = [cookie EXCEPT ![b] = IF req[s].sets = NoHeader THEN @ ELSE req[s].sets]
  PROVE  IInv'
  <1>1. /\ b \in Browsers /\ req[s].sets \in Sessions \cup {None, NoHeader}
        /\ Coherent(req[s].sets, known)
    BY Request
  <1>2. cookie' \in [Browsers -> Sessions \cup {None}] /\ unsure' \in [Browsers -> BOOLEAN]
    <2>1. cookie \in [Browsers -> Sessions \cup {None}] /\ unsure \in [Browsers -> BOOLEAN]
      BY Typed
    <2>2. unsure' \in [Browsers -> BOOLEAN]
      BY <2>1
    <2>3. cookie' \in [Browsers -> Sessions \cup {None}]
      BY <1>1, <2>1
    <2> QED
      BY <2>2, <2>3
  <1>3. WebSessionTypeOK'
    BY <1>2, Typed, IdleTyped, TypesStay
  <1>4. AllCoherent'
    <2>1. Coherent(None, known') /\ Coherent(NoHeader, known')
      BY NoneIsNothing DEF Coherent
    <2>2. \A i \in Ids : name'[i] # None => <<i, name'[i]>> \in known'
      BY Typed DEF Exists
    <2>3. \A c \in Browsers : cookie'[c] \in Sessions =>
            cookie'[c] = cookie[c] \/ cookie'[c] = req[s].sets
      BY <1>1, Typed
    <2> QED
      BY <2>1, <2>2, <2>3, IdleTyped, CoherenceStays
  <1>5. ASSUME NEW c \in Browsers PROVE Sure(c)'
    <2>1. CASE c # b
      <3>1. cookie'[c] = cookie[c] /\ unsure'[c] = unsure[c]
        BY <1>1, <2>1, Typed
      <3> QED
        BY <2>1, <3>1, IdleTyped, NoneIsNothing, SureStays
    <2>2. CASE c = b
      <3> SUFFICES ASSUME ~unsure'[b] PROVE Sure(b)'
        BY <2>2 DEF Sure
      <3>1. /\ ~unsure[b]
            /\ cookie'[b] = IF req[s].sets = NoHeader THEN cookie[b] ELSE req[s].sets
        BY <1>1, Typed
      <3>2. Answered(b) = {s} /\ \A q \in Slots : req[q].browser = b => q = s
        BY <1>1, <3>1 DEF IInv, Sure, Answered
      <3>3. True(cookie'[b], name')
        BY <1>1, <3>1, <3>2 DEF IInv, Sure
      <3>4. \A q \in Slots : req'[q].browser # b
        BY <1>1, <3>2, Typed, IdleTyped, NoneIsNothing
      <3> QED
        BY <3>3, <3>4 DEF Sure, Answered
    <2> QED
      BY <2>1, <2>2
  <1> QED
    BY <1>3, <1>4, <1>5 DEF IInv

LEMMA ExpiryIsSound ==
  ASSUME IInv, NEW b \in Browsers, CookieExpires(b)
  PROVE  IInv'
  <1>1. cookie' = [cookie EXCEPT ![b] = None] /\ UNCHANGED <<name, known, unsure, req>>
    BY DEF CookieExpires
  <1>2. WebSessionTypeOK'
    BY <1>1 DEF IInv, WebSessionTypeOK
  <1>3. \A c \in Browsers : cookie'[c] = cookie[c] \/ cookie'[c] = None
    BY <1>1, Typed
  <1>4. AllCoherent'
    BY <1>1, <1>3, NoneIsNothing DEF IInv, AllCoherent, Coherent, Exists
  <1>5. ASSUME NEW c \in Browsers PROVE Sure(c)'
    <2>1. Sure(c)
      BY DEF IInv
    <2>2. Answered(c)' = Answered(c)
      BY <1>1 DEF Answered
    <2>3. True(cookie[c], name) => True(cookie'[c], name')
      BY <1>1, <1>3, NoneIsNothing DEF True
    <2> QED
      BY <1>1, <2>1, <2>2, <2>3 DEF Sure
  <1> QED
    BY <1>2, <1>4, <1>5 DEF IInv

-----------------------------------------------------------------------------
(* The steps of the routes.                                                *)

(* What has to be shown of a route that answers with this cookie. *)
LEMMA RouteIsSound ==
  ASSUME IInv, NEW s \in Slots, req[s].at \in {"sent", "found"}, UNCHANGED cookie,
         NEW sets \in Sessions \cup {None, NoHeader}, Answer(s, sets),
         Coherent(sets, known'),
         name' \in [Ids -> Names \cup {None}], known \subseteq known', known' \subseteq Ids \X Names,
         \A i \in Ids : name'[i] # None => <<i, name'[i]>> \in known',
         unsure' \in [Browsers -> BOOLEAN],
         NEW own, own = req[s].browser,
         ~unsure'[own] => ~BusyBeside(s),
         ~unsure'[own] => True(sets, name'),
         ~unsure'[own] /\ sets = NoHeader => True(cookie[own], name'),
         \A b \in Browsers \ {own} : unsure[b] => unsure'[b],
         \A b \in Browsers \ {own} : ~unsure'[b] =>
           /\ True(cookie[b], name) => True(cookie[b], name')
           /\ \A q \in Answered(b) : True(req[q].sets, name) => True(req[q].sets, name')
           /\ \A q \in Slots : req[q].browser = b /\ Reads(req[q], name) => Reads(req[q], name')
  PROVE  IInv'
  <1> DEFINE r == [req[s] EXCEPT !.at = "answered", !.sets = sets]
  <1>1. req' = [req EXCEPT ![s] = r]
    BY Request DEF Answer, Requests
  <1>2. /\ r \in Requests /\ r.sets = sets /\ r.at = "answered" /\ r.session = req[s].session
        /\ r.browser = req[s].browser
    BY Request DEF Requests
  <1>3. RequestOK(r)
    BY <1>2, Request DEF RequestOK
  <1> HIDE DEF r
  <1>4. own \in Browsers
    BY Request
  <1>5. WebSessionTypeOK'
    BY <1>1, <1>2, <1>3, Typed, TypesStay
  <1>6. AllCoherent'
    <2>1. Coherent(r.session, known')
      BY <1>2, Request DEF Coherent
    <2> QED
      BY <1>1, <1>2, <2>1, CoherenceStays
  <1>7. ASSUME NEW b \in Browsers PROVE Sure(b)'
    <2>1. CASE b = own
      BY <1>1, <1>2, <2>1, SureAnswered
    <2>2. CASE b # own
      BY <1>1, <1>2, <2>2, SureStays
    <2> QED
      BY <2>1, <2>2
  <1> QED
    BY <1>5, <1>6, <1>7 DEF IInv

(* An answer without a cookie, and no account has changed. *)
LEMMA QuietIsSound ==
  ASSUME IInv, NEW s \in Slots, req[s].at \in {"sent", "found"},
         UNCHANGED <<name, known, unsure, cookie>>,
         Answer(s, NoHeader)
  PROVE  IInv'
  <1> DEFINE own == req[s].browser
  <1>1. own \in Browsers /\ Coherent(NoHeader, known') /\ True(NoHeader, name')
    BY Request, NoneIsNothing DEF Coherent, True
  <1>2. ~unsure[own] => ~BusyBeside(s) /\ True(cookie[own], name)
    BY <1>1, Alone, TrueWhileSent
  <1>3. \A i \in Ids : name'[i] # None => <<i, name'[i]>> \in known'
    BY Typed DEF Exists
  <1> HIDE DEF own
  <1>4. /\ ~unsure'[own] => ~BusyBeside(s)
        /\ ~unsure'[own] => True(NoHeader, name')
        /\ ~unsure'[own] => True(cookie[own], name')
        /\ \A b \in Browsers \ {own} : unsure[b] => unsure'[b]
        /\ \A b \in Browsers \ {own} : ~unsure'[b] =>
             /\ True(cookie[b], name) => True(cookie[b], name')
             /\ \A q \in Answered(b) : True(req[q].sets, name) => True(req[q].sets, name')
             /\ \A q \in Slots : req[q].browser = b /\ Reads(req[q], name) => Reads(req[q], name')
    BY <1>1, <1>2
  <1> QED
    BY <1>1, <1>3, <1>4, Typed, RouteIsSound DEF own

(* A login or a logout: the session begins or ends, the accounts stay. *)
LEMMA SessionIsSound ==
  ASSUME IInv, NEW s \in Slots, req[s].at = "sent", UNCHANGED <<name, known, cookie>>,
         NEW sets \in Sessions \cup {None}, Coherent(sets, known), True(sets, name),
         Answer(s, sets), unsure' = [unsure EXCEPT ![req[s].browser] = BusyBeside(s)]
  PROVE  IInv'
  <1> DEFINE own == req[s].browser
  <1>1. own \in Browsers
    BY Request
  <1>2. unsure'[own] = BusyBeside(s) /\ unsure' \in [Browsers -> BOOLEAN]
    BY <1>1, Typed DEF BusyBeside
  <1>3. \A b \in Browsers \ {own} : unsure'[b] = unsure[b]
    BY Typed
  <1>4. \A i \in Ids : name'[i] # None => <<i, name'[i]>> \in known'
    BY Typed DEF Exists
  <1>5. sets # NoHeader
    BY NoneIsNothing
  <1> HIDE DEF own
  <1>6. \A b \in Browsers \ {own} : ~unsure'[b] =>
             /\ True(cookie[b], name) => True(cookie[b], name')
             /\ \A q \in Answered(b) : True(req[q].sets, name) => True(req[q].sets, name')
             /\ \A q \in Slots : req[q].browser = b /\ Reads(req[q], name) => Reads(req[q], name')
    OBVIOUS
  <1>7. Coherent(sets, known') /\ True(sets, name')
    OBVIOUS
  <1> QED
    BY <1>1, <1>2, <1>3, <1>4, <1>5, <1>6, <1>7, Typed, RouteIsSound DEF own

(* What is true of other accounts stays true. *)
LEMMA OthersStayTrue ==
  ASSUME IInv, NEW i \in Ids, NEW n \in Names \cup {None}, name' = [name EXCEPT ![i] = n],
         NEW c, c \in Sessions => c.id # i, True(c, name)
  PROVE  True(c, name')
  BY Typed DEF True, Sessions

(* An account that never was is in no session. *)
LEMMA FreshUnheardOf ==
  ASSUME IInv, NEW i \in Ids, \A n \in Names : <<i, n>> \notin known,
         NEW c \in Sessions, Coherent(c, known)
  PROVE  c.id # i
  BY DEF Coherent, Sessions

LEMMA RegisterIsSound ==
  ASSUME IInv, NEW s \in Slots, Register(s), UNCHANGED cookie
  PROVE  IInv'
  <1> DEFINE own == req[s].browser
             n == req[s].name
  <1>1. PICK i \in Ids :
          /\ \A m \in Names : <<i, m>> \notin known
          /\ name' = [name EXCEPT ![i] = n]
          /\ known' = known \cup {<<i, n>>}
          /\ CreateAuthSession(s, i, n)
    BY DEF Register
  <1> DEFINE c == [token |-> i, id |-> i, name |-> n]
  <1>2. req[s].at = "sent" /\ own \in Browsers /\ n \in Names
    BY Request DEF Register, Called, RequestOK
  <1>3. c \in Sessions /\ Coherent(c, known') /\ True(c, name') /\ c # NoHeader
    BY <1>1, <1>2, Typed, NoneIsNothing DEF Sessions, Coherent, True
  <1>4. Answer(s, c) /\ unsure' = [unsure EXCEPT ![own] = BusyBeside(s)]
    BY <1>1 DEF CreateAuthSession
  <1>5. /\ unsure' \in [Browsers -> BOOLEAN]
        /\ ~unsure'[own] => ~BusyBeside(s)
        /\ \A b \in Browsers \ {own} : unsure'[b] = unsure[b]
    BY <1>2, <1>4, Typed DEF BusyBeside
  <1>6. name' \in [Ids -> Names \cup {None}] /\ known' \subseteq Ids \X Names
    BY <1>1, <1>2, Typed
  <1>7. \A j \in Ids : name'[j] # None => <<j, name'[j]>> \in known'
    BY <1>1, <1>2, Typed DEF Exists
  <1> HIDE DEF c, n
  <1>8. ASSUME NEW b \in Browsers
        PROVE  /\ True(cookie[b], name) => True(cookie[b], name')
               /\ \A q \in Answered(b) : True(req[q].sets, name) => True(req[q].sets, name')
               /\ \A q \in Slots : req[q].browser = b /\ Reads(req[q], name) => Reads(req[q], name')
    <2>1. Coherent(cookie[b], known)
      BY DEF IInv, AllCoherent
    <2>2. \A q \in Answered(b) : Coherent(req[q].sets, known)
      BY Request DEF Answered
    <2>3. ASSUME NEW q \in Slots, Reads(req[q], name) PROVE Reads(req[q], name')
      <3>1. req[q].at = "found" => req[q].id \in Ids /\ req[q].id # i
        BY <1>1, Request DEF RequestOK
      <3> QED
        BY <1>1, <2>3, <3>1, Typed DEF Reads
    <2> QED
      BY <1>1, <1>2, <2>1, <2>2, <2>3, FreshUnheardOf, OthersStayTrue DEF Coherent
  <1> HIDE DEF own
  <1>9. known \subseteq known'
    BY <1>1
  <1>10. /\ \A b \in Browsers \ {own} : unsure[b] => unsure'[b]
         /\ \A b \in Browsers \ {own} : ~unsure'[b] =>
              /\ True(cookie[b], name) => True(cookie[b], name')
              /\ \A q \in Answered(b) : True(req[q].sets, name) => True(req[q].sets, name')
              /\ \A q \in Slots : req[q].browser = b /\ Reads(req[q], name) => Reads(req[q], name')
    BY <1>5, <1>8
  <1>11. /\ ~unsure'[own] => ~BusyBeside(s)
         /\ ~unsure'[own] => True(c, name')
         /\ ~unsure'[own] /\ c = NoHeader => True(cookie[own], name')
    BY <1>3, <1>5
  <1> QED
    BY <1>2, <1>3, <1>4, <1>5, <1>6, <1>7, <1>9, <1>10, <1>11, RouteIsSound DEF own

(* A rename or a removal: the browsers that cannot know of it are unsure. *)
LEMMA ChangeIsSound ==
  ASSUME IInv, NEW s \in Slots, req[s].at = "found", UNCHANGED cookie,
         NEW i \in Ids, NEW n \in Names \cup {None}, name' = [name EXCEPT ![i] = n],
         known \subseteq known', known' \subseteq Ids \X Names,
         n # None => <<i, n>> \in known',
         NEW heard \in BOOLEAN, unsure' = Unheard(s, i, heard),
         NEW sets \in Sessions \cup {None, NoHeader}, Answer(s, sets), Coherent(sets, known'),
         heard /\ ~unsure[req[s].browser] => sets # NoHeader /\ True(sets, name')
  PROVE  IInv'
  <1> DEFINE own == req[s].browser
  <1>1. own \in Browsers
    BY Request
  <1>2. name' \in [Ids -> Names \cup {None}]
    BY Typed
  <1>3. \A j \in Ids : name'[j] # None => <<j, name'[j]>> \in known'
    BY Typed DEF Exists
  <1>4. unsure' \in [Browsers -> BOOLEAN]
    <2>1. unsure' = [b \in Browsers |->
            unsure[b] \/ (IF b = own THEN ~heard
                          ELSE Busy(b) \/ (cookie[b] # None /\ cookie[b].id = i))]
      BY DEF Unheard
    <2>2. \A b \in Browsers :
            (unsure[b] \/ (IF b = own THEN ~heard
                           ELSE Busy(b) \/ (cookie[b] # None /\ cookie[b].id = i))) \in BOOLEAN
      OBVIOUS
    <2> QED
      BY <2>1, <2>2, Zenon
  <1>5. ~unsure'[own] => ~unsure[own] /\ heard
    BY <1>1 DEF Unheard
  <1>6. \A b \in Browsers \ {own} : unsure[b] => unsure'[b]
    BY DEF Unheard
  <1>7. ~unsure'[own] => ~BusyBeside(s) /\ True(sets, name') /\ sets # NoHeader
    BY <1>1, <1>5, Alone
  <1>8. ASSUME NEW b \in Browsers \ {own}, ~unsure'[b]
        PROVE  /\ True(cookie[b], name) => True(cookie[b], name')
               /\ \A q \in Answered(b) : True(req[q].sets, name) => True(req[q].sets, name')
               /\ \A q \in Slots : req[q].browser = b /\ Reads(req[q], name) => Reads(req[q], name')
    <2>1. ~Busy(b) /\ (cookie[b] \in Sessions => cookie[b].id # i)
      BY <1>8, NoneIsNothing DEF Unheard
    <2>2. Answered(b) = {} /\ \A q \in Slots : req[q].browser # b
      BY <2>1 DEF Busy, Answered
    <2> QED
      BY <2>1, <2>2, OthersStayTrue
  <1> HIDE DEF own
  <1>9. /\ \A b \in Browsers \ {own} : ~unsure'[b] =>
             /\ True(cookie[b], name) => True(cookie[b], name')
             /\ \A q \in Answered(b) : True(req[q].sets, name) => True(req[q].sets, name')
             /\ \A q \in Slots : req[q].browser = b /\ Reads(req[q], name) => Reads(req[q], name')
    BY <1>8
  <1>10. /\ ~unsure'[own] => ~BusyBeside(s)
         /\ ~unsure'[own] => True(sets, name')
         /\ ~unsure'[own] /\ sets = NoHeader => True(cookie[own], name')
    BY <1>7
  <1> QED
    BY <1>1, <1>2, <1>3, <1>4, <1>6, <1>9, <1>10, RouteIsSound DEF own

(* The row that was read for the only request of a sure browser is as read. *)
LEMMA ReadWhenSure ==
  ASSUME IInv, NEW s \in Slots, req[s].at = "found", ~unsure[req[s].browser]
  PROVE  name[req[s].id] = req[s].was
  BY Request DEF IInv, Sure, Reads

LEMMA FoundTyped ==
  ASSUME IInv, NEW s \in Slots, req[s].at = "found"
  PROVE  /\ req[s].id \in Ids /\ req[s].was \in Names /\ req[s].was # None
         /\ req[s].browser \in Browsers
         /\ <<req[s].id, req[s].was>> \in known
         /\ req[s].op # "settings" => req[s].session \in Sessions /\ req[s].id = req[s].session.token
         /\ req[s].op = "username" => req[s].name \in Names
  BY Request, NoneIsNothing DEF RequestOK, NeedsAuth

LEMMA FindsUserIsSound ==
  ASSUME IInv, NEW s \in Slots, FindsUser(s), UNCHANGED cookie
  PROVE  IInv'
  <1>1. PICK i \in Ids :
          /\ req[s].op # "settings" => i = req[s].session.token
          /\ Exists(i)
          /\ req' = [req EXCEPT ![s].at = "found", ![s].id = i, ![s].was = name[i]]
    <2>1. CASE req[s].op = "settings"
      BY <2>1 DEF FindsUser
    <2>2. CASE req[s].op # "settings"
      <3>1. req[s].session \in Sessions
        BY Request DEF FindsUser, RequestOK
      <3> QED
        BY <2>2, <3>1 DEF FindsUser, Sessions
    <2> QED
      BY <2>1, <2>2
  <1> DEFINE r == [req[s] EXCEPT !.at = "found", !.id = i, !.was = name[i]]
  <1>0. PICK own : own = req[s].browser
    OBVIOUS
  <1>2. req' = [req EXCEPT ![s] = r]
    BY <1>1, Typed, Request DEF Requests
  <1>3. /\ r.at = "found" /\ r.id = i /\ r.was = name[i] /\ r.browser = own
        /\ r.session = req[s].session /\ r.sets = req[s].sets /\ r.op = req[s].op
        /\ r.name = req[s].name
    <2>1. r.at = "found" /\ r.id = i /\ r.was = name[i]
      BY Request DEF Requests
    <2>2. r.browser = req[s].browser /\ r.session = req[s].session /\ r.sets = req[s].sets
      OBVIOUS
    <2>3. r.op = req[s].op /\ r.name = req[s].name
      OBVIOUS
    <2> QED
      BY <1>0, <2>1, <2>2, <2>3
  <1>4. /\ req[s].at = "sent" /\ req[s].op \in NeedsAuth /\ UNCHANGED <<name, known, unsure>>
        /\ own \in Browsers /\ name[i] \in Names
    BY <1>0, <1>1, Request, Typed DEF FindsUser, Exists
  <1>5. r \in Requests
    <2>1. req[s] \in Requests
      BY Request
    <2>2. name[i] \in Names /\ i \in Ids
      BY <1>4
    <2> QED
      BY <2>1, <2>2 DEF Requests
  <1> HIDE DEF r
  <1>6. RequestOK(r)
    BY <1>1, <1>3, <1>4, Request, NoneIsNothing DEF RequestOK
  <1>7. WebSessionTypeOK'
    BY <1>2, <1>4, <1>5, <1>6, Typed, TypesStay
  <1>8. AllCoherent'
    <2>1. Coherent(r.session, known') /\ Coherent(r.sets, known')
      BY <1>3, <1>4, Request
    <2>2. <<r.id, r.was>> \in known'
      BY <1>1, <1>3, <1>4, Typed
    <2>3. \A j \in Ids : name'[j] # None => <<j, name'[j]>> \in known'
      BY <1>4, Typed DEF Exists
    <2> QED
      BY <1>2, <1>4, <1>5, <2>1, <2>2, <2>3, CoherenceStays
  <1>9. ASSUME NEW b \in Browsers PROVE Sure(b)'
    <2>1. CASE b = own
      <3> SUFFICES ASSUME ~unsure'[own] PROVE Sure(own)'
        BY <2>1 DEF Sure
      <3>1. True(cookie[own], name)
        BY <1>0, <1>4, TrueWhileSent
      <3>2. \A q \in Slots : req[q].browser = own => q = s
        BY <1>0, <1>4, Alone DEF BusyBeside
      <3>3. req'[s] = r /\ \A q \in Slots \ {s} : req'[q] = req[q]
        BY <1>2, Typed
      <3>4. \A q \in Slots : req'[q].browser = own => q = s
        BY <3>2, <3>3
      <3>5. Answered(own)' = {}
        BY <1>3, <3>3, <3>4 DEF Answered
      <3>6. Reads(r, name') /\ True(cookie'[own], name')
        BY <1>3, <1>4, <3>1 DEF Reads
      <3> QED
        BY <1>4, <3>3, <3>4, <3>5, <3>6 DEF Sure
    <2>2. CASE b # own
      BY <1>0, <1>2, <1>3, <1>4, <1>5, <2>2, SureStays
    <2> QED
      BY <2>1, <2>2
  <1> QED
    BY <1>7, <1>8, <1>9 DEF IInv

LEMMA UpdateUsernameIsSound ==
  ASSUME IInv, NEW s \in Slots, UpdateUsername(s), UNCHANGED cookie
  PROVE  IInv'
  <1> DEFINE c == req[s].session
             n == req[s].name
             i == req[s].id
             m == IF name[i] = None THEN None ELSE n
  <1>1. PICK heard \in BOOLEAN :
          /\ unsure' = Unheard(s, i, heard)
          /\ Answer(s, IF heard THEN [c EXCEPT !.name = n] ELSE NoHeader)
    BY DEF UpdateUsername
  <1>2. req[s].at = "found" /\ req[s].op = "username"
    BY DEF UpdateUsername, Found
  <1>3. c \in Sessions /\ n \in Names /\ i \in Ids /\ i = c.token
    BY <1>2, FoundTyped
  <1>4. c.id = i
    BY <1>3, Request DEF Coherent
  <1>5. name' = [name EXCEPT ![i] = m] /\ known' = known \cup {<<i, n>>}
    BY <1>3, Typed DEF UpdateUsername, UpdateAsync
  <1> DEFINE d == [c EXCEPT !.name = n]
             sets == IF heard THEN d ELSE NoHeader
  <1>6. d \in Sessions /\ d.id = i /\ d.token = i /\ d.name = n
    BY <1>3, <1>4 DEF Sessions
  <1>7. sets \in Sessions \cup {None, NoHeader} /\ (heard => sets = d /\ sets # NoHeader)
    BY <1>6, NoneIsNothing
  <1>8. Coherent(sets, known')
    BY <1>5, <1>6, NoneIsNothing DEF Coherent
  <1>9. ~unsure[req[s].browser] => m = n
    BY <1>2, ReadWhenSure, FoundTyped
  <1>10. heard /\ ~unsure[req[s].browser] => True(sets, name')
    BY <1>3, <1>5, <1>6, <1>7, <1>9, Typed DEF True
  <1>11. /\ Answer(s, sets) /\ known \subseteq known' /\ known' \subseteq Ids \X Names
         /\ m \in Names \cup {None} /\ (m # None => <<i, m>> \in known')
    BY <1>1, <1>3, <1>5, Typed
  <1> HIDE DEF sets, i, n, m, c
  <1> QED
    BY <1>1, <1>2, <1>3, <1>5, <1>7, <1>8, <1>10, <1>11, ChangeIsSound

LEMMA DeleteAccountIsSound ==
  ASSUME IInv, NEW s \in Slots, DeleteAccount(s), UNCHANGED cookie
  PROVE  IInv'
  <1> DEFINE i == req[s].id
  <1>1. PICK heard \in BOOLEAN :
          unsure' = Unheard(s, i, heard) /\ Answer(s, IF heard THEN None ELSE NoHeader)
    BY DEF DeleteAccount
  <1>2. /\ req[s].at = "found" /\ name' = [name EXCEPT ![i] = None] /\ known' = known
    BY DEF DeleteAccount, Found
  <1>3. i \in Ids
    BY <1>2, FoundTyped
  <1> DEFINE sets == IF heard THEN None ELSE NoHeader
  <1>4. /\ sets \in Sessions \cup {None, NoHeader} /\ (heard => sets # NoHeader)
        /\ Coherent(sets, known') /\ True(sets, name')
    BY NoneIsNothing DEF Coherent, True
  <1>5. Answer(s, sets)
    BY <1>1
  <1> HIDE DEF sets, i
  <1> QED
    BY <1>1, <1>2, <1>3, <1>4, <1>5, Typed, ChangeIsSound

(* A settings request that changes a name undoes a rename that came between *)
(* its two statements, of which its browser cannot be sure.                 *)
LEMMA OtherSettingsIsSound ==
  ASSUME IInv, NEW s \in Slots, OtherSettings(s), UNCHANGED cookie
  PROVE  IInv'
  <1> DEFINE i == req[s].id
             n == req[s].was
             m == IF name[i] = None THEN None ELSE n
  <1>1. req[s].at = "found" /\ Answer(s, NoHeader)
    BY DEF OtherSettings, Found
  <1>2. i \in Ids /\ n \in Names /\ <<i, n>> \in known
    BY <1>1, FoundTyped
  <1>3. name' = [name EXCEPT ![i] = m] /\ known' = known
    BY <1>2, Typed DEF OtherSettings, UpdateAsync
  <1>4. CASE name' = name
    <2>1. unsure' = unsure
      BY <1>4 DEF OtherSettings
    <2> QED
      BY <1>1, <1>3, <1>4, <2>1, QuietIsSound
  <1>5. CASE name' # name
    <2>1. unsure' = Unheard(s, i, TRUE)
      BY <1>5 DEF OtherSettings
    <2>2. unsure[req[s].browser]
      BY <1>1, <1>2, <1>3, <1>5, ReadWhenSure, FoundTyped, Typed
    <2>3. /\ m \in Names \cup {None} /\ (m # None => <<i, m>> \in known')
          /\ Coherent(NoHeader, known')
      BY <1>2, <1>3, NoneIsNothing DEF Coherent
    <2> HIDE DEF i, m, n
    <2> QED
      BY <1>1, <1>2, <1>3, <2>1, <2>2, <2>3, Typed, ChangeIsSound
  <1> QED
    BY <1>4, <1>5

LEMMA RouteStepIsSound ==
  ASSUME IInv, NEW s \in Slots, RouteStep(s)
  PROVE  IInv'
  <1> USE DEF RouteStep
  <1>1. CASE Login(s)
    <2>1. PICK i \in Ids : name[i] = req[s].name /\ CreateAuthSession(s, i, req[s].name)
      BY <1>1 DEF Login
    <2>2. req[s].at = "sent" /\ UNCHANGED <<name, known>> /\ req[s].name \in Names
      BY <1>1, Request DEF Login, Called, RequestOK
    <2> DEFINE c == [token |-> i, id |-> i, name |-> req[s].name]
    <2>3. c \in Sessions /\ Coherent(c, known) /\ True(c, name)
      BY <2>1, <2>2, Typed, NoneIsNothing DEF Sessions, Coherent, True, Exists
    <2> HIDE DEF c
    <2> QED
      BY <2>1, <2>2, <2>3, SessionIsSound DEF CreateAuthSession, c
  <1>2. CASE Register(s)
    BY <1>2, RegisterIsSound
  <1>3. CASE Logout(s)
    <2>1. Coherent(None, known) /\ True(None, name)
      BY NoneIsNothing DEF Coherent, True
    <2> QED
      BY <1>3, <2>1, SessionIsSound DEF Logout, Called
  <1>4. CASE UpdateUsername(s)
    BY <1>4, UpdateUsernameIsSound
  <1>5. CASE DeleteAccount(s)
    BY <1>5, DeleteAccountIsSound
  <1>6. CASE OtherSettings(s)
    BY <1>6, OtherSettingsIsSound
  <1>7. CASE Refused(s)
    BY <1>7, QuietIsSound DEF Refused
  <1>8. CASE FindsUser(s)
    BY <1>8, FindsUserIsSound
  <1> QED
    BY <1>1, <1>2, <1>3, <1>4, <1>5, <1>6, <1>7, <1>8

-----------------------------------------------------------------------------

LEMMA Begins == Init => IInv
  <1> SUFFICES ASSUME Init PROVE IInv
    OBVIOUS
  <1>1. \A s \in Slots : req[s] = Idle
    BY DEF Init
  <1>2. WebSessionTypeOK
    <2>1. known \subseteq Ids \X Names
      BY DEF Init, Exists
    <2>2. req \in [Slots -> Requests] /\ \A s \in Slots : RequestOK(req[s])
      BY <1>1, IdleTyped DEF Init
    <2> QED
      BY <2>1, <2>2 DEF Init, WebSessionTypeOK
  <1>3. AllCoherent
    <2>1. \A i \in Ids : Exists(i) => <<i, name[i]>> \in known
      BY DEF Init
    <2>2. \A b \in Browsers : cookie[b] = None
      BY DEF Init
    <2> QED
      BY <1>1, <2>1, <2>2, IdleTyped, NoneIsNothing DEF AllCoherent, Coherent
  <1>4. \A b \in Browsers : Sure(b)
    BY <1>1, IdleTyped, NoneIsNothing DEF Init, Sure, Answered, True
  <1> QED
    BY <1>2, <1>3, <1>4 DEF IInv

LEMMA Continues == IInv /\ [Next]_vars => IInv'
  <1> SUFFICES ASSUME IInv, [Next]_vars PROVE IInv'
    OBVIOUS
  <1>1. ASSUME NEW s \in Slots, RouteStep(s) PROVE IInv'
    BY <1>1, RouteStepIsSound
  <1>2. ASSUME NEW s \in Slots, Receive(s) PROVE IInv'
    BY <1>2, DoneIsSound DEF Receive
  <1>3. ASSUME NEW s \in Slots, Lose(s) PROVE IInv'
    BY <1>3, DoneIsSound DEF Lose
  <1>4. ASSUME NEW s \in Slots, NEW b \in Browsers, Send(s, b) PROVE IInv'
    BY <1>4, SendIsSound
  <1>5. ASSUME NEW b \in Browsers, CookieExpires(b) PROVE IInv'
    BY <1>5, ExpiryIsSound
  <1>6. CASE UNCHANGED vars
    BY <1>6 DEF vars, IInv, WebSessionTypeOK, AllCoherent, Sure, Answered, Exists
  <1> QED
    BY <1>1, <1>2, <1>3, <1>4, <1>5, <1>6 DEF Next

LEMMA Invariant == Spec => []IInv
  BY Begins, Continues, PTL DEF Spec

(* Requests, answers and cookies are always what the routes expect. *)
THEOREM WebSessionTypeCorrect == Spec => []WebSessionTypeOK
  <1>1. IInv => WebSessionTypeOK
    BY DEF IInv
  <1> QED
    BY <1>1, Invariant, PTL

(* No order of requests and answers mixes two accounts in one session. *)
THEOREM CoherenceHolds == Spec => []CookieCoherent
  <1>1. IInv => CookieCoherent
    BY Typed DEF IInv, AllCoherent, Coherent, CookieCoherent
  <1> QED
    BY <1>1, Invariant, PTL

(* The name that the pages of a browser at rest show is the account's,     *)
(* unless it could not have heard of the change.                           *)
THEOREM TruthHolds == Spec => []CookieTellsTruth
  <1>1. IInv => CookieTellsTruth
    BY Typed, TrueWhileIdle DEF True, CookieTellsTruth
  <1> QED
    BY <1>1, Invariant, PTL

-----------------------------------------------------------------------------
(* The brewery directory. *)

(* The pages that were read, those on the screen and the one on its way. *)
All == shown \o fetch.read

(* The breweries of the list down to the last one that was loaded, and     *)
(* those of them that were there from the beginning and were not loaded.   *)
Passed(seen) == {b \in rows : \E s \in seen : b >= s}
Missed(seen, first) == (first \cap Passed(seen)) \ seen

(* What creations and deletions account for, of n rows that were loaded:   *)
(* a creation pushes one brewery below the offset, which is loaded again,  *)
(* and a deletion pulls one above it, which may not be loaded at all.      *)
Ledger(n, seen, first, more, fewer) ==
  /\ n <= more + Cardinality(seen)
  /\ Cardinality(Passed(seen)) <= more + Cardinality(seen)
  /\ Cardinality(Missed(seen, first)) <= fewer
  /\ Cardinality(Missed(seen, first)) + n <= fewer + Cardinality(Passed(seen))

Loaded == fetch.at = "read"
Ends == \/ page = "open" /\ ~hasMore
        \/ Loaded /\ Len(fetch.read) # PageSize

DirectoryTypeOK ==
  /\ born \in Seq(Nat)
  /\ rows \subseteq DOMAIN born /\ opened \subseteq DOMAIN born
  /\ page \in {"absent", "open", "failed"}
  /\ shown \in Seq(Nat) /\ offset \in Nat /\ hasMore \in BOOLEAN
  /\ fetch \in [at : {"idle", "sent", "read"}, offset : Nat, read : Seq(Nat)]
  /\ created \in Nat /\ deleted \in Nat

Loading ==
  /\ page = "absent" => shown = <<>> /\ fetch = NotLoading
  /\ page = "open" => offset = Len(shown)
  /\ fetch # NotLoading => page = "open" /\ hasMore /\ fetch.offset = offset
  /\ ~Loaded => fetch.read = <<>>

InOrder == \A i, j \in DOMAIN born : i <= j => born[i] <= born[j]

(* While no two breweries share an instant, repeats and misses are          *)
(* accounted for, those of the pages to come included.                     *)
Accounted ==
  /\ Ledger(Len(All), ToSet(All), opened, created, deleted)
  /\ Ends => Cardinality((opened \cap rows) \ ToSet(All)) <= deleted

DirectoryIInv ==
  /\ DirectoryTypeOK /\ Loading /\ InOrder
  /\ Distinct => Accounted

-----------------------------------------------------------------------------

LEMMA LeastNatural ==
  ASSUME NEW T \in SUBSET Nat, T # {}
  PROVE  \E least \in T : \A k \in T : least <= k
  <1>1. PICK least \in T : \A k \in T : <<k, least>> \notin OpToRel(<, Nat)
    BY NatLessThanWellFounded, WFMin, Zenon
  <1>2. ASSUME NEW k \in T PROVE least <= k
    <2>1. ~(k < least)
      BY <1>1 DEF OpToRel
    <2> QED
      BY <2>1
  <1> QED
    BY <1>2

LEMMA SubsetCounts ==
  ASSUME NEW T, IsFiniteSet(T), NEW S \in SUBSET T
  PROVE  /\ IsFiniteSet(S) /\ Cardinality(S) \in Nat /\ Cardinality(T) \in Nat
         /\ IsFiniteSet(T \ S) /\ Cardinality(T \ S) \in Nat
         /\ Cardinality(T) = Cardinality(S) + Cardinality(T \ S)
  <1>1. S \cap T = S /\ T \cap S = S
    OBVIOUS
  <1>2. IsFiniteSet(S) /\ IsFiniteSet(T \ S)
    BY FS_Subset, FS_Difference
  <1>3. Cardinality(T \ S) = Cardinality(T) - Cardinality(S)
    <2>1. Cardinality(T \ S) = Cardinality(T) - Cardinality(T \cap S)
      BY FS_Difference, Zenon
    <2> QED
      BY <1>1, <2>1, Zenon
  <1> QED
    BY <1>2, <1>3, FS_CardinalityType

LEMMA DisjointCounts ==
  ASSUME NEW S, IsFiniteSet(S), NEW T, IsFiniteSet(T), S \cap T = {}
  PROVE  /\ IsFiniteSet(S \cup T) /\ Cardinality(S \cup T) \in Nat
         /\ Cardinality(S) \in Nat /\ Cardinality(T) \in Nat
         /\ Cardinality(S \cup T) = Cardinality(S) + Cardinality(T)
  <1>1. /\ IsFiniteSet(S \cup T)
        /\ Cardinality(S \cup T) = Cardinality(S) + Cardinality(T) - Cardinality({})
    <2>1. S \cap T = {}
      OBVIOUS
    <2> QED
      BY <2>1, FS_Union, SMT
  <1> QED
    BY <1>1, FS_CardinalityType, FS_EmptySet

LEMMA JoinCounts ==
  ASSUME NEW S, IsFiniteSet(S), NEW T, IsFiniteSet(T)
  PROVE  Cardinality(S \cup T) <= Cardinality(S) + Cardinality(T)
  <1>1. Cardinality(S \cup T) = Cardinality(S) + Cardinality(T) - Cardinality(S \cap T)
    BY FS_Union
  <1>2. Cardinality(S \cap T) \in Nat
    BY FS_Intersection, FS_CardinalityType
  <1> QED
    BY <1>1, <1>2, FS_CardinalityType

LEMMA ElementsFinite ==
  ASSUME NEW X, NEW s \in Seq(X)
  PROVE  /\ IsFiniteSet(ToSet(s)) /\ ToSet(s) \subseteq X /\ Cardinality(ToSet(s)) \in Nat
         /\ Cardinality(ToSet(s)) <= Len(s)
  <1>1. s \in [1..Len(s) -> X] /\ Len(s) \in Nat
    OBVIOUS
  <1>2. s \in Surjection(1..Len(s), ToSet(s))
    BY <1>1 DEF Surjection, ToSet
  <1>3. IsFiniteSet(1..Len(s)) /\ Cardinality(1..Len(s)) = Len(s)
    <2>1. \A n \in Nat : IsFiniteSet(1..n) /\ Cardinality(1..n) = n
      BY FS_Interval
    <2> QED
      BY <1>1, <2>1
  <1>4. IsFiniteSet(ToSet(s)) /\ Cardinality(ToSet(s)) <= Cardinality(1..Len(s))
    BY <1>2, <1>3, FS_Surjection
  <1>5. ToSet(s) \subseteq X
    BY <1>1 DEF ToSet
  <1>6. Cardinality(ToSet(s)) \in Nat
    BY <1>4, FS_CardinalityType
  <1> QED
    BY <1>1, <1>3, <1>4, <1>5, <1>6

LEMMA ElementsJoin ==
  ASSUME NEW X, NEW s \in Seq(X), NEW t \in Seq(X)
  PROVE  /\ s \o t \in Seq(X) /\ Len(s \o t) = Len(s) + Len(t)
         /\ ToSet(s \o t) = ToSet(s) \cup ToSet(t)
  <1>1. s \o t \in Seq(X) /\ Len(s \o t) = Len(s) + Len(t)
    OBVIOUS
  <1>2. ASSUME NEW x \in ToSet(s \o t) PROVE x \in ToSet(s) \cup ToSet(t)
    BY <1>1, <1>2 DEF ToSet
  <1>3. ASSUME NEW i \in DOMAIN s PROVE s[i] \in ToSet(s \o t)
    <2>1. i \in DOMAIN (s \o t) /\ (s \o t)[i] = s[i]
      OBVIOUS
    <2> QED BY <2>1 DEF ToSet
  <1>4. ASSUME NEW i \in DOMAIN t PROVE t[i] \in ToSet(s \o t)
    <2>1. Len(s) + i \in DOMAIN (s \o t) /\ (s \o t)[Len(s) + i] = t[i]
      OBVIOUS
    <2> QED BY <2>1 DEF ToSet
  <1> QED
    BY <1>1, <1>2, <1>3, <1>4 DEF ToSet

LEMMA MaxOfTwo ==
  ASSUME NEW a \in Int, NEW b \in Int
  PROVE  Max({a, b}) = IF a >= b THEN a ELSE b
  <1>1. \E x \in {a, b} : \A y \in {a, b} : x >= y
    OBVIOUS
  <1>2. \A x \in {a, b} : (\A y \in {a, b} : x >= y) => x = IF a >= b THEN a ELSE b
    OBVIOUS
  <1> QED
    BY <1>1, <1>2 DEF Max

LEMMA MinOfTwo ==
  ASSUME NEW a \in Int, NEW b \in Int
  PROVE  Min({a, b}) = IF a <= b THEN a ELSE b
  <1>1. \E x \in {a, b} : \A y \in {a, b} : x <= y
    OBVIOUS
  <1>2. \A x \in {a, b} : (\A y \in {a, b} : x <= y) => x = IF a <= b THEN a ELSE b
    OBVIOUS
  <1> QED
    BY <1>1, <1>2 DEF Min

-----------------------------------------------------------------------------

LEMMA RowsFinite ==
  ASSUME DirectoryTypeOK
  PROVE  /\ IsFiniteSet(rows) /\ Cardinality(rows) \in Nat /\ rows \subseteq Nat
         /\ IsFiniteSet(opened) /\ IsFiniteSet(DOMAIN born)
  <1>1. DOMAIN born = 1..Len(born) /\ Len(born) \in Nat
    BY DEF DirectoryTypeOK
  <1>2. IsFiniteSet(DOMAIN born)
    BY <1>1, FS_Interval
  <1> QED
    BY <1>1, <1>2, FS_Subset, FS_CardinalityType DEF DirectoryTypeOK

(* A page holds what there is from its offset on, up to its size. *)
LEMMA PageLength ==
  ASSUME DirectoryTypeOK, NEW off \in Nat, NEW p \in Pages(off)
  PROVE  /\ Len(p) \in Nat /\ Len(p) <= PageSize
         /\ p \in [1..Len(p) -> rows] /\ p \in Seq(rows) /\ p \in Seq(Nat)
         /\ IsInjective(p)
         /\ \A j \in 1..Len(p) : CanStandAt(p[j], off + j)
         /\ Len(p) > 0 => off + Len(p) <= Cardinality(rows)
         /\ Len(p) < PageSize => Cardinality(rows) <= off + Len(p)
  <1> DEFINE left == Max({0, Cardinality(rows) - off})
             m == Min({PageSize, left})
  <1>1. left \in Nat /\ left = IF Cardinality(rows) >= off THEN Cardinality(rows) - off ELSE 0
    BY RowsFinite, MaxOfTwo
  <1> HIDE DEF left
  <1>0. PageSize \in Int /\ PageSize >= 0
    BY DirectoryAssumption
  <1>2. m \in Nat /\ m = IF PageSize <= left THEN PageSize ELSE left
    <2>1. Min({PageSize, left}) = IF PageSize <= left THEN PageSize ELSE left
      BY <1>0, <1>1, MinOfTwo
    <2> QED
      BY <1>0, <1>1, <2>1
  <1> HIDE DEF m
  <1>3. /\ p \in [1..m -> rows] /\ IsInjective(p)
        /\ \A j \in DOMAIN p : CanStandAt(p[j], off + j)
    BY DEF Pages, left, m
  <1>4. p \in Seq(rows) /\ Len(p) = m
    BY <1>2, <1>3
  <1>5. p \in Seq(Nat)
    BY <1>4, RowsFinite
  <1> QED
    BY <1>1, <1>2, <1>3, <1>4, <1>5, RowsFinite, DirectoryAssumption

LEMMA PageElements ==
  ASSUME DirectoryTypeOK, NEW off \in Nat, NEW p \in Pages(off)
  PROVE  /\ ToSet(p) = {p[j] : j \in 1..Len(p)} /\ ToSet(p) \subseteq rows
         /\ IsFiniteSet(ToSet(p)) /\ Cardinality(ToSet(p)) = Len(p)
  <1>1. Len(p) \in Nat /\ p \in [1..Len(p) -> rows] /\ IsInjective(p)
    BY PageLength
  <1>2. p \in Injection(1..Len(p), ToSet(p)) /\ p \in Surjection(1..Len(p), ToSet(p))
    BY <1>1 DEF Injection, IsInjective, Surjection, ToSet
  <1>3. IsFiniteSet(1..Len(p)) /\ Cardinality(1..Len(p)) = Len(p)
    <2>1. \A n \in Nat : IsFiniteSet(1..n) /\ Cardinality(1..n) = n
      BY FS_Interval
    <2> QED
      BY <1>1, <2>1
  <1>4. IsFiniteSet(ToSet(p)) /\ Cardinality(ToSet(p)) = Len(p)
    BY <1>2, <1>3, FS_Surjection
  <1> QED
    BY <1>1, <1>4 DEF ToSet

-----------------------------------------------------------------------------
(* Without ties the order of the pages is that of the breweries, newest    *)
(* first, and a brewery stands behind those above it.                      *)
Above(b) == {c \in rows : c > b}

LEMMA CreatedInOrder ==
  ASSUME DirectoryTypeOK, InOrder, Distinct, NEW b \in rows, NEW c \in rows
  PROVE  /\ born[c] > born[b] <=> c > b
         /\ born[c] >= born[b] <=> c >= b
  <1>1. /\ b \in DOMAIN born /\ c \in DOMAIN born /\ b \in Nat /\ c \in Nat
        /\ born[b] \in Nat /\ born[c] \in Nat
    BY DEF DirectoryTypeOK
  <1>2. CASE b = c
    BY <1>1, <1>2
  <1>3. CASE b < c
    <2>1. born[b] <= born[c] /\ born[b] # born[c]
      BY <1>1, <1>3 DEF InOrder, Distinct
    <2> QED
      BY <1>1, <1>3, <2>1
  <1>4. CASE c < b
    <2>1. born[c] <= born[b] /\ born[b] # born[c]
      BY <1>1, <1>4 DEF InOrder, Distinct
    <2> QED
      BY <1>1, <1>4, <2>1
  <1> QED
    BY <1>1, <1>2, <1>3, <1>4

LEMMA AboveFinite ==
  ASSUME DirectoryTypeOK, NEW b \in rows
  PROVE  /\ IsFiniteSet(Above(b)) /\ Cardinality(Above(b)) \in Nat
         /\ IsFiniteSet(Above(b) \cup {b})
         /\ Cardinality(Above(b) \cup {b}) = Cardinality(Above(b)) + 1
  <1>1. b \notin Above(b) /\ Above(b) \subseteq rows
    BY RowsFinite DEF Above
  <1>2. IsFiniteSet(Above(b)) /\ Cardinality(Above(b)) \in Nat
    BY <1>1, RowsFinite, SubsetCounts
  <1> QED
    BY <1>1, <1>2, FS_AddElement

LEMMA StandsBehindThoseAbove ==
  ASSUME DirectoryTypeOK, InOrder, Distinct, NEW b \in rows, NEW k \in Nat,
         CanStandAt(b, k)
  PROVE  Cardinality(Above(b)) = k - 1
  <1>1. {c \in rows : born[c] > born[b]} = Above(b)
    BY CreatedInOrder DEF Above
  <1>2. {c \in rows : born[c] >= born[b]} = Above(b) \cup {b}
    BY CreatedInOrder, RowsFinite DEF Above
  <1>3. Cardinality(Above(b)) < k /\ k <= Cardinality(Above(b) \cup {b})
    BY <1>1, <1>2 DEF CanStandAt
  <1> QED
    BY <1>3, AboveFinite

LEMMA FewerAreAbove ==
  ASSUME DirectoryTypeOK, NEW b \in rows, NEW c \in rows, b < c
  PROVE  Cardinality(Above(c)) < Cardinality(Above(b))
  <1>1. Above(c) \cup {c} \subseteq Above(b)
    BY RowsFinite DEF Above
  <1>2. Cardinality(Above(c) \cup {c}) <= Cardinality(Above(b))
    BY <1>1, AboveFinite, FS_Subset
  <1>3. /\ Cardinality(Above(c)) \in Nat /\ Cardinality(Above(b)) \in Nat
        /\ Cardinality(Above(c) \cup {c}) = Cardinality(Above(c)) + 1
    BY AboveFinite
  <1> QED
    BY <1>2, <1>3

(* The breweries down to the last one of a page are those before its       *)
(* offset, which are above its first one, and the page itself.             *)
From(b) == {c \in rows : c >= b}

LEMMA PageIsABlock ==
  ASSUME DirectoryTypeOK, InOrder, Distinct, NEW off \in Nat, NEW p \in Pages(off),
         Len(p) > 0
  PROVE  LET top == p[1]
             low == p[Len(p)]
         IN  /\ top \in rows /\ low \in rows /\ low <= top
             /\ Cardinality(Above(top)) = off
             /\ Cardinality(From(low)) = off + Len(p)
             /\ ToSet(p) = {c \in rows : low <= c /\ c <= top}
  <1> DEFINE n == Len(p)
             top == p[1]
             low == p[n]
             block == {c \in rows : low <= c /\ c <= top}
  <1>1. /\ n \in Nat /\ 1 \in 1..n /\ n \in 1..n
        /\ \A j \in 1..n : p[j] \in rows /\ Cardinality(Above(p[j])) = off + j - 1
    <2>1. n \in Nat /\ n > 0
      BY PageLength
    <2>2. ASSUME NEW j \in 1..n
          PROVE  p[j] \in rows /\ Cardinality(Above(p[j])) = off + j - 1
      <3>1. p[j] \in rows /\ CanStandAt(p[j], off + j) /\ off + j \in Nat
        BY <2>1, PageLength
      <3>2. Cardinality(Above(p[j])) = (off + j) - 1
        BY <3>1, StandsBehindThoseAbove
      <3> QED
        BY <3>1, <3>2, <2>1
    <2> QED
      BY <2>1, <2>2
  <1>2. /\ top \in rows /\ Cardinality(Above(top)) = off
        /\ low \in rows /\ Cardinality(Above(low)) = off + n - 1
    BY <1>1
  <1> HIDE DEF low, top
  <1>3. ASSUME NEW j \in 1..n PROVE low <= p[j] /\ p[j] <= top
    <2>1. p[j] \in rows /\ Cardinality(Above(p[j])) = off + j - 1
      BY <1>1
    <2>2. ~(p[j] < low)
      BY <1>1, <1>2, <2>1, FewerAreAbove
    <2>3. ~(top < p[j])
      BY <1>1, <1>2, <2>1, FewerAreAbove
    <2>4. p[j] \in Nat /\ low \in Nat /\ top \in Nat
      BY <1>2, <2>1, RowsFinite
    <2> QED
      BY <2>2, <2>3, <2>4
  <1>4. low <= top /\ low \in Nat /\ top \in Nat /\ rows \subseteq Nat
    BY <1>1, <1>2, <1>3, RowsFinite DEF top
  <1>5. From(low) = Above(low) \cup {low}
    <2>1. \A c \in rows : c >= low <=> (c > low \/ c = low)
      BY <1>4
    <2> QED
      BY <1>2, <2>1 DEF From, Above
  <1>6. IsFiniteSet(From(low)) /\ Cardinality(From(low)) = off + n
    <2>1. /\ IsFiniteSet(Above(low) \cup {low})
          /\ Cardinality(Above(low) \cup {low}) = Cardinality(Above(low)) + 1
      BY <1>2, AboveFinite
    <2> QED
      BY <1>1, <1>2, <1>5, <2>1
  <1> HIDE DEF n
  <1>7. Above(top) \subseteq From(low) /\ From(low) \ Above(top) = block
    <2>1. \A c \in rows : /\ c > top => c >= low
                          /\ c >= low /\ ~(c > top) <=> low <= c /\ c <= top
      BY <1>4
    <2> QED
      BY <2>1 DEF From, Above
  <1>8. IsFiniteSet(block) /\ Cardinality(block) = n
    <2>1. IsFiniteSet(block) /\ Cardinality(From(low)) = Cardinality(Above(top)) + Cardinality(block)
          /\ Cardinality(block) \in Nat
      BY <1>6, <1>7, SubsetCounts
    <2> QED
      BY <2>1, <1>1, <1>2, <1>6
  <1>9. ToSet(p) \subseteq block
    BY <1>1, <1>3, PageElements DEF n
  <1>10. ToSet(p) = block
    BY <1>8, <1>9, PageElements, FS_Subset DEF n
  <1> QED
    BY <1>2, <1>4, <1>6, <1>10 DEF n, low, top

-----------------------------------------------------------------------------

LEMMA LedgerCounts ==
  ASSUME DirectoryTypeOK, NEW seen \in SUBSET Nat, IsFiniteSet(seen),
         NEW first \in SUBSET DOMAIN born
  PROVE  /\ Cardinality(seen) \in Nat
         /\ Passed(seen) \subseteq rows /\ IsFiniteSet(Passed(seen))
         /\ Cardinality(Passed(seen)) \in Nat
         /\ IsFiniteSet(Missed(seen, first)) /\ Cardinality(Missed(seen, first)) \in Nat
         /\ IsFiniteSet((first \cap rows) \ seen)
         /\ Cardinality((first \cap rows) \ seen) \in Nat
  <1>1. Passed(seen) \subseteq rows
    BY DEF Passed
  <1>2. Missed(seen, first) \subseteq rows /\ (first \cap rows) \ seen \subseteq rows
    BY <1>1 DEF Missed
  <1>3. \A T \in SUBSET rows : IsFiniteSet(T) /\ Cardinality(T) \in Nat
    BY RowsFinite, SubsetCounts
  <1> QED
    BY <1>1, <1>2, <1>3, FS_CardinalityType

(* A page that was there already: everything down to it had been passed. *)
LEMMA PageWithinPassed ==
  ASSUME DirectoryTypeOK, InOrder, Distinct,
         NEW n \in Nat, NEW p \in Pages(n), Len(p) > 0,
         NEW seen \in SUBSET Nat, IsFiniteSet(seen),
         NEW first \in SUBSET DOMAIN born, NEW more \in Nat, NEW fewer \in Nat,
         Ledger(n, seen, first, more, fewer),
         p[Len(p)] \in Passed(seen)
  PROVE  Ledger(n + Len(p), seen \cup ToSet(p), first, more, fewer)
  <1> DEFINE new == seen \cup ToSet(p)
             low == p[Len(p)]
  <1>1. /\ low \in rows /\ Cardinality(From(low)) = n + Len(p) /\ Len(p) \in Nat
        /\ \A c \in ToSet(p) : c \in rows /\ low <= c
    BY PageIsABlock, PageLength
  <1>2. ToSet(p) \subseteq rows /\ IsFiniteSet(ToSet(p)) /\ rows \subseteq Nat
    BY PageElements, RowsFinite
  <1>3. new \in SUBSET Nat /\ IsFiniteSet(new)
    BY <1>2, FS_Union
  <1>4. PICK s \in seen : low >= s
    BY DEF Passed
  <1> HIDE DEF low
  <1>0. low \in Nat /\ s \in Nat
    BY <1>1, <1>2
  <1>5. Passed(new) = Passed(seen)
    <2>1. ASSUME NEW b \in rows, NEW t \in new, b >= t PROVE \E u \in seen : b >= u
      <3>1. ASSUME t \in ToSet(p) PROVE b >= s
        <4>1. t \in Nat /\ b \in Nat /\ low <= t
          BY <1>1, <1>2, <3>1
        <4> QED
          BY <1>0, <1>4, <2>1, <4>1
      <3> QED
        BY <1>4, <2>1, <3>1
    <2> QED
      BY <2>1 DEF Passed
  <1>6. From(low) \subseteq Passed(seen)
    <2>1. ASSUME NEW b \in rows, b >= low PROVE b >= s
      <3>1. b \in Nat
        BY <1>2
      <3> QED
        BY <1>0, <1>4, <2>1, <3>1
    <2> QED
      BY <1>4, <2>1 DEF From, Passed
  <1>7. n + Len(p) <= Cardinality(Passed(seen))
    <2>1. IsFiniteSet(Passed(seen))
      BY LedgerCounts
    <2> QED
      BY <1>1, <1>6, <2>1, FS_Subset
  <1>8. Cardinality(seen) <= Cardinality(new)
    BY <1>3, FS_Subset
  <1>9. Cardinality(Missed(new, first)) <= Cardinality(Missed(seen, first))
    <2>1. Missed(new, first) \subseteq Missed(seen, first)
      BY <1>5 DEF Missed
    <2> QED
      BY <2>1, LedgerCounts, FS_Subset
  <1>10. /\ Cardinality(seen) \in Nat /\ Cardinality(new) \in Nat
         /\ Cardinality(Passed(seen)) \in Nat
         /\ Cardinality(Missed(seen, first)) \in Nat /\ Cardinality(Missed(new, first)) \in Nat
    BY <1>3, LedgerCounts
  <1> SUFFICES Ledger(n + Len(p), new, first, more, fewer)
    OBVIOUS
  <1>11. Len(p) \in Nat /\ Cardinality(Passed(new)) = Cardinality(Passed(seen))
    BY <1>1, <1>5
  <1> HIDE DEF new
  <1>12. /\ Cardinality(seen) <= Cardinality(new)
         /\ Cardinality(Missed(new, first)) <= Cardinality(Missed(seen, first))
    BY <1>8, <1>9
  <1>13. /\ n <= more + Cardinality(seen)
         /\ Cardinality(Passed(seen)) <= more + Cardinality(seen)
         /\ Cardinality(Missed(seen, first)) <= fewer
    BY DEF Ledger
  <1>14. n + Len(p) <= more + Cardinality(new)
    BY <1>7, <1>10, <1>11, <1>12, <1>13
  <1>15. Cardinality(Passed(new)) <= more + Cardinality(new)
    BY <1>10, <1>11, <1>12, <1>13
  <1>16. Cardinality(Missed(new, first)) <= fewer
    BY <1>10, <1>12, <1>13
  <1>17. Cardinality(Missed(new, first)) + (n + Len(p)) <= fewer + Cardinality(Passed(new))
    BY <1>7, <1>10, <1>11, <1>16
  <1> QED
    BY <1>14, <1>15, <1>16, <1>17 DEF Ledger

(* A page that reaches farther: what it holds of the breweries between is  *)
(* new, and it misses no more of them than the deletions had left over.    *)
LEMMA PageBeyondPassed ==
  ASSUME DirectoryTypeOK, InOrder, Distinct,
         NEW n \in Nat, NEW p \in Pages(n), Len(p) > 0,
         NEW seen \in SUBSET Nat, IsFiniteSet(seen),
         NEW first \in SUBSET DOMAIN born, NEW more \in Nat, NEW fewer \in Nat,
         Ledger(n, seen, first, more, fewer),
         p[Len(p)] \notin Passed(seen)
  PROVE  /\ Ledger(n + Len(p), seen \cup ToSet(p), first, more, fewer)
         /\ Passed(seen \cup ToSet(p)) = From(p[Len(p)])
  <1> DEFINE new == seen \cup ToSet(p)
             top == p[1]
             low == p[Len(p)]
             between == From(low) \ Passed(seen)
  <1>1. /\ top \in rows /\ low \in rows /\ low <= top
        /\ Cardinality(Above(top)) = n
        /\ Cardinality(From(low)) = n + Len(p)
        /\ Len(p) \in Nat
        /\ ToSet(p) = {c \in rows : low <= c /\ c <= top}
        /\ low \in ToSet(p)
    <2>1. Len(p) \in Nat /\ p[Len(p)] \in ToSet(p)
      BY PageLength, PageElements
    <2> QED
      BY <2>1, PageIsABlock
  <1>2. /\ ToSet(p) \subseteq rows /\ IsFiniteSet(ToSet(p)) /\ Cardinality(ToSet(p)) = Len(p)
        /\ rows \subseteq Nat
    BY PageElements, RowsFinite
  <1>3. new \in SUBSET Nat /\ IsFiniteSet(new)
    BY <1>2, FS_Union
  <1> HIDE DEF low, top
  <1>0. low \in Nat /\ top \in Nat
    BY <1>1, <1>2
  <1>4. ASSUME NEW s \in seen PROVE low < s
    <2>1. ~(low >= s) /\ s \in Nat
      BY <1>1 DEF Passed, low
    <2> QED
      BY <1>0, <2>1
  <1>5. Passed(new) = From(low)
    <2>1. ASSUME NEW b \in rows, NEW t \in new, b >= t PROVE b >= low
      BY <1>1, <1>2, <1>4, <2>1
    <2> QED
      BY <1>1, <2>1 DEF Passed, From
  <1>6. Passed(seen) \subseteq From(low)
    <2>1. ASSUME NEW b \in rows, NEW s \in seen, b >= s PROVE b >= low
      <3>1. b \in Nat /\ s \in Nat /\ low < s
        BY <1>2, <1>4
      <3> QED
        BY <1>0, <2>1, <3>1
    <2> QED
      BY <2>1 DEF Passed, From
  <1>7. \A b \in between : b \notin seen /\ \A c \in Passed(seen) : b < c
    <2>1. ASSUME NEW b \in between PROVE b \notin seen /\ \A c \in Passed(seen) : b < c
      <3>1. b \in rows /\ b \in Nat /\ \A s \in seen : b < s
        BY <1>2 DEF From, Passed
      <3>2. ASSUME NEW c \in Passed(seen) PROVE b < c
        <4>1. PICK s \in seen : c >= s
          BY DEF Passed
        <4> QED
          BY <1>2, <3>1, <4>1 DEF Passed
      <3> QED
        BY <3>1, <3>2
    <2> QED
      BY <2>1
  <1>8. /\ IsFiniteSet(From(low)) /\ IsFiniteSet(between)
        /\ Cardinality(Passed(seen)) \in Nat /\ Cardinality(between) \in Nat
        /\ Cardinality(between) + Cardinality(Passed(seen)) = n + Len(p)
    <2>1. IsFiniteSet(From(low))
      BY RowsFinite, FS_Subset DEF From
    <2> HIDE DEF between
    <2>2. /\ Cardinality(From(low)) = Cardinality(Passed(seen)) + Cardinality(between)
          /\ IsFiniteSet(between) /\ Cardinality(between) \in Nat
          /\ Cardinality(Passed(seen)) \in Nat
      BY <1>6, <2>1, SubsetCounts DEF between
    <2> QED
      BY <1>1, <2>1, <2>2
  <1>9. /\ Cardinality(seen) \in Nat /\ Cardinality(new) \in Nat
        /\ Cardinality(Missed(seen, first)) \in Nat /\ Cardinality(Missed(new, first)) \in Nat
        /\ IsFiniteSet(Missed(seen, first))
    BY <1>3, LedgerCounts
  <1>12. /\ Len(p) \in Nat
         /\ Cardinality(seen) \in Nat /\ Cardinality(new) \in Nat
         /\ Cardinality(Passed(seen)) \in Nat
         /\ Cardinality(Missed(seen, first)) \in Nat /\ Cardinality(Missed(new, first)) \in Nat
    BY <1>1, <1>8, <1>9
  <1> SUFFICES /\ n + Len(p) <= more + Cardinality(new)
               /\ Cardinality(Missed(new, first)) <= fewer
    <2>1. Cardinality(Passed(new)) = n + Len(p)
      BY <1>1, <1>5
    <2>2. Ledger(n + Len(p), new, first, more, fewer)
      BY <1>1, <1>9, <2>1 DEF Ledger
    <2> QED
      BY <2>2, <1>5 DEF low
  <1>10. CASE n <= Cardinality(Passed(seen))
    <2>1. between \subseteq ToSet(p)
      <3> SUFFICES ASSUME NEW b \in between, ~(b <= top) PROVE FALSE
        BY <1>1 DEF From
      <3>0. b \in rows /\ b \in Nat
        BY <1>2 DEF From
      <3>1. Passed(seen) \cup {b} \subseteq Above(top)
        <4>1. top < b
          BY <1>0, <3>0
        <4>2. ASSUME NEW c \in Passed(seen) PROVE c \in rows /\ top < c
          <5>1. b < c /\ c \in rows /\ c \in Nat
            BY <1>2, <1>7 DEF Passed
          <5> QED
            BY <1>0, <3>0, <4>1, <5>1
        <4> QED
          BY <3>0, <4>1, <4>2 DEF Above
      <3>2. /\ Cardinality(Passed(seen) \cup {b}) = Cardinality(Passed(seen)) + 1
            /\ IsFiniteSet(Passed(seen))
        BY LedgerCounts, FS_AddElement
      <3>3. Cardinality(Passed(seen) \cup {b}) <= Cardinality(Above(top))
        BY <1>1, <3>1, AboveFinite, FS_Subset
      <3> QED
        BY <1>1, <1>8, <1>10, <3>2, <3>3
    <2>2. /\ Cardinality(seen \cup between) = Cardinality(seen) + Cardinality(between)
          /\ Cardinality(seen \cup between) <= Cardinality(new)
      <3>1. seen \cap between = {} /\ seen \cup between \subseteq new
        BY <1>7, <2>1
      <3> HIDE DEF between, new
      <3> QED
        BY <1>3, <1>8, <3>1, DisjointCounts, FS_Subset
    <2>3. Missed(new, first) \subseteq Missed(seen, first)
      BY <1>5, <2>1 DEF Missed
    <2>4. Cardinality(Missed(new, first)) <= Cardinality(Missed(seen, first))
      BY <1>9, <2>3, FS_Subset
    <2>5. /\ Cardinality(Passed(seen)) <= more + Cardinality(seen)
          /\ Cardinality(Missed(seen, first)) <= fewer
      BY DEF Ledger
    <2> HIDE DEF between, new
    <2>6. Cardinality(seen) + Cardinality(between) <= Cardinality(new)
      BY <2>2
    <2>7. Cardinality(seen) + (n + Len(p)) <= Cardinality(new) + Cardinality(Passed(seen))
      BY <1>8, <1>12, <2>6
    <2>8. n + Len(p) <= more + Cardinality(new)
      BY <1>12, <2>5, <2>7
    <2>9. Cardinality(Missed(new, first)) <= fewer
      BY <1>12, <2>4, <2>5
    <2> QED
      BY <2>8, <2>9
  <1>11. CASE Cardinality(Passed(seen)) < n
    <2>1. top \notin Passed(seen)
      <3> SUFFICES ASSUME top \in Passed(seen) PROVE FALSE
        OBVIOUS
      <3>1. Above(top) \cup {top} \subseteq Passed(seen)
        <4>1. PICK s \in seen : top >= s
          BY DEF Passed
        <4>2. ASSUME NEW c \in rows, c >= top PROVE c >= s
          <5>1. c \in Nat /\ s \in Nat
            BY <1>2
          <5> QED
            BY <1>0, <4>1, <4>2, <5>1
        <4>3. Above(top) \cup {top} \subseteq rows /\ \A c \in Above(top) \cup {top} : c >= top
          BY <1>0, <1>1, <1>2 DEF Above
        <4> QED
          BY <4>2, <4>3 DEF Passed
      <3>2. Cardinality(Above(top) \cup {top}) = n + 1
        BY <1>1, AboveFinite
      <3>3. Cardinality(Above(top) \cup {top}) <= Cardinality(Passed(seen))
        BY <3>1, LedgerCounts, FS_Subset
      <3> QED
        BY <1>8, <1>11, <3>2, <3>3
    <2>2. ToSet(p) \subseteq between
      <3> SUFFICES ASSUME NEW c \in ToSet(p), c \in Passed(seen) PROVE FALSE
        BY <1>1, <1>2 DEF From
      <3>1. PICK s \in seen : c >= s
        BY DEF Passed
      <3>2. top >= s
        BY <1>1, <1>2, <3>1
      <3> QED
        BY <1>1, <2>1, <3>2 DEF Passed
    <2>3. Cardinality(new) = Cardinality(seen) + Len(p)
      <3>1. seen \cap ToSet(p) = {}
        BY <1>7, <2>2
      <3> QED
        BY <1>2, <3>1, DisjointCounts
    <2>4. Cardinality(Missed(new, first)) + Cardinality(Passed(seen))
            <= Cardinality(Missed(seen, first)) + n
      <3> DEFINE rest == between \ ToSet(p)
      <3>1. Missed(new, first) \subseteq Missed(seen, first) \cup rest
        BY <1>5 DEF Missed
      <3>2. Missed(seen, first) \cap rest = {}
        BY DEF Missed
      <3> HIDE DEF between
      <3>3. /\ IsFiniteSet(rest) /\ Cardinality(rest) \in Nat
            /\ Cardinality(between) = Len(p) + Cardinality(rest)
        BY <1>2, <1>8, <2>2, SubsetCounts
      <3> HIDE DEF rest, new
      <3>4. /\ IsFiniteSet(Missed(seen, first) \cup rest)
            /\ Cardinality(Missed(seen, first) \cup rest)
                 = Cardinality(Missed(seen, first)) + Cardinality(rest)
        BY <1>9, <3>2, <3>3, DisjointCounts
      <3>5. Cardinality(Missed(new, first)) <= Cardinality(Missed(seen, first) \cup rest)
        BY <3>1, <3>4, FS_Subset
      <3>6. Cardinality(rest) + Cardinality(Passed(seen)) = n
        <4>1. Len(p) + Cardinality(rest) + Cardinality(Passed(seen)) = n + Len(p)
          BY <1>8, <3>3
        <4>2. Cardinality(rest) \in Nat
          BY <3>3
        <4> QED
          BY <1>12, <4>1, <4>2
      <3> QED
        BY <3>3, <3>4, <3>5, <3>6, <1>12
    <2>5. /\ n <= more + Cardinality(seen)
          /\ Cardinality(Missed(seen, first)) + n <= fewer + Cardinality(Passed(seen))
      BY DEF Ledger
    <2> HIDE DEF new
    <2>6. n + Len(p) <= more + Cardinality(new)
      BY <1>12, <2>3, <2>5
    <2>7. Cardinality(Missed(new, first)) <= fewer
      BY <1>12, <2>4, <2>5
    <2> QED
      BY <2>6, <2>7
  <1> QED
    BY <1>8, <1>10, <1>11

(* What is there and was not loaded, when a page is not full. *)
LEMMA NextPage ==
  ASSUME DirectoryTypeOK, InOrder, Distinct,
         NEW n \in Nat, NEW p \in Pages(n),
         NEW seen \in SUBSET Nat, IsFiniteSet(seen),
         NEW first \in SUBSET DOMAIN born, NEW more \in Nat, NEW fewer \in Nat,
         Ledger(n, seen, first, more, fewer)
  PROVE  /\ Ledger(n + Len(p), seen \cup ToSet(p), first, more, fewer)
         /\ Len(p) # PageSize =>
              Cardinality((first \cap rows) \ (seen \cup ToSet(p))) <= fewer
  <1> DEFINE new == seen \cup ToSet(p)
  <1>1. /\ Len(p) \in Nat /\ Len(p) <= PageSize
        /\ Len(p) # PageSize => Cardinality(rows) <= n + Len(p)
    BY PageLength, DirectoryAssumption
  <1>2. /\ IsFiniteSet(rows) /\ Cardinality(rows) \in Nat /\ rows \subseteq Nat
        /\ IsFiniteSet(ToSet(p)) /\ ToSet(p) \subseteq rows
    BY RowsFinite, PageElements
  <1>3. new \in SUBSET Nat /\ IsFiniteSet(new)
    BY <1>2, FS_Union
  <1>4. CASE Len(p) = 0
    <2>1. ToSet(p) = {}
      BY <1>4, PageElements
    <2>2. new = seen /\ n + Len(p) = n
      BY <1>4, <2>1
    <2>3. ASSUME Len(p) # PageSize
          PROVE  Cardinality((first \cap rows) \ seen) <= fewer
      <3> DEFINE left == (first \cap rows) \ seen
                 rest == rows \ Passed(seen)
      <3>1. left \subseteq Missed(seen, first) \cup rest /\ Missed(seen, first) \cap rest = {}
        BY DEF Missed
      <3>2. /\ Passed(seen) \subseteq rows /\ IsFiniteSet(Missed(seen, first))
            /\ Cardinality(Missed(seen, first)) \in Nat /\ Cardinality(left) \in Nat
        BY LedgerCounts
      <3>3. /\ IsFiniteSet(rest) /\ Cardinality(rest) \in Nat /\ Cardinality(Passed(seen)) \in Nat
            /\ Cardinality(rows) = Cardinality(Passed(seen)) + Cardinality(rest)
        BY <1>2, <3>2, SubsetCounts
      <3> HIDE DEF left, rest
      <3>4. /\ IsFiniteSet(Missed(seen, first) \cup rest)
            /\ Cardinality(Missed(seen, first) \cup rest)
                 = Cardinality(Missed(seen, first)) + Cardinality(rest)
        BY <3>1, <3>2, <3>3, DisjointCounts
      <3>5. Cardinality(left) <= Cardinality(Missed(seen, first) \cup rest)
        BY <3>1, <3>4, FS_Subset
      <3>6. Cardinality(rows) <= n
        BY <1>1, <1>4, <2>3
      <3>7. Cardinality(Missed(seen, first)) + n <= fewer + Cardinality(Passed(seen))
        BY DEF Ledger
      <3>8. Cardinality(left) <= fewer
        BY <1>2, <3>2, <3>3, <3>4, <3>5, <3>6, <3>7
      <3> QED
        BY <3>8 DEF left
    <2> QED
      BY <2>2, <2>3
  <1>5. CASE Len(p) > 0
    <2> DEFINE low == p[Len(p)]
    <2>1. low \in rows /\ Cardinality(From(low)) = n + Len(p) /\ low \in ToSet(p)
      BY <1>1, <1>5, PageIsABlock, PageElements
    <2>2. /\ Ledger(n + Len(p), new, first, more, fewer)
          /\ From(low) \subseteq Passed(new)
      <3>1. From(low) \subseteq Passed(new)
        BY <2>1 DEF From, Passed
      <3> QED
        BY <1>5, <3>1, PageWithinPassed, PageBeyondPassed
    <2>3. ASSUME Len(p) # PageSize
          PROVE  Cardinality((first \cap rows) \ new) <= fewer
      <3>1. From(low) \subseteq rows /\ IsFiniteSet(From(low))
        BY <1>2, FS_Subset DEF From
      <3>2. Cardinality(rows) <= Cardinality(From(low)) /\ Cardinality(From(low)) <= Cardinality(rows)
        BY <1>1, <1>2, <2>1, <2>3, <3>1, FS_Subset
      <3>3. From(low) = rows
        <4>1. Cardinality(From(low)) = Cardinality(rows)
          BY <1>1, <1>2, <2>1, <3>2
        <4> HIDE DEF low
        <4> QED
          BY <1>2, <3>1, <4>1, FS_Subset
      <3>4. Passed(new) = rows
        BY <2>2, <3>3 DEF Passed
      <3>5. (first \cap rows) \ new = Missed(new, first)
        BY <3>4 DEF Missed
      <3> QED
        BY <2>2, <3>5 DEF Ledger
    <2> QED
      BY <2>2, <2>3
  <1> QED
    BY <1>1, <1>4, <1>5

-----------------------------------------------------------------------------

LEMMA NothingLoaded ==
  ASSUME DirectoryTypeOK, NEW first \in SUBSET DOMAIN born,
         NEW more \in Nat, NEW fewer \in Nat
  PROVE  Ledger(0, {}, first, more, fewer)
  <1>1. Passed({}) = {} /\ Missed({}, first) = {}
    BY DEF Passed, Missed
  <1> QED
    BY <1>1, FS_EmptySet DEF Ledger

LEMMA AllTyped ==
  ASSUME DirectoryTypeOK
  PROVE  /\ All \in Seq(Nat) /\ Len(All) \in Nat /\ Len(All) = Len(shown) + Len(fetch.read)
         /\ ToSet(All) = ToSet(shown) \cup ToSet(fetch.read)
         /\ ToSet(All) \in SUBSET Nat /\ IsFiniteSet(ToSet(All))
         /\ Cardinality(ToSet(All)) \in Nat
  <1>1. shown \in Seq(Nat) /\ fetch.read \in Seq(Nat)
    BY DEF DirectoryTypeOK
  <1>2. /\ All \in Seq(Nat) /\ Len(All) = Len(shown) + Len(fetch.read)
        /\ ToSet(All) = ToSet(shown) \cup ToSet(fetch.read)
    BY <1>1, ElementsJoin DEF All
  <1>3. Len(All) \in Nat
    BY <1>2
  <1> QED
    BY <1>2, <1>3, ElementsFinite

LEMMA NothingRead ==
  ASSUME DirectoryTypeOK, fetch.read = <<>>
  PROVE  All = shown
  BY DEF All, DirectoryTypeOK

(* A step that loads nothing while the breweries stay as they are. *)
LEMMA AccountedStays ==
  ASSUME Accounted, UNCHANGED <<rows, opened, created, deleted>>, All' = All, Ends' => Ends
  PROVE  Accounted'
  BY DEF Accounted, Ledger, Passed, Missed

LEMMA OpenAccounts ==
  ASSUME DirectoryTypeOK, Loading, InOrder, Distinct, Open
  PROVE  Accounted'
  <1>1. PICK p \in Pages(0) : shown' = p /\ hasMore' = IsFull(p)
    BY DEF Open
  <1>2. /\ page' = "open" /\ fetch' = fetch /\ opened' = rows /\ created' = 0 /\ deleted' = 0
        /\ rows' = rows
    BY DEF Open, server
  <1>3. fetch = NotLoading /\ fetch.read = <<>> /\ fetch.at = "idle"
    BY DEF Open, Loading, NotLoading
  <1>4. All' = p
    BY <1>1, <1>2, <1>3, PageLength DEF All
  <1>5. /\ Ledger(0 + Len(p), {} \cup ToSet(p), rows, 0, 0)
        /\ Len(p) # PageSize => Cardinality((rows \cap rows) \ ({} \cup ToSet(p))) <= 0
    <2>1. Ledger(0, {}, rows, 0, 0) /\ rows \in SUBSET DOMAIN born
      BY NothingLoaded DEF DirectoryTypeOK
    <2>2. IsFiniteSet({}) /\ {} \in SUBSET Nat /\ 0 \in Nat
      BY FS_EmptySet
    <2>3. ASSUME NEW first \in SUBSET DOMAIN born, NEW none \in SUBSET Nat, none = {},
                 Ledger(0, none, first, 0, 0)
          PROVE  /\ Ledger(0 + Len(p), none \cup ToSet(p), first, 0, 0)
                 /\ Len(p) # PageSize =>
                      Cardinality((first \cap rows) \ (none \cup ToSet(p))) <= 0
      BY <2>2, <2>3, NextPage
    <2> QED
      BY <2>1, <2>2, <2>3
  <1>6. Ledger(Len(p), ToSet(p), rows, 0, 0)
    <2>1. 0 + Len(p) = Len(p) /\ {} \cup ToSet(p) = ToSet(p)
      BY PageLength
    <2> QED
      BY <1>5, <2>1
  <1>7. Ledger(Len(All), ToSet(All), opened, created, deleted)'
    BY <1>2, <1>4, <1>6 DEF Ledger, Passed, Missed
  <1>8. ASSUME Ends' PROVE Len(p) # PageSize
    BY <1>1, <1>2, <1>3, <1>8 DEF Ends, Loaded, IsFull
  <1>9. Ends' => Cardinality((opened \cap rows) \ ToSet(All))' <= deleted'
    BY <1>2, <1>4, <1>5, <1>8
  <1> QED
    BY <1>7, <1>9 DEF Accounted

LEMMA ReadAccounts ==
  ASSUME DirectoryTypeOK, Loading, InOrder, Distinct, Accounted, Read
  PROVE  Accounted'
  <1>1. PICK p \in Pages(fetch.offset) : fetch' = [fetch EXCEPT !.at = "read", !.read = p]
    BY DEF Read
  <1>2. UNCHANGED <<rows, page, shown, hasMore, opened, created, deleted>>
    BY DEF Read, server, history
  <1>3. /\ fetch # NotLoading /\ page = "open" /\ hasMore
        /\ fetch.offset = Len(shown) /\ fetch.read = <<>> /\ fetch.offset \in Nat
    BY DEF Read, Loading, Loaded, NotLoading, DirectoryTypeOK
  <1>4. All = shown /\ fetch'.read = p /\ fetch'.at = "read"
    BY <1>1, <1>3, NothingRead DEF DirectoryTypeOK
  <1>5. All' = shown \o p
    BY <1>2, <1>4 DEF All
  <1>6. p \in Seq(Nat) /\ shown \in Seq(Nat)
    BY <1>3, PageLength DEF DirectoryTypeOK
  <1>7. Len(All') = fetch.offset + Len(p) /\ ToSet(All') = ToSet(All) \cup ToSet(p)
    BY <1>3, <1>4, <1>5, <1>6, ElementsJoin
  <1>8. /\ Ledger(fetch.offset + Len(p), ToSet(All) \cup ToSet(p), opened, created, deleted)
        /\ Len(p) # PageSize =>
             Cardinality((opened \cap rows) \ (ToSet(All) \cup ToSet(p))) <= deleted
    <2>1. Ledger(fetch.offset, ToSet(All), opened, created, deleted)
      BY <1>3, <1>4 DEF Accounted
    <2>2. opened \in SUBSET DOMAIN born /\ created \in Nat /\ deleted \in Nat
      BY DEF DirectoryTypeOK
    <2> QED
      BY <1>3, <2>1, <2>2, AllTyped, NextPage
  <1>9. Ledger(Len(All), ToSet(All), opened, created, deleted)'
    BY <1>2, <1>7, <1>8 DEF Ledger, Passed, Missed
  <1>10. Ends' => Len(p) # PageSize
    BY <1>2, <1>3, <1>4 DEF Ends, Loaded
  <1> QED
    BY <1>2, <1>7, <1>8, <1>9, <1>10 DEF Accounted

LEMMA AppendAccounts ==
  ASSUME DirectoryTypeOK, Loading, Accounted, AppendPage
  PROVE  Accounted'
  <1>1. shown' = shown \o fetch.read /\ fetch'.read = <<>> /\ fetch'.at = "idle"
    BY DEF AppendPage, NotLoading
  <1>2. All' = All
    BY <1>1, AllTyped DEF All
  <1>3. Ends' => Ends
    BY <1>1 DEF AppendPage, Ends, Loaded, IsFull
  <1> QED
    BY <1>2, <1>3, AccountedStays DEF AppendPage, server, history

LEMMA CreateAccounts ==
  ASSUME DirectoryTypeOK, Accounted, Create
  PROVE  Accounted'
  <1> DEFINE new == Len(born) + 1
             seen == ToSet(All)
  <1>1. PICK t : born' = Append(born, t)
    BY DEF Create
  <1>2. /\ rows' = rows \cup {new} /\ new \notin DOMAIN born
        /\ new \notin rows /\ new \notin opened
    BY <1>1 DEF Create, DirectoryTypeOK
  <1>3. /\ UNCHANGED <<page, shown, hasMore, fetch, opened, deleted>>
        /\ created' = created + 1 /\ created \in Nat /\ deleted \in Nat
    BY DEF Create, client, DirectoryTypeOK
  <1>4. All' = All /\ Ends' = Ends
    BY <1>3 DEF All, Ends, Loaded
  <1>5. opened \cap rows' = opened \cap rows
    BY <1>2
  <1> HIDE DEF new
  <1>6. /\ Passed(seen) \subseteq Passed(seen)'
        /\ Passed(seen)' \subseteq Passed(seen) \cup {new}
    BY <1>2, <1>4 DEF Passed
  <1>7. Missed(seen, opened)' = Missed(seen, opened)
    BY <1>2, <1>3, <1>4, <1>6 DEF Missed, Passed
  <1>8. /\ Cardinality(seen) \in Nat /\ Cardinality(Missed(seen, opened)) \in Nat
        /\ Cardinality(Passed(seen)) \in Nat /\ IsFiniteSet(Passed(seen)) /\ Len(All) \in Nat
    BY AllTyped, LedgerCounts DEF DirectoryTypeOK
  <1>9. /\ Cardinality(Passed(seen)') \in Nat
        /\ Cardinality(Passed(seen)) <= Cardinality(Passed(seen)')
        /\ Cardinality(Passed(seen)') <= Cardinality(Passed(seen)) + 1
    <2> DEFINE old == Passed(seen)
               now == Passed(seen)'
    <2> HIDE DEF old, now, seen
    <2>1. IsFiniteSet(old) /\ old \subseteq now /\ now \subseteq old \cup {new} /\ Cardinality(old) \in Nat
      BY <1>6, <1>8 DEF old, now
    <2>2. /\ IsFiniteSet(old \cup {new})
          /\ Cardinality(old \cup {new}) <= Cardinality(old) + 1
          /\ Cardinality(old \cup {new}) \in Nat
      BY <2>1, FS_AddElement, FS_CardinalityType
    <2>3. IsFiniteSet(now) /\ Cardinality(now) <= Cardinality(old \cup {new})
      BY <2>1, <2>2, FS_Subset
    <2>4. Cardinality(old) <= Cardinality(now) /\ Cardinality(now) \in Nat
      BY <2>1, <2>3, FS_Subset, FS_CardinalityType
    <2>5. Cardinality(now) <= Cardinality(old) + 1
      BY <2>1, <2>2, <2>3, <2>4
    <2> QED
      BY <2>4, <2>5 DEF old, now
  <1>10. Ledger(Len(All), seen, opened, created, deleted)'
    <2>1. Ledger(Len(All), seen, opened, created, deleted)
      BY DEF Accounted
    <2>2. /\ Len(All) <= (created + 1) + Cardinality(seen)
          /\ Cardinality(Passed(seen)') <= (created + 1) + Cardinality(seen)
          /\ Cardinality(Missed(seen, opened)) + Len(All) <= deleted + Cardinality(Passed(seen)')
      BY <1>3, <1>8, <1>9, <2>1 DEF Ledger
    <2> QED
      BY <1>3, <1>4, <1>7, <2>1, <2>2 DEF Ledger
  <1> QED
    BY <1>3, <1>4, <1>5, <1>10 DEF Accounted

LEMMA DeleteAccounts ==
  ASSUME DirectoryTypeOK, Accounted, Delete
  PROVE  Accounted'
  <1> DEFINE seen == ToSet(All)
  <1>1. PICK b \in rows : rows' = rows \ {b}
    BY DEF Delete
  <1>2. /\ UNCHANGED <<page, shown, hasMore, fetch, opened, created>>
        /\ deleted' = deleted + 1 /\ created \in Nat /\ deleted \in Nat
    BY DEF Delete, client, DirectoryTypeOK
  <1>3. All' = All /\ Ends' = Ends
    BY <1>2 DEF All, Ends, Loaded
  <1>4. /\ Cardinality(seen) \in Nat /\ IsFiniteSet(Missed(seen, opened))
        /\ Cardinality(Missed(seen, opened)) \in Nat
        /\ Cardinality(Passed(seen)) \in Nat /\ IsFiniteSet(Passed(seen)) /\ Len(All) \in Nat
        /\ IsFiniteSet((opened \cap rows) \ seen) /\ Cardinality((opened \cap rows) \ seen) \in Nat
    BY AllTyped, LedgerCounts DEF DirectoryTypeOK
  <1>5. Passed(seen)' = Passed(seen) \ {b}
    BY <1>1, <1>3 DEF Passed
  <1>6. /\ Cardinality(Passed(seen)') \in Nat
        /\ Cardinality(Passed(seen)) <= Cardinality(Passed(seen)') + 1
        /\ Cardinality(Passed(seen)') <= Cardinality(Passed(seen))
    <2> HIDE DEF seen
    <2>1. /\ IsFiniteSet(Passed(seen) \ {b})
          /\ Cardinality(Passed(seen) \ {b}) = IF b \in Passed(seen) THEN Cardinality(Passed(seen)) - 1
                                                                    ELSE Cardinality(Passed(seen))
      BY <1>4, FS_RemoveElement
    <2>2. Cardinality(Passed(seen) \ {b}) \in Nat
      BY <2>1, FS_CardinalityType
    <2> QED
      BY <1>4, <1>5, <2>1, <2>2
  <1>7. /\ Cardinality(Missed(seen, opened)') \in Nat
        /\ Cardinality(Missed(seen, opened)') <= Cardinality(Missed(seen, opened))
    <2>1. Missed(seen, opened)' \subseteq Missed(seen, opened)
      BY <1>2, <1>3, <1>5 DEF Missed
    <2> HIDE DEF seen
    <2> QED
      BY <1>4, <2>1, FS_Subset, FS_CardinalityType
  <1>8. /\ Cardinality((opened \cap rows') \ seen) \in Nat
        /\ Cardinality((opened \cap rows') \ seen) <= Cardinality((opened \cap rows) \ seen)
    <2>1. (opened \cap rows') \ seen \subseteq (opened \cap rows) \ seen
      BY <1>1
    <2> HIDE DEF seen
    <2> QED
      BY <1>4, <2>1, FS_Subset, FS_CardinalityType
  <1>9. Ledger(Len(All), seen, opened, created, deleted)'
    <2>1. Ledger(Len(All), seen, opened, created, deleted)
      BY DEF Accounted
    <2>2. /\ Len(All) <= created + Cardinality(seen)
          /\ Cardinality(Passed(seen)') <= created + Cardinality(seen)
          /\ Cardinality(Missed(seen, opened)') <= deleted + 1
          /\ Cardinality(Missed(seen, opened)') + Len(All)
               <= (deleted + 1) + Cardinality(Passed(seen)')
      <3>1. /\ Len(All) <= created + Cardinality(seen)
            /\ Cardinality(Passed(seen)) <= created + Cardinality(seen)
            /\ Cardinality(Missed(seen, opened)) <= deleted
            /\ Cardinality(Missed(seen, opened)) + Len(All) <= deleted + Cardinality(Passed(seen))
        BY <2>1 DEF Ledger
      <3> HIDE DEF seen
      <3>2. Cardinality(Passed(seen)') <= created + Cardinality(seen)
        BY <1>2, <1>4, <1>6, <3>1
      <3>3. Cardinality(Missed(seen, opened)') <= deleted + 1
        BY <1>2, <1>4, <1>7, <3>1
      <3>4. Cardinality(Missed(seen, opened)') + Len(All)
              <= (deleted + 1) + Cardinality(Passed(seen)')
        <4>1. Cardinality(Missed(seen, opened)') + Len(All)
                <= deleted + Cardinality(Passed(seen))
          BY <1>2, <1>4, <1>7, <3>1
        <4> QED
          BY <1>2, <1>4, <1>6, <1>7, <4>1
      <3> QED
        BY <3>1, <3>2, <3>3, <3>4
    <2> QED
      BY <1>2, <1>3, <2>2 DEF Ledger
  <1>10. Ends' => Cardinality((opened \cap rows') \ seen) <= deleted + 1
    <2>1. Ends => Cardinality((opened \cap rows) \ seen) <= deleted
      BY DEF Accounted
    <2> QED
      BY <1>2, <1>3, <1>4, <1>8, <2>1
  <1> QED
    BY <1>2, <1>3, <1>9, <1>10 DEF Accounted

-----------------------------------------------------------------------------

LEMMA BornStaysTyped ==
  ASSUME DirectoryTypeOK, InOrder, Create
  PROVE  /\ born' \in Seq(Nat) /\ DOMAIN born \subseteq DOMAIN born'
         /\ Len(born') \in DOMAIN born'
         /\ InOrder' /\ (Distinct' => Distinct)
  <1>1. PICK t \in IF born = <<>> THEN {1} ELSE {Last(born), Last(born) + 1} :
          born' = Append(born, t)
    BY DEF Create
  <1>2. /\ born \in Seq(Nat) /\ Len(born) \in Nat
        /\ \A i \in DOMAIN born : i \in Nat /\ i <= Len(born) /\ born[i] \in Nat
    BY DEF DirectoryTypeOK
  <1>3. t \in Nat /\ \A i \in DOMAIN born : born[i] <= t
    <2>1. CASE born = <<>>
      BY <1>1, <2>1
    <2>2. CASE born # <<>>
      <3>1. Len(born) \in DOMAIN born /\ Last(born) = born[Len(born)]
        BY <1>2, <2>2 DEF Last
      <3>2. t \in {Last(born), Last(born) + 1}
        BY <1>1, <2>2
      <3>3. ASSUME NEW i \in DOMAIN born PROVE born[i] <= born[Len(born)]
        BY <1>2, <3>1 DEF InOrder
      <3> QED
        BY <1>2, <3>1, <3>2, <3>3
    <2> QED
      BY <2>1, <2>2
  <1>4. /\ born' \in Seq(Nat) /\ Len(born') = Len(born) + 1
        /\ DOMAIN born' = DOMAIN born \cup {Len(born) + 1}
        /\ \A i \in DOMAIN born : born'[i] = born[i]
        /\ born'[Len(born) + 1] = t
    BY <1>1, <1>2, <1>3
  <1>5. InOrder'
    <2> SUFFICES ASSUME NEW i \in DOMAIN born', NEW j \in DOMAIN born', i <= j
                 PROVE  born'[i] <= born'[j]
      BY DEF InOrder
    <2>1. CASE j \in DOMAIN born
      <3>1. i \in DOMAIN born
        BY <1>2, <1>4, <2>1
      <3> QED
        BY <1>4, <2>1, <3>1 DEF InOrder
    <2>2. CASE j = Len(born) + 1
      BY <1>3, <1>4, <2>2
    <2> QED
      BY <1>4, <2>1, <2>2
  <1> QED
    BY <1>2, <1>4, <1>5 DEF Distinct

LEMMA DirectoryInitially ==
  ASSUME DirectoryInit
  PROVE  DirectoryIInv
  <1>1. PICK n \in 0..MaxBorn : born \in [1..n -> 1..n]
    BY DEF DirectoryInit
  <1>2. \A i \in DOMAIN born : born[i] \in IF i = 1 THEN {1} ELSE {born[i - 1], born[i - 1] + 1}
    BY DEF DirectoryInit
  <1>3. n \in Nat /\ born \in Seq(Nat) /\ Len(born) = n
    BY <1>1, DirectoryAssumption
  <1>4. /\ rows = DOMAIN born /\ page = "absent" /\ shown = <<>> /\ offset = 0 /\ hasMore = FALSE
        /\ fetch = NotLoading /\ opened = {} /\ created = 0 /\ deleted = 0
    BY DEF DirectoryInit
  <1>5. DirectoryTypeOK
    <2>1. NotLoading \in [at : {"idle", "sent", "read"}, offset : Nat, read : Seq(Nat)]
      BY DEF NotLoading
    <2>2. /\ <<>> \in Seq(Nat) /\ rows \subseteq DOMAIN born /\ opened \subseteq DOMAIN born
          /\ born \in Seq(Nat)
      BY <1>3, <1>4
    <2> QED
      BY <1>4, <2>1, <2>2 DEF DirectoryTypeOK
  <1>6. Loading
    BY <1>4 DEF Loading, Loaded, NotLoading
  <1>7. InOrder
    <2> DEFINE bad == {k \in 1..n : \E i \in 1..k : ~(born[i] <= born[k])}
    <2> SUFFICES ASSUME bad # {} PROVE FALSE
      BY <1>3 DEF InOrder
    <2>1. PICK k \in bad : \A j \in bad : k <= j
      <3>1. bad \in SUBSET Nat
        BY <1>3
      <3> HIDE DEF bad
      <3> QED
        BY <3>1, LeastNatural
    <2>2. PICK i \in 1..k : ~(born[i] <= born[k])
      OBVIOUS
    <2>3. k \in 1..n /\ i # k /\ k - 1 \in 1..n /\ i \in 1..(k - 1)
      BY <1>3, <2>1, <2>2
    <2>4. k - 1 \notin bad
      BY <2>1, <2>3
    <2>5. born[i] <= born[k - 1] /\ born[i] \in Nat /\ born[k - 1] \in Nat
      BY <1>3, <2>3, <2>4
    <2>6. born[k] \in {born[k - 1], born[k - 1] + 1}
      <3>1. k \in DOMAIN born /\ k # 1
        BY <1>3, <2>3
      <3> HIDE DEF bad
      <3> QED
        BY <1>2, <3>1
    <2> QED
      BY <2>2, <2>5, <2>6
  <1>8. Accounted
    <2>1. All = <<>> /\ ToSet(All) = {} /\ Len(All) = 0
      BY <1>4 DEF All, NotLoading, ToSet
    <2>2. Ledger(0, {}, {}, 0, 0)
      BY <1>5, NothingLoaded
    <2>3. ~Ends
      BY <1>4 DEF Ends, Loaded, NotLoading
    <2> QED
      BY <1>4, <2>1, <2>2, <2>3 DEF Accounted
  <1> QED
    BY <1>5, <1>6, <1>7, <1>8 DEF DirectoryIInv

LEMMA DirectoryKeeps ==
  ASSUME DirectoryIInv, [DirectoryNext]_directoryVars
  PROVE  DirectoryIInv'
  <1>1. DirectoryTypeOK /\ Loading /\ InOrder /\ (Distinct => Accounted)
    BY DEF DirectoryIInv
  <1> USE <1>1
  <1>2. CASE Open
    <2>1. PICK p \in Pages(0) :
            shown' = p /\ offset' = Len(p) /\ hasMore' = IsFull(p) /\ page' = "open"
            /\ opened' = rows /\ created' = 0 /\ deleted' = 0
            /\ UNCHANGED <<born, rows, fetch>>
      BY <1>2 DEF Open, server
    <2>2. p \in Seq(Nat) /\ Len(p) \in Nat /\ IsFull(p) \in BOOLEAN
      BY PageLength DEF IsFull
    <2>3. DirectoryTypeOK' /\ InOrder' /\ (Distinct' => Distinct)
      BY <2>1, <2>2 DEF DirectoryTypeOK, InOrder, Distinct
    <2>4. Loading'
      BY <1>2, <2>1 DEF Open, Loading, Loaded
    <2> QED
      BY <1>2, <2>3, <2>4, OpenAccounts DEF DirectoryIInv
  <1>3. CASE Read
    <2>1. PICK p \in Pages(fetch.offset) : fetch' = [fetch EXCEPT !.at = "read", !.read = p]
      BY <1>3 DEF Read
    <2>2. UNCHANGED <<born, rows, page, shown, offset, hasMore, opened, created, deleted>>
      BY <1>3 DEF Read, server, history
    <2>3. fetch.offset \in Nat /\ p \in Seq(Nat)
      BY PageLength DEF DirectoryTypeOK
    <2>4. DirectoryTypeOK' /\ InOrder' /\ (Distinct' => Distinct)
      BY <2>1, <2>2, <2>3 DEF DirectoryTypeOK, InOrder, Distinct
    <2>5. fetch # NotLoading /\ fetch'.offset = fetch.offset /\ fetch'.at = "read"
      BY <1>3, <2>1 DEF Read, NotLoading, DirectoryTypeOK
    <2>6. Loading'
      BY <2>2, <2>5 DEF Loading, Loaded
    <2> QED
      BY <1>3, <2>4, <2>6, ReadAccounts DEF DirectoryIInv
  <1>4. CASE AppendPage
    <2>1. /\ UNCHANGED <<born, rows, page, opened, created, deleted>>
          /\ shown' = shown \o fetch.read /\ offset' = offset + Len(fetch.read)
          /\ hasMore' = IsFull(fetch.read) /\ fetch' = NotLoading
      BY <1>4 DEF AppendPage, server, history
    <2>2. shown \o fetch.read \in Seq(Nat) /\ Len(fetch.read) \in Nat /\ IsFull(fetch.read) \in BOOLEAN
      BY DEF DirectoryTypeOK, IsFull
    <2>3. DirectoryTypeOK' /\ InOrder' /\ (Distinct' => Distinct)
      BY <2>1, <2>2 DEF DirectoryTypeOK, InOrder, Distinct, NotLoading
    <2>4. page = "open" /\ offset = Len(shown) /\ Len(shown \o fetch.read) = Len(shown) + Len(fetch.read)
      BY <1>4 DEF AppendPage, Loading, NotLoading, DirectoryTypeOK
    <2>5. Loading'
      BY <2>1, <2>4 DEF Loading, Loaded, NotLoading
    <2> QED
      BY <1>4, <2>3, <2>5, AppendAccounts DEF DirectoryIInv
  <1>5. CASE Fail
    <2>1. /\ UNCHANGED <<born, rows, shown, offset, hasMore, opened, created, deleted>>
          /\ page' = "failed" /\ fetch' = NotLoading
          /\ fetch.read = <<>>
      BY <1>5 DEF Fail, server, history, Loading, Loaded, NotLoading
    <2>2. DirectoryTypeOK' /\ InOrder' /\ (Distinct' => Distinct)
      BY <2>1 DEF DirectoryTypeOK, InOrder, Distinct, NotLoading
    <2>3. Loading'
      BY <2>1 DEF Loading, Loaded, NotLoading
    <2>4. All' = All /\ ~Ends'
      BY <2>1 DEF All, Ends, Loaded, NotLoading
    <2> QED
      BY <2>1, <2>2, <2>3, <2>4, AccountedStays DEF DirectoryIInv
  <1>6. CASE Intersect
    <2>1. /\ UNCHANGED <<born, rows, page, shown, offset, hasMore, opened, created, deleted>>
          /\ page = "open" /\ hasMore
          /\ \/ /\ fetch = NotLoading
                /\ fetch' = [NotLoading EXCEPT !.at = "sent", !.offset = offset]
             \/ fetch' = fetch
      BY <1>6 DEF Intersect, server, history
    <2>2. DirectoryTypeOK' /\ InOrder' /\ (Distinct' => Distinct)
      BY <2>1 DEF DirectoryTypeOK, InOrder, Distinct, NotLoading
    <2>3. Loading'
      BY <2>1 DEF Loading, Loaded, NotLoading
    <2>4. All' = All /\ (Ends' => Ends)
      BY <2>1 DEF All, Ends, Loaded, NotLoading
    <2> QED
      BY <2>1, <2>2, <2>3, <2>4, AccountedStays DEF DirectoryIInv
  <1>7. CASE Create
    <2>1. /\ rows' = rows \cup {Len(born')} /\ created' = created + 1
          /\ UNCHANGED <<page, shown, offset, hasMore, fetch, opened, deleted>>
      BY <1>7 DEF Create, client
    <2>2. DirectoryTypeOK'
      BY <1>7, <2>1, BornStaysTyped DEF DirectoryTypeOK
    <2>3. Loading'
      BY <2>1 DEF Loading, Loaded
    <2> QED
      BY <1>7, <2>2, <2>3, BornStaysTyped, CreateAccounts DEF DirectoryIInv
  <1>8. CASE Delete
    <2>1. /\ rows' \subseteq rows /\ deleted' = deleted + 1
          /\ UNCHANGED <<born, page, shown, offset, hasMore, fetch, opened, created>>
      BY <1>8 DEF Delete, client
    <2>2. DirectoryTypeOK' /\ InOrder' /\ (Distinct' => Distinct)
      BY <2>1 DEF DirectoryTypeOK, InOrder, Distinct
    <2>3. Loading'
      BY <2>1 DEF Loading, Loaded
    <2> QED
      BY <1>8, <2>2, <2>3, DeleteAccounts DEF DirectoryIInv
  <1>9. CASE Scroll \/ UNCHANGED directoryVars
    <2>1. UNCHANGED <<born, rows, page, shown, offset, hasMore, fetch, opened, created, deleted>>
      BY <1>9 DEF Scroll, server, client, history, directoryVars
    <2>2. DirectoryTypeOK' /\ InOrder' /\ (Distinct' => Distinct)
      BY <2>1 DEF DirectoryTypeOK, InOrder, Distinct
    <2>3. Loading'
      BY <2>1 DEF Loading, Loaded
    <2>4. All' = All /\ (Ends' => Ends)
      BY <2>1 DEF All, Ends, Loaded
    <2> QED
      BY <2>1, <2>2, <2>3, <2>4, AccountedStays DEF DirectoryIInv
  <1> QED
    BY <1>2, <1>3, <1>4, <1>5, <1>6, <1>7, <1>8, <1>9 DEF DirectoryNext

LEMMA DirectoryInvariant == DirectorySpec => []DirectoryIInv
  BY DirectoryInitially, DirectoryKeeps, PTL DEF DirectorySpec

(* However many breweries others create and delete while the directory     *)
(* loads its pages, and whatever the size of a page: a brewery is shown    *)
(* again only where one was created.                                       *)
THEOREM DirectoryRepeatsAreNewcomers == DirectorySpec => []RepeatsAreNewcomers
  <1>1. ASSUME DirectoryIInv PROVE RepeatsAreNewcomers
    <2> SUFFICES ASSUME Distinct
                 PROVE  Len(shown) <= Cardinality(ToSet(shown)) + created
      BY DEF RepeatsAreNewcomers
    <2>1. /\ DirectoryTypeOK
          /\ Len(shown) + Len(fetch.read) <= created + Cardinality(ToSet(shown) \cup ToSet(fetch.read))
          /\ shown \in Seq(Nat) /\ fetch.read \in Seq(Nat) /\ created \in Nat
      BY <1>1, AllTyped DEF DirectoryIInv, Accounted, Ledger, DirectoryTypeOK
    <2>2. /\ IsFiniteSet(ToSet(shown)) /\ IsFiniteSet(ToSet(fetch.read))
          /\ Cardinality(ToSet(shown)) \in Nat /\ Cardinality(ToSet(fetch.read)) \in Nat
      BY <2>1, ElementsFinite
    <2>3. Cardinality(ToSet(fetch.read)) <= Len(fetch.read)
      BY <2>1, ElementsFinite
    <2>4. Cardinality(ToSet(shown) \cup ToSet(fetch.read))
            <= Cardinality(ToSet(shown)) + Cardinality(ToSet(fetch.read))
      BY <2>2, JoinCounts
    <2>5. Cardinality(ToSet(shown) \cup ToSet(fetch.read)) \in Nat
      BY <2>2, FS_Union, FS_CardinalityType
    <2>6. Len(shown) \in Nat /\ Len(fetch.read) \in Nat
      BY <2>1
    <2> QED
      BY <2>1, <2>2, <2>3, <2>4, <2>5, <2>6
  <1> QED
    BY <1>1, DirectoryInvariant, PTL

(* The directory that ends without a sentinel has missed no more of the    *)
(* breweries it opened with, and that are still there, than were deleted.  *)
THEOREM DirectoryMissesAreDeletions == DirectorySpec => []MissesAreDeletions
  <1>1. ASSUME DirectoryIInv PROVE MissesAreDeletions
    <2> SUFFICES ASSUME Distinct, page = "open", ~hasMore
                 PROVE  Cardinality((opened \cap rows) \ ToSet(shown)) <= deleted
      BY DEF MissesAreDeletions
    <2>1. fetch.read = <<>> /\ DirectoryTypeOK
      BY <1>1 DEF DirectoryIInv, Loading, NotLoading
    <2> QED
      BY <1>1, <2>1, NothingRead DEF DirectoryIInv, Accounted, Ends
  <1> QED
    BY <1>1, DirectoryInvariant, PTL
=============================================================================
