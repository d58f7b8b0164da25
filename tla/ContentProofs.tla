---------------------------- MODULE ContentProofs ----------------------------
(***************************************************************************)
(* Theorems about Content, for any users, posts, names and places, and any *)
(* number of requests at once.                                             *)
(***************************************************************************)
EXTENDS Content, TLAPS

(* A transaction that is open holds its row; an update has found the       *)
(* version it was sent with.                                               *)
HoldsPost(s) ==
  LET r == req[s] IN
  r.at \in {"place", "commit"} =>
    lock[r.post] = s /\ Exists(r.post) /\ post[r.post].version = r.base.version

HoldsProfile(s) ==
  LET r == req[s] IN
  /\ r.at \in {"changedAt", "save"} => lock[r.user] = s
  /\ r.at = "save" => \A a \in Open(r.user) : r.from > a.from

(* What an upload has stored so far is there. *)
HasStored(s) ==
  LET r == req[s] IN
  /\ r.at = "photo" => r.photo \in objects
  /\ r.at \in {"profile", "lock", "changedAt", "save"} =>
       [id |-> r.photo, by |-> r.user] \in photos

(* A post that still has the version a client has read says what the       *)
(* client has read.                                                        *)
KnowsPost(s) ==
  LET base == req[s].base IN
  base # None =>
    /\ base.version <= version
    /\ Exists(base.post) /\ post[base.post].version = base.version =>
         /\ post[base.post].name = base.name
         /\ req[s].at # "readPlace" => location[base.post] = base.place

Accepted(s) == req[s].answer # "constraint"

OneOpenPeriod == \A u \in Users : \A a, b \in Open(u) : a = b

InOrder(s) == HoldsPost(s) /\ HoldsProfile(s) /\ HasStored(s) /\ KnowsPost(s) /\ Accepted(s)

IInv ==
  /\ ContentTypeOK
  /\ ContentIsLinked
  /\ OneOpenPeriod
  /\ \A s \in Slots : InOrder(s)

-----------------------------------------------------------------------------
(* What a step of one request does to the tables and the locks.            *)

LockStep(s) ==
  \A row \in Posts \cup Users : lock[row] \in Slots \ {s} => lock'[row] = lock[row]

PostStep(s) ==
  /\ version' \in Nat /\ version <= version'
  /\ \A b \in Posts :
       \/ post'[b] = post[b] /\ location'[b] = location[b]
       \/ /\ lock[b] \in {s, None}
          /\ post'[b] = None \/ post'[b].version = version + 1

PictureStep(s) ==
  /\ objects \subseteq objects' /\ photos \subseteq photos'
  /\ \A u \in Users : Open(u)' = Open(u) \/ lock[u] \in {s, None}

Effects(s) == LockStep(s) /\ PostStep(s) /\ PictureStep(s)

(* The parts of the invariant that are about the tables.                   *)
TablesHold == TablesOK /\ ContentIsLinked /\ OneOpenPeriod

LEMMA Tables ==
  ASSUME IInv
  PROVE  /\ TablesHold
         /\ users \subseteq Users
         /\ post \in [Posts -> Rows \cup {None}] /\ version \in Nat
         /\ \A b \in Posts : Exists(b) => post[b] \in Rows /\ post[b].version <= version
         /\ location \in [Posts -> Places \cup {None}]
         /\ objects \subseteq Nat
         /\ photos \subseteq [id : Nat, by : Users]
         /\ avatars \subseteq [user : Users, photo : Nat, from : Nat, to : Nat \cup {None}]
         /\ lock \in [Posts \cup Users -> Slots \cup {None}]
         /\ req \in [Slots -> Requests]
  BY DEF IInv, ContentTypeOK, TablesOK, TablesHold, Exists

LEMMA Request ==
  ASSUME IInv, NEW s \in Slots
  PROVE  req[s] \in Requests /\ RequestOK(req[s]) /\ InOrder(s)
  BY DEF IInv, ContentTypeOK

(* A statement that changes nothing, or takes or gives back a lock. *)
LEMMA NothingHappens ==
  ASSUME IInv, NEW s \in Slots, Nothing
  PROVE  Effects(s) /\ TablesHold'
  <1>1. Effects(s)
    BY Tables DEF Nothing, posting, picturing, Effects, LockStep, PostStep, PictureStep, Open
  <1>2. TablesHold
    BY Tables
  <1>3. TablesHold'
    BY <1>2 DEF Nothing, posting, picturing, TablesHold, TablesOK, ContentIsLinked,
                OneOpenPeriod, Open, Exists
  <1> QED
    BY <1>1, <1>3

LEMMA LocksChange ==
  ASSUME IInv, NEW s \in Slots, UNCHANGED <<users, posting, picturing>>,
         NEW row \in Posts \cup Users, lock[row] \in {s, None},
         NEW holder \in {s, None}, lock' = [lock EXCEPT ![row] = holder]
  PROVE  Effects(s) /\ TablesHold'
  <1>1. Effects(s)
    BY Tables, NoneIsNothing
       DEF posting, picturing, Effects, LockStep, PostStep, PictureStep, Open
  <1>2. TablesHold /\ lock' \in [Posts \cup Users -> Slots \cup {None}]
    BY Tables
  <1>3. TablesHold'
    BY <1>2 DEF posting, picturing, TablesHold, TablesOK, ContentIsLinked,
                OneOpenPeriod, Open, Exists
  <1> QED
    BY <1>1, <1>3

-----------------------------------------------------------------------------
(* The other requests.                                                     *)

(* What a client has read stays true of a post that keeps its version. *)
LEMMA KnowledgeKept ==
  ASSUME IInv, NEW s \in Slots, PostStep(s),
         NEW q \in Slots, req'[q].base = req[q].base,
         req'[q].at # "readPlace" => req[q].at # "readPlace"
  PROVE  KnowsPost(q)'
  <1> DEFINE base == req[q].base
  <1>1. base \in Bases \cup {None} /\ KnowsPost(q)
    BY Request DEF Requests, InOrder
  <1>2. CASE base = None
    BY <1>2 DEF KnowsPost
  <1>3. CASE base \in Bases /\ base # None
    <2>1. base.post \in Posts /\ base.version \in Nat
      BY <1>3 DEF Bases
    <2>2. base.version <= version /\ base.version <= version'
      BY <1>1, <1>3, <2>1, Tables DEF KnowsPost, PostStep
    <2>3. CASE post'[base.post] = post[base.post] /\ location'[base.post] = location[base.post]
      BY <1>1, <1>3, <2>2, <2>3 DEF KnowsPost, Exists
    <2>4. CASE post'[base.post] = None \/ post'[base.post].version = version + 1
      <3>1. ~(Exists(base.post)' /\ post'[base.post].version = base.version)
        BY <2>1, <2>2, <2>4, Tables DEF Exists
      <3> QED
        BY <1>3, <2>2, <3>1 DEF KnowsPost
    <2> QED
      BY <2>1, <2>3, <2>4 DEF PostStep
  <1> QED
    BY <1>1, <1>2, <1>3

LEMMA OthersStay ==
  ASSUME IInv, NEW s \in Slots, Effects(s),
         NEW q \in Slots \ {s}, req'[q] = req[q]
  PROVE  InOrder(q)'
  <1> DEFINE r == req[q]
  <1>1. r \in Requests /\ RequestOK(r) /\ InOrder(q)
    BY Request
  <1>2. KnowsPost(q)'
    BY KnowledgeKept DEF Effects
  <1>3. HoldsPost(q)'
    <2> SUFFICES ASSUME r.at \in {"place", "commit"}
                 PROVE  lock'[r.post] = q /\ Exists(r.post)' /\ post'[r.post].version = r.base.version
      BY DEF HoldsPost
    <2>1. r.post \in Posts
      BY <1>1 DEF RequestOK
    <2>2. lock[r.post] = q /\ Exists(r.post) /\ post[r.post].version = r.base.version
      BY <1>1 DEF InOrder, HoldsPost
    <2>3. lock[r.post] \notin {s, None} /\ lock'[r.post] = q
      BY <2>1, <2>2, NoneIsNothing DEF Effects, LockStep
    <2>4. post'[r.post] = post[r.post]
      BY <2>1, <2>3 DEF Effects, PostStep
    <2> QED
      BY <2>2, <2>3, <2>4 DEF Exists
  <1>4. HoldsProfile(q)'
    <2> SUFFICES ASSUME r.at \in {"changedAt", "save"}
                 PROVE  /\ lock'[r.user] = q
                        /\ r.at = "save" => \A a \in Open(r.user)' : r.from > a.from
      BY DEF HoldsProfile, Open
    <2>1. r.user \in Users
      BY <1>1 DEF RequestOK
    <2>2. /\ lock[r.user] = q
          /\ r.at = "save" => \A a \in Open(r.user) : r.from > a.from
      BY <1>1 DEF InOrder, HoldsProfile
    <2>3. lock[r.user] \notin {s, None} /\ lock'[r.user] = q
      BY <2>1, <2>2, NoneIsNothing DEF Effects, LockStep
    <2>4. Open(r.user)' = Open(r.user)
      BY <2>1, <2>3 DEF Effects, PictureStep
    <2> QED
      BY <2>2, <2>3, <2>4
  <1>5. HasStored(q)'
    BY <1>1 DEF InOrder, HasStored, Effects, PictureStep
  <1>6. Accepted(q)'
    BY <1>1 DEF InOrder, Accepted
  <1> QED
    BY <1>2, <1>3, <1>4, <1>5, <1>6 DEF InOrder

(* So a step is sound if it is to its own request and to the tables. *)
LEMMA StepIsSound ==
  ASSUME IInv, NEW s \in Slots, Effects(s), TablesHold', served' \in Nat,
         NEW r \in Requests, RequestOK(r), req' = [req EXCEPT ![s] = r], InOrder(s)'
  PROVE  IInv'
  <1>1. req' \in [Slots -> Requests] /\ req'[s] = r /\ \A q \in Slots \ {s} : req'[q] = req[q]
    BY Tables
  <1>2. \A q \in Slots : RequestOK(req'[q])
    BY <1>1, Request
  <1>3. \A q \in Slots : InOrder(q)'
    BY <1>1, OthersStay
  <1> QED
    BY <1>1, <1>2, <1>3 DEF IInv, ContentTypeOK, TablesHold

-----------------------------------------------------------------------------
(* The steps that handlers share.                                          *)

(* A stage in which a request holds nothing. *)
Plain == Stages \ {"place", "commit", "changedAt", "save", "photo", "profile", "lock", "readPlace"}

LEMMA PlainInOrder ==
  ASSUME IInv, NEW s \in Slots, Effects(s), req[s].at # "readPlace", req'[s].at \in Plain,
         req'[s].base = req[s].base, req'[s].answer # "constraint"
  PROVE  InOrder(s)'
  <1>1. KnowsPost(s)'
    BY KnowledgeKept DEF Effects, Plain
  <1> QED
    BY <1>1 DEF InOrder, HoldsPost, HoldsProfile, HasStored, Accepted, Plain

LEMMA ReplyIsSound ==
  ASSUME IInv, NEW s \in Slots, Effects(s), TablesHold', served' \in Nat,
         NEW answer \in Answers, answer # "constraint", Reply(s, answer),
         req[s].at # "readPlace"
  PROVE  IInv'
  <1> DEFINE r == [Idle EXCEPT !.base = req[s].base, !.at = "done", !.answer = answer]
  <1>1. req' = [req EXCEPT ![s] = r]
    BY DEF Reply
  <1>2. r \in Requests /\ RequestOK(r)
    BY Request DEF Idle, Requests, RequestOK, Stages
  <1>3. r.at = "done" /\ r.base = req[s].base /\ r.answer = answer
    BY DEF Idle
  <1> HIDE DEF r
  <1>4. req'[s] = r
    BY <1>1, Tables
  <1>5. InOrder(s)'
    BY <1>3, <1>4, PlainInOrder DEF Plain, Stages
  <1> QED
    BY <1>1, <1>2, <1>5, StepIsSound

(* On to a stage that needs nothing but what the request has. *)
LEMMA GotoIsSound ==
  ASSUME IInv, NEW s \in Slots, Effects(s), TablesHold', served' \in Nat,
         NEW stage \in Plain, Goto(s, stage), req[s].at # "readPlace",
         RequestOK([req[s] EXCEPT !.at = stage])
  PROVE  IInv'
  <1> DEFINE r == [req[s] EXCEPT !.at = stage]
  <1>1. req' = [req EXCEPT ![s] = r]
    BY DEF Goto
  <1>2. r \in Requests /\ RequestOK(r)
    BY Request DEF Requests, Plain
  <1>3. r.at = stage /\ r.base = req[s].base /\ r.answer # "constraint"
    BY Request DEF Requests, InOrder, Accepted
  <1> HIDE DEF r
  <1>4. req'[s] = r
    BY <1>1, Tables
  <1>5. InOrder(s)'
    BY <1>3, <1>4, PlainInOrder
  <1> QED
    BY <1>1, <1>2, <1>5, StepIsSound

LEMMA RefuseIsSound ==
  ASSUME IInv, NEW s \in Slots, served' \in Nat, req[s].at # "readPlace",
         NEW answer \in Answers, answer # "constraint", Refuse(s, answer)
  PROVE  IInv'
  BY NothingHappens, ReplyIsSound DEF Refuse

LEMMA RollbackIsSound ==
  ASSUME IInv, NEW s \in Slots, served' \in Nat, req[s].at # "readPlace",
         NEW row \in Posts \cup Users, lock[row] = s, Rollback(s, row)
  PROVE  IInv'
  <1>1. Effects(s) /\ TablesHold'
    BY LocksChange DEF Rollback, Unlock
  <1> QED
    BY <1>1, ReplyIsSound DEF Rollback, Answers

-----------------------------------------------------------------------------
(* Brewery posts.                                                          *)

LEMMA GetByIdIsSound ==
  ASSUME IInv, NEW s \in Slots, served' \in Nat, GetById(s)
  PROVE  IInv'
  <1> DEFINE b == req[s].post
  <1>0. Effects(s) /\ TablesHold' /\ Nothing
    BY NothingHappens DEF GetById
  <1>1. CASE req[s].at = "readPost" /\ ~Exists(b)
    BY <1>0, <1>1, ReplyIsSound DEF GetById, Answers
  <1>2. CASE req[s].at = "readPost" /\ Exists(b)
    <2> DEFINE base == [post |-> b, name |-> post[b].name, version |-> post[b].version,
                        place |-> None]
               r == [req[s] EXCEPT !.base = base, !.at = "readPlace"]
    <2>1. req' = [req EXCEPT ![s] = r]
      BY <1>2, Request DEF GetById, Requests
    <2>2. b \in Posts /\ post[b] \in Rows /\ post[b].version <= version
      BY <1>2, Request, Tables DEF RequestOK
    <2>3. base \in Bases /\ base.post = b
      BY <2>2 DEF Rows, Bases
    <2>4. base.version <= version /\ base.name = post[b].name
      BY <2>2
    <2> HIDE DEF base
    <2>5. /\ r \in Requests /\ r.at = "readPlace" /\ r.base = base /\ r.answer = req[s].answer
          /\ r.post = b /\ r.op = req[s].op /\ r.name = req[s].name /\ r.place = req[s].place
      BY <2>3, Request DEF Requests, Stages
    <2>6. RequestOK(r)
      BY <2>2, <2>3, <2>5, Request, NoneIsNothing DEF RequestOK
    <2> HIDE DEF r
    <2>7. req'[s] = r
      BY <2>1, Tables
    <2>8. UNCHANGED <<post, location, version>>
      BY <1>0 DEF Nothing, posting
    <2>9. KnowsPost(s)'
      BY <2>3, <2>4, <2>5, <2>7, <2>8 DEF KnowsPost
    <2>10. InOrder(s)'
      BY <2>5, <2>7, <2>9, Request DEF InOrder, HoldsPost, HoldsProfile, HasStored, Accepted
    <2> QED
      BY <1>0, <2>1, <2>5, <2>6, <2>10, StepIsSound
  <1>3. CASE req[s].at = "readPlace"
    <2> DEFINE old == req[s].base
               base == [old EXCEPT !.place = location[b]]
               r == [Idle EXCEPT !.base = base, !.at = "done", !.answer = "ok"]
    <2>1. req' = [req EXCEPT ![s] = r]
      BY <1>3 DEF GetById
    <2>2. b \in Posts /\ old \in Bases /\ old # None /\ old.post = b
      BY <1>3, Request DEF RequestOK, Requests
    <2>3. /\ base \in Bases /\ base.post = b /\ base.name = old.name
          /\ base.version = old.version /\ base.place = location[b]
      BY <2>2, Tables DEF Bases
    <2>4. KnowsPost(s)
      BY Request DEF InOrder
    <2> HIDE DEF base, old
    <2>5. r \in Requests /\ RequestOK(r) /\ r.at = "done" /\ r.base = base /\ r.answer = "ok"
      BY <2>3 DEF Idle, Requests, RequestOK, Stages, Answers
    <2> HIDE DEF r
    <2>6. req'[s] = r
      BY <2>1, Tables
    <2>7. UNCHANGED <<post, location, version>>
      BY <1>0 DEF Nothing, posting
    <2>8. KnowsPost(s)'
      BY <2>2, <2>3, <2>4, <2>5, <2>6, <2>7 DEF KnowsPost, Exists, old
    <2>9. InOrder(s)'
      BY <2>5, <2>6, <2>8 DEF InOrder, HoldsPost, HoldsProfile, HasStored, Accepted
    <2> QED
      BY <1>0, <2>1, <2>5, <2>9, StepIsSound
  <1> QED
    BY <1>1, <1>2, <1>3 DEF GetById

LEMMA OwnerIsChecked ==
  ASSUME IInv, NEW s \in Slots, served' \in Nat, NEW next,
         \/ req[s].op = "update" /\ next = "exists"
         \/ req[s].op = "delete" /\ next = "delete",
         EnsureCallerOwnsBrewery(s, next)
  PROVE  IInv'
  <1> DEFINE r == [req[s] EXCEPT !.at = next]
  <1>1. CASE Refuse(s, "notFound") \/ Refuse(s, "forbidden")
    BY <1>1, RefuseIsSound DEF EnsureCallerOwnsBrewery, Answers
  <1>2. CASE Goto(s, next) /\ Nothing
    <2>1. next \in Plain
      BY DEF Plain, Stages
    <2>2. RequestOK(r)
      BY Request DEF EnsureCallerOwnsBrewery, RequestOK, Requests
    <2> QED
      BY <1>2, <2>1, <2>2, NothingHappens, GotoIsSound DEF EnsureCallerOwnsBrewery
  <1> QED
    BY <1>1, <1>2 DEF EnsureCallerOwnsBrewery

LEMMA CreateIsSound ==
  ASSUME IInv, NEW s \in Slots, served' \in Nat, CreateBrewery(s)
  PROVE  IInv'
  <1>1. CASE Refuse(s, "notFound") \/ Refuse(s, "error")
    BY <1>1, RefuseIsSound DEF CreateBrewery, Answers
  <1>2. CASE req[s].at = "user" /\ Goto(s, "insert") /\ Nothing
    <2>1. "insert" \in Plain
      BY DEF Plain, Stages
    <2>2. RequestOK([req[s] EXCEPT !.at = "insert"])
      BY <1>2, Request DEF RequestOK, Requests
    <2> QED
      BY <1>2, <2>1, <2>2, NothingHappens, GotoIsSound
  <1>3. CASE /\ req[s].at = "insert" /\ req[s].user \in users /\ Reply(s, "ok")
             /\ UNCHANGED <<users, picturing, lock>>
             /\ \E b \in Posts :
                  /\ ~Exists(b) /\ Free(b)
                  /\ post' = [post EXCEPT ![b] = [by |-> req[s].user, name |-> req[s].name,
                                                  version |-> version + 1]]
                  /\ location' = [location EXCEPT ![b] = req[s].place]
                  /\ version' = version + 1
    <2> DEFINE row == [by |-> req[s].user, name |-> req[s].name, version |-> version + 1]
    <2>1. PICK b \in Posts :
                  /\ ~Exists(b) /\ Free(b)
                  /\ post' = [post EXCEPT ![b] = row]
                  /\ location' = [location EXCEPT ![b] = req[s].place]
                  /\ version' = version + 1
      BY <1>3
    <2>2. /\ row \in Rows /\ row.by \in users /\ row.version = version + 1 /\ row # None
          /\ req[s].place \in Places
      BY <1>3, Request, Tables, NoneIsNothing DEF CreateBrewery, RequestOK, Rows
    <2> HIDE DEF row
    <2>3. Effects(s)
      BY <1>3, <2>1, <2>2, Tables
         DEF picturing, Effects, LockStep, PostStep, PictureStep, Open, Free
    <2>4. TablesHold
      BY Tables
    <2>5. TablesOK'
      <3>1. post' \in [Posts -> Rows \cup {None}] /\ version' \in Nat
        BY <2>1, <2>2, Tables
      <3>2. \A c \in Posts : Exists(c)' => post'[c].version <= version'
        <4>1. \A c \in Posts \ {b} : post'[c] = post[c]
          BY <2>1, Tables
        <4>2. post'[b].version = version'
          BY <2>1, <2>2, Tables
        <4>3. \A c \in Posts \ {b} : Exists(c) => post[c].version \in Nat /\ post[c].version <= version
          BY Tables DEF Rows
        <4> QED
          BY <2>1, <4>1, <4>2, <4>3, Tables DEF Exists
      <3>3. location' \in [Posts -> Places \cup {None}]
        BY <2>1, <2>2, Tables
      <3> QED
        BY <1>3, <3>1, <3>2, <3>3, Tables DEF picturing, TablesOK
    <2>6. ContentIsLinked'
      BY <1>3, <2>1, <2>2, <2>4, Tables DEF picturing, TablesHold, ContentIsLinked, Exists
    <2>7. OneOpenPeriod'
      BY <1>3, <2>4 DEF picturing, TablesHold, OneOpenPeriod, Open
    <2> QED
      BY <1>3, <2>3, <2>5, <2>6, <2>7, ReplyIsSound DEF TablesHold, Answers
  <1> QED
    BY <1>1, <1>2, <1>3 DEF CreateBrewery

(* The transaction of an update: a lock, a look for the location, a commit. *)
LEMMA GuardedUpdateIsSound ==
  ASSUME IInv, NEW s \in Slots, served' \in Nat, req[s].op = "update", GuardedUpdate(s)
  PROVE  IInv'
  <1> DEFINE b == req[s].post
             r == [req[s] EXCEPT !.at = "place"]
  <1>1. CASE Refuse(s, "conflict")
    BY <1>1, RefuseIsSound DEF GuardedUpdate, Answers
  <1>2. CASE ~Refuse(s, "conflict")
    <2>1. /\ req[s].at = "update" /\ Free(b) /\ Exists(b) /\ post[b].version = req[s].base.version
          /\ lock' = [lock EXCEPT ![b] = s] /\ UNCHANGED <<users, posting, picturing>>
          /\ req' = [req EXCEPT ![s] = r]
      BY <1>2 DEF GuardedUpdate, Goto
    <2>2. b \in Posts
      BY <2>1, Request DEF RequestOK
    <2>3. Effects(s) /\ TablesHold'
      BY <2>1, <2>2, LocksChange DEF Free
    <2>4. r \in Requests
      BY Request DEF Requests, Stages
    <2>5. /\ r.at = "place" /\ r.post = b /\ r.base = req[s].base /\ r.answer = req[s].answer
          /\ r.op = "update" /\ r.name = req[s].name
      BY Request DEF Requests
    <2>0. req[s].base # None /\ req[s].base.post = b /\ req[s].name \in Names
      BY <2>1, Request DEF RequestOK
    <2>10. RequestOK(r)
      BY <2>0, <2>2, <2>5 DEF RequestOK
    <2> HIDE DEF r
    <2>6. req'[s] = r /\ lock'[b] = s
      BY <2>1, <2>2, Tables
    <2>7. KnowsPost(s)' /\ Accepted(s)'
      BY <2>1, <2>3, <2>5, <2>6, Request, KnowledgeKept DEF Effects, InOrder, Accepted
    <2>8. HoldsPost(s)'
      BY <2>1, <2>5, <2>6 DEF posting, HoldsPost, Exists
    <2>9. InOrder(s)'
      BY <2>5, <2>6, <2>7, <2>8 DEF InOrder, HoldsProfile, HasStored
    <2> QED
      BY <2>1, <2>3, <2>4, <2>9, <2>10, StepIsSound
  <1> QED
    BY <1>1, <1>2

LEMMA PlaceIsSound ==
  ASSUME IInv, NEW s \in Slots, served' \in Nat, req[s].at = "place",
         Goto(s, "commit"), Nothing
  PROVE  IInv'
  <1> DEFINE r == [req[s] EXCEPT !.at = "commit"]
  <1>1. Effects(s) /\ TablesHold'
    BY NothingHappens
  <1>2. req' = [req EXCEPT ![s] = r]
    BY DEF Goto
  <1>3. r \in Requests /\ RequestOK(r)
    BY Request DEF Requests, RequestOK, Stages
  <1>4. r.at = "commit" /\ r.post = req[s].post /\ r.base = req[s].base /\ r.answer = req[s].answer
    BY Request DEF Requests
  <1> HIDE DEF r
  <1>5. req'[s] = r
    BY <1>2, Tables
  <1>6. KnowsPost(s)' /\ Accepted(s)'
    BY <1>1, <1>4, <1>5, Request, KnowledgeKept DEF Effects, InOrder, Accepted
  <1>7. HoldsPost(s)'
    BY <1>4, <1>5, Request DEF Nothing, posting, InOrder, HoldsPost, Exists
  <1>8. InOrder(s)'
    BY <1>4, <1>5, <1>6, <1>7 DEF InOrder, HoldsProfile, HasStored
  <1> QED
    BY <1>1, <1>2, <1>3, <1>8, StepIsSound

LEMMA CommitIsSound ==
  ASSUME IInv, NEW s \in Slots, served' \in Nat, req[s].op = "update", req[s].at = "commit",
         NEW b, b = req[s].post,
         post' = [post EXCEPT ![b].name = req[s].name, ![b].version = version + 1],
         location' = [location EXCEPT ![b] = req[s].place],
         version' = version + 1, Unlock(b), Goto(s, "readPost"), UNCHANGED <<users, picturing>>
  PROVE  IInv'
  <1>1. b \in Posts /\ req[s].name \in Names /\ req[s].place \in Places \cup {None}
    BY Request DEF RequestOK, Requests
  <1>2. lock[b] = s /\ Exists(b) /\ post[b] \in Rows
    BY <1>1, Request, Tables DEF InOrder, HoldsPost
  <1> DEFINE row == [post[b] EXCEPT !.name = req[s].name, !.version = version + 1]
  <1>3. post' = [post EXCEPT ![b] = row]
    BY <1>1, <1>2, Tables DEF Rows
  <1>4. row \in Rows /\ row.by = post[b].by /\ row.version = version + 1 /\ row # None
    BY <1>1, <1>2, Tables, NoneIsNothing DEF Rows
  <1> HIDE DEF row
  <1>5. lock' = [lock EXCEPT ![b] = None]
    BY DEF Unlock
  <1>6. Effects(s)
    BY <1>1, <1>2, <1>3, <1>4, <1>5, Tables
       DEF picturing, Effects, LockStep, PostStep, PictureStep, Open
  <1>7. TablesHold
    BY Tables
  <1>8. TablesOK'
    <2>0. version' \in Nat
      BY Tables
    <2>1. post' \in [Posts -> Rows \cup {None}]
      BY <1>3, <1>4, Tables
    <2>2. \A c \in Posts : Exists(c)' => post'[c].version <= version'
      <3>1. \A c \in Posts \ {b} : post'[c] = post[c]
        BY <1>3, Tables
      <3>2. post'[b].version = version'
        BY <1>1, <1>3, <1>4, Tables
      <3>3. \A c \in Posts \ {b} : Exists(c) => post[c].version \in Nat /\ post[c].version <= version
        BY Tables DEF Rows
      <3> QED
        BY <3>1, <3>2, <3>3, Tables DEF Exists
    <2>3. location' \in [Posts -> Places \cup {None}] /\ lock' \in [Posts \cup Users -> Slots \cup {None}]
      BY <1>1, <1>5, Tables
    <2> QED
      BY <2>0, <2>1, <2>2, <2>3, Tables DEF picturing, TablesOK
  <1>9. ContentIsLinked'
    BY <1>1, <1>2, <1>3, <1>4, <1>7, Tables DEF picturing, TablesHold, ContentIsLinked, Exists
  <1>10. OneOpenPeriod'
    BY <1>7 DEF picturing, TablesHold, OneOpenPeriod, Open
  <1>11. RequestOK([req[s] EXCEPT !.at = "readPost"])
    BY <1>1, Request DEF RequestOK, Requests
  <1>12. "readPost" \in Plain
    BY DEF Plain, Stages
  <1> QED
    BY <1>6, <1>8, <1>9, <1>10, <1>11, <1>12, GotoIsSound DEF TablesHold

LEMMA UpdateIsSound ==
  ASSUME IInv, NEW s \in Slots, served' \in Nat, UpdateBrewery(s)
  PROVE  IInv'
  <1> DEFINE b == req[s].post
  <1>0. req[s].op = "update"
    BY DEF UpdateBrewery
  <1>1. CASE EnsureCallerOwnsBrewery(s, "exists")
    BY <1>0, <1>1, OwnerIsChecked
  <1>2. CASE req[s].at = "exists" /\ Refuse(s, "notFound")
    BY <1>2, RefuseIsSound DEF Answers
  <1>3. CASE req[s].at = "exists" /\ Goto(s, "update") /\ Nothing
    <2>1. "update" \in Plain
      BY DEF Plain, Stages
    <2>2. RequestOK([req[s] EXCEPT !.at = "update"])
      BY <1>0, <1>3, Request DEF RequestOK, Requests
    <2> QED
      BY <1>3, <2>1, <2>2, NothingHappens, GotoIsSound
  <1>4. CASE GuardedUpdate(s)
    BY <1>0, <1>4, GuardedUpdateIsSound
  <1>5. CASE req[s].at \in {"place", "commit"} /\ Rollback(s, b)
    <2>1. lock[b] = s /\ b \in Posts
      BY <1>5, Request DEF InOrder, HoldsPost, RequestOK
    <2> QED
      BY <1>5, <2>1, RollbackIsSound
  <1>6. CASE req[s].at = "place" /\ Goto(s, "commit") /\ Nothing
    BY <1>6, PlaceIsSound
  <1>7. CASE req[s].at = "commit" /\ ~Rollback(s, b)
    BY <1>0, <1>7, CommitIsSound DEF UpdateBrewery, EnsureCallerOwnsBrewery, GuardedUpdate
  <1> QED
    BY <1>1, <1>2, <1>3, <1>4, <1>5, <1>6, <1>7 DEF UpdateBrewery

LEMMA DeleteIsSound ==
  ASSUME IInv, NEW s \in Slots, served' \in Nat, DeleteBrewery(s)
  PROVE  IInv'
  <1> DEFINE b == req[s].post
  <1>1. CASE EnsureCallerOwnsBrewery(s, "delete")
    BY <1>1, OwnerIsChecked DEF DeleteBrewery
  <1>2. CASE req[s].at = "delete" /\ Refuse(s, "notFound")
    BY <1>2, RefuseIsSound DEF Answers
  <1>3. CASE /\ req[s].at = "delete" /\ Free(b)
             /\ post' = [post EXCEPT ![b] = None]
             /\ location' = [location EXCEPT ![b] = None]
             /\ Reply(s, "ok")
             /\ UNCHANGED <<users, version, picturing, lock>>
    <2>1. b \in Posts
      BY <1>3, Request DEF RequestOK
    <2>2. Effects(s)
      BY <1>3, <2>1, Tables DEF picturing, Effects, LockStep, PostStep, PictureStep, Open, Free
    <2>3. TablesHold
      BY Tables
    <2>4. TablesOK'
      BY <1>3, <2>1, <2>3, Tables DEF picturing, TablesHold, TablesOK, Exists
    <2>5. ContentIsLinked'
      BY <1>3, <2>1, <2>3, Tables DEF picturing, TablesHold, ContentIsLinked, Exists
    <2>6. OneOpenPeriod'
      BY <1>3, <2>3 DEF picturing, TablesHold, OneOpenPeriod, Open
    <2> QED
      BY <1>3, <2>2, <2>4, <2>5, <2>6, ReplyIsSound DEF TablesHold, Answers
  <1> QED
    BY <1>1, <1>2, <1>3 DEF DeleteBrewery

-----------------------------------------------------------------------------
(* Photos and avatars.                                                     *)

(* The request goes on, and what it has stored is there. *)
LEMMA UploadGoesOn ==
  ASSUME IInv, NEW s \in Slots, Effects(s), TablesHold', served' \in Nat,
         req[s].at \in {"object", "photo", "profile"}, NEW stage \in {"photo", "profile", "lock"},
         Goto(s, stage),
         stage = "photo" => req[s].photo \in objects',
         stage # "photo" => [id |-> req[s].photo, by |-> req[s].user] \in photos'
  PROVE  IInv'
  <1> DEFINE r == [req[s] EXCEPT !.at = stage]
  <1>1. req' = [req EXCEPT ![s] = r]
    BY DEF Goto
  <1>2. r \in Requests
    BY Request DEF Requests, Stages
  <1>3. /\ r.at = stage /\ r.base = req[s].base /\ r.answer = req[s].answer
        /\ r.user = req[s].user /\ r.photo = req[s].photo
    BY Request DEF Requests
  <1>4. RequestOK(r)
    BY Request DEF Requests, RequestOK
  <1> HIDE DEF r
  <1>5. req'[s] = r
    BY <1>1, Tables
  <1>6. KnowsPost(s)' /\ Accepted(s)'
    BY <1>3, <1>5, Request, KnowledgeKept DEF Effects, InOrder, Accepted
  <1>7. HasStored(s)'
    BY <1>3, <1>5 DEF HasStored
  <1>8. InOrder(s)'
    BY <1>3, <1>5, <1>6, <1>7 DEF InOrder, HoldsPost, HoldsProfile
  <1> QED
    BY <1>1, <1>2, <1>4, <1>8, StepIsSound

LEMMA UploadIsSound ==
  ASSUME IInv, NEW s \in Slots, served' \in Nat, UploadPhoto(s)
  PROVE  IInv'
  <1> DEFINE photo == [id |-> req[s].photo, by |-> req[s].user]
  <1>0. TablesHold
    BY Tables
  <1>1. CASE Refuse(s, "error")
    BY <1>1, RefuseIsSound DEF UploadPhoto, Answers
  <1>2. CASE req[s].at = "object" /\ ~Refuse(s, "error")
    <2>1. /\ objects' = objects \cup {req[s].photo} /\ Goto(s, "photo")
          /\ UNCHANGED <<users, posting, photos, avatars, lock>>
      BY <1>2 DEF UploadPhoto
    <2>2. req[s].photo \in Nat
      BY <1>2, Request DEF RequestOK
    <2>3. Effects(s)
      BY <2>1, Tables DEF posting, Effects, LockStep, PostStep, PictureStep, Open
    <2>4. TablesHold'
      BY <1>0, <2>1, <2>2 DEF posting, TablesHold, TablesOK, ContentIsLinked,
                              OneOpenPeriod, Open, Exists
    <2> QED
      BY <1>2, <2>1, <2>3, <2>4, UploadGoesOn
  <1>3. CASE req[s].at = "photo" /\ ~Refuse(s, "error")
    <2>1. /\ req[s].user \in users /\ photos' = photos \cup {photo} /\ Goto(s, "profile")
          /\ UNCHANGED <<users, posting, objects, avatars, lock>>
      BY <1>3 DEF UploadPhoto
    <2>2. req[s].photo \in Nat /\ req[s].photo \in objects
      BY <1>3, Request DEF RequestOK, InOrder, HasStored
    <2>3. photo \in [id : Nat, by : Users] /\ photo.by \in users /\ photo.id \in objects
      BY <2>1, <2>2, Tables
    <2> HIDE DEF photo
    <2>4. Effects(s)
      BY <2>1, Tables DEF posting, Effects, LockStep, PostStep, PictureStep, Open
    <2>5. TablesHold'
      BY <1>0, <2>1, <2>3 DEF posting, TablesHold, TablesOK, ContentIsLinked,
                              OneOpenPeriod, Open, Exists
    <2> QED
      BY <1>3, <2>1, <2>4, <2>5, UploadGoesOn DEF photo
  <1> QED
    BY <1>1, <1>2, <1>3 DEF UploadPhoto

LEMMA LockProfileIsSound ==
  ASSUME IInv, NEW s \in Slots, served' \in Nat, LockProfile(s)
  PROVE  IInv'
  <1> DEFINE u == req[s].user
             r == [req[s] EXCEPT !.at = "changedAt"]
  <1>1. /\ req[s].at = "lock" /\ Free(u) /\ lock' = [lock EXCEPT ![u] = s]
        /\ UNCHANGED <<users, posting, picturing>> /\ req' = [req EXCEPT ![s] = r]
    BY DEF LockProfile, Goto
  <1>2. u \in Users
    BY <1>1, Request DEF RequestOK
  <1>3. Effects(s) /\ TablesHold'
    BY <1>1, <1>2, LocksChange DEF Free
  <1>4. r \in Requests
    BY Request DEF Requests, Stages
  <1>5. /\ r.at = "changedAt" /\ r.user = u /\ r.photo = req[s].photo
        /\ r.base = req[s].base /\ r.answer = req[s].answer
    BY Request DEF Requests
  <1>6. RequestOK(r)
    BY <1>1, Request DEF Requests, RequestOK
  <1> HIDE DEF r
  <1>7. req'[s] = r /\ lock'[u] = s
    BY <1>1, <1>2, Tables
  <1>8. KnowsPost(s)' /\ Accepted(s)'
    BY <1>1, <1>3, <1>5, <1>7, Request, KnowledgeKept DEF Effects, InOrder, Accepted
  <1>9. HasStored(s)' /\ HoldsProfile(s)' /\ HoldsPost(s)'
    BY <1>1, <1>5, <1>7, Request DEF picturing, InOrder, HasStored, HoldsProfile, HoldsPost
  <1>10. InOrder(s)'
    BY <1>8, <1>9 DEF InOrder
  <1> QED
    BY <1>1, <1>3, <1>4, <1>6, <1>10, StepIsSound

(* @ChangedAt is later than the beginning of the one period that is open. *)
LEMMA TimeIsSound ==
  ASSUME IInv, NEW s \in Slots, served' \in Nat, req[s].at = "changedAt",
         NEW clock \in 0..MaxTime, Nothing,
         req' = [req EXCEPT
           ![s].from = IF \A a \in Open(req[s].user) : clock > a.from
                       THEN clock
                       ELSE (CHOOSE a \in Open(req[s].user) : TRUE).from + 1,
           ![s].at = "save"]
  PROVE  IInv'
  <1> DEFINE u == req[s].user
             from == IF \A a \in Open(u) : clock > a.from
                     THEN clock
                     ELSE (CHOOSE a \in Open(u) : TRUE).from + 1
             r == [req[s] EXCEPT !.from = from, !.at = "save"]
  <1>0. u \in Users /\ Effects(s) /\ TablesHold'
    BY NothingHappens, Request DEF RequestOK
  <1>1. \A a \in Open(u) : a.from \in Nat
    BY Tables DEF Open
  <1>2. from \in Nat /\ \A a \in Open(u) : from > a.from
    <2>1. CASE \A a \in Open(u) : clock > a.from
      BY <2>1
    <2>2. CASE ~\A a \in Open(u) : clock > a.from
      <3>1. PICK a \in Open(u) : ~(clock > a.from)
        BY <2>2
      <3>2. (CHOOSE c \in Open(u) : TRUE) = a /\ \A c \in Open(u) : c = a
        BY <1>0, <3>1, Tables DEF TablesHold, OneOpenPeriod
      <3>3. from = a.from + 1
        BY <2>2, <3>2
      <3> QED
        BY <1>1, <3>1, <3>2, <3>3
    <2> QED
      BY <2>1, <2>2
  <1> HIDE DEF from
  <1>3. req' = [req EXCEPT ![s] = r]
    BY Request DEF Requests, from
  <1>12. "save" \in Stages
    BY DEF Stages
  <1>4. r \in Requests
    BY <1>2, <1>12, Request DEF Requests
  <1>5. /\ r.at = "save" /\ r.user = u /\ r.photo = req[s].photo /\ r.from = from
        /\ r.base = req[s].base /\ r.answer = req[s].answer
    BY Request DEF Requests
  <1>6. RequestOK(r)
    BY <1>2, Request DEF Requests, RequestOK
  <1> HIDE DEF r
  <1>7. req'[s] = r
    BY <1>3, Tables
  <1>8. KnowsPost(s)' /\ Accepted(s)'
    BY <1>0, <1>5, <1>7, Request, KnowledgeKept DEF Effects, InOrder, Accepted
  <1>13. [id |-> req[s].photo, by |-> u] \in photos'
    BY Request DEF InOrder, HasStored, Nothing, picturing
  <1>9. HasStored(s)' /\ HoldsPost(s)'
    <2>1. HoldsPost(s)'
      BY <1>5, <1>7 DEF HoldsPost
    <2>2. HasStored(s)'
      BY <1>5, <1>7, <1>13 DEF HasStored
    <2> QED
      BY <2>1, <2>2
  <1>10. HoldsProfile(s)'
    BY <1>2, <1>5, <1>7, Request DEF Nothing, picturing, InOrder, HoldsProfile, Open
  <1>11. InOrder(s)'
    BY <1>8, <1>9, <1>10 DEF InOrder
  <1> QED
    BY <1>0, <1>3, <1>4, <1>6, <1>11, StepIsSound

LEMMA ReplaceIsSound ==
  ASSUME IInv, NEW s \in Slots, served' \in Nat, req[s].at = "save",
         NEW u, u = req[s].user, NEW now, now = req[s].from,
         avatars' = {IF a \in Open(u) THEN [a EXCEPT !.to = now] ELSE a : a \in avatars}
                      \cup {[user |-> u, photo |-> req[s].photo, from |-> now, to |-> None]},
         Reply(s, "ok"), Unlock(u), UNCHANGED <<users, posting, objects, photos>>
  PROVE  IInv'
  <1> DEFINE Closed(a) == [a EXCEPT !.to = now]
             new == [user |-> u, photo |-> req[s].photo, from |-> now, to |-> None]
  <1>1. u \in Users /\ req[s].photo \in Nat /\ now \in Nat /\ now # None /\ lock[u] = s
    BY Request, NoneIsNothing DEF RequestOK, InOrder, HoldsProfile
  <1>2. [id |-> req[s].photo, by |-> u] \in photos
    BY Request DEF InOrder, HasStored
  <1>3. TablesHold
    BY Tables
  <1>4. \A a \in avatars : /\ Closed(a) \in [user : Users, photo : Nat, from : Nat, to : Nat \cup {None}]
                           /\ Closed(a).user = a.user /\ Closed(a).photo = a.photo
                           /\ Closed(a).to = now
    BY <1>1, Tables
  <1>5. /\ new \in [user : Users, photo : Nat, from : Nat, to : Nat \cup {None}]
        /\ new.user = u /\ new.photo = req[s].photo /\ new.to = None
    BY <1>1
  <1>6. avatars' = {IF a \in Open(u) THEN Closed(a) ELSE a : a \in avatars} \cup {new}
    OBVIOUS
  <1> HIDE DEF Closed, new
  <1>7. \A a \in avatars' : \/ a = new
                            \/ a \in avatars /\ a \notin Open(u)
                            \/ \E c \in avatars : a = Closed(c)
    BY <1>6
  <1>8. lock' = [lock EXCEPT ![u] = None]
    BY DEF Unlock
  <1>9. \A v \in Users \ {u} : Open(v)' = Open(v)
    <2> SUFFICES ASSUME NEW v \in Users \ {u}, NEW a PROVE a \in Open(v)' <=> a \in Open(v)
      OBVIOUS
    <2>1. ASSUME a \in Open(v)' PROVE a \in Open(v)
      BY <1>1, <1>4, <1>5, <1>7, <2>1 DEF Open
    <2>2. ASSUME a \in Open(v) PROVE a \in Open(v)'
      BY <1>6, <2>2 DEF Open
    <2> QED
      BY <2>1, <2>2
  <1>10. \A a \in Open(u)' : a = new
    BY <1>1, <1>4, <1>7 DEF Open
  <1>11. Effects(s)
    BY <1>1, <1>8, <1>9, Tables DEF posting, Effects, LockStep, PostStep, PictureStep
  <1>12. TablesOK'
    BY <1>3, <1>4, <1>5, <1>7, <1>8, Tables DEF posting, TablesHold, TablesOK, Exists
  <1>13. ContentIsLinked'
    <2>1. \A a \in avatars' : a.user \in users /\ \E p \in photos : p.id = a.photo
      <3>1. u \in users
        BY <1>2, <1>3 DEF TablesHold, ContentIsLinked
      <3> QED
        BY <1>2, <1>3, <1>4, <1>5, <1>7, <3>1 DEF TablesHold, ContentIsLinked
    <2> QED
      BY <1>3, <2>1 DEF posting, TablesHold, ContentIsLinked, Exists
  <1>14. OneOpenPeriod'
    BY <1>3, <1>9, <1>10 DEF TablesHold, OneOpenPeriod
  <1> QED
    BY <1>11, <1>12, <1>13, <1>14, ReplyIsSound DEF TablesHold, Answers

LEMMA SaveAvatarIsSound ==
  ASSUME IInv, NEW s \in Slots, served' \in Nat, SaveAvatar(s)
  PROVE  IInv'
  <1> DEFINE u == req[s].user
             now == req[s].from
  <1>1. CASE LockProfile(s)
    BY <1>1, LockProfileIsSound
  <1>2. CASE req[s].at \in {"changedAt", "save"} /\ Rollback(s, u)
    <2>1. lock[u] = s /\ u \in Users
      BY <1>2, Request DEF InOrder, HoldsProfile, RequestOK
    <2> QED
      BY <1>2, <2>1, RollbackIsSound
  <1>3. CASE /\ req[s].at = "changedAt" /\ Nothing
             /\ \E clock \in 0..MaxTime :
                  req' = [req EXCEPT
                    ![s].from = IF \A a \in Open(u) : clock > a.from
                                THEN clock
                                ELSE (CHOOSE a \in Open(u) : TRUE).from + 1,
                    ![s].at = "save"]
    BY <1>3, TimeIsSound
  <1>4. CASE req[s].at = "save" /\ ~Rollback(s, u)
    <2>1. \A a \in Open(u) : now > a.from
      BY <1>4, Request DEF InOrder, HoldsProfile
    <2>2. /\ avatars' = {IF a \in Open(u) THEN [a EXCEPT !.to = now] ELSE a : a \in avatars}
                          \cup {[user |-> u, photo |-> req[s].photo, from |-> now, to |-> None]}
          /\ Reply(s, "ok") /\ Unlock(u) /\ UNCHANGED <<users, posting, objects, photos>>
      BY <1>4, <2>1 DEF SaveAvatar, LockProfile
    <2> QED
      BY <1>4, <2>2, ReplaceIsSound
  <1> QED
    BY <1>1, <1>2, <1>3, <1>4 DEF SaveAvatar

LEMMA AvatarIsSound ==
  ASSUME IInv, NEW s \in Slots, served' \in Nat, UploadAvatar(s)
  PROVE  IInv'
  <1>1. CASE UploadPhoto(s)
    BY <1>1, UploadIsSound
  <1>2. CASE SaveAvatar(s)
    BY <1>2, SaveAvatarIsSound
  <1>3. CASE req[s].at = "profile" /\ Refuse(s, "notFound")
    BY <1>3, RefuseIsSound DEF Answers
  <1>4. CASE req[s].at = "profile" /\ Goto(s, "lock") /\ Nothing
    <2>1. [id |-> req[s].photo, by |-> req[s].user] \in photos
      BY <1>4, Request DEF InOrder, HasStored
    <2>2. Effects(s) /\ TablesHold' /\ UNCHANGED photos
      BY <1>4, NothingHappens DEF Nothing, picturing
    <2> QED
      BY <1>4, <2>1, <2>2, UploadGoesOn
  <1> QED
    BY <1>1, <1>2, <1>3, <1>4 DEF UploadAvatar

(* The keys keep the user of a post or of a photo. *)
LEMMA DeleteAccountIsSound ==
  ASSUME IInv, NEW s \in Slots, served' \in Nat, DeleteAccount(s)
  PROVE  IInv'
  <1> DEFINE u == req[s].user
  <1>1. CASE Refuse(s, "error")
    BY <1>1, RefuseIsSound DEF DeleteAccount, Answers
  <1>2. CASE ~Refuse(s, "error")
    <2>1. /\ req[s].at = "user" /\ Free(u) /\ u \in users
          /\ \A b \in Posts : Exists(b) => post[b].by # u
          /\ \A p \in photos : p.by # u
          /\ users' = users \ {u} /\ avatars' = {a \in avatars : a.user # u}
          /\ Reply(s, "ok") /\ UNCHANGED <<posting, objects, photos, lock>>
      BY <1>2 DEF DeleteAccount
    <2>2. TablesHold /\ u \in Users
      BY <2>1, Tables
    <2>3. Effects(s)
      BY <2>1, <2>2, Tables DEF posting, Effects, LockStep, PostStep, PictureStep, Open, Free
    <2>4. TablesOK' /\ ContentIsLinked' /\ OneOpenPeriod'
      BY <2>1, <2>2 DEF posting, TablesHold, TablesOK, ContentIsLinked, OneOpenPeriod, Open, Exists
    <2> QED
      BY <2>1, <2>3, <2>4, ReplyIsSound DEF TablesHold, Answers
  <1> QED
    BY <1>1, <1>2

-----------------------------------------------------------------------------

(* What a client sends. *)
LEMMA InputInOrder ==
  ASSUME IInv, served \in Nat, NEW s \in Slots, req[s].at = "idle", NEW r \in Inputs(s)
  PROVE  /\ r \in Requests /\ RequestOK(r) /\ r.base = req[s].base /\ r.answer = None
         /\ r.at \in {"readPost", "user", "owner", "object"}
  <1> DEFINE base == req[s].base
             Ask(op, at, u, b, n, l, photo) ==
               [op |-> op, user |-> u, post |-> b, name |-> n, place |-> l, base |-> base,
                photo |-> photo, from |-> None, at |-> at, answer |-> None]
  <1>1. base \in Bases \cup {None}
    BY Request DEF Requests
  <1>2. ASSUME NEW op \in Operations, NEW at \in {"readPost", "user", "owner", "object"},
               NEW u \in Users \cup {None}, NEW b \in Posts \cup {None},
               NEW n \in Names \cup {None}, NEW l \in Places \cup {None},
               NEW photo \in Nat \cup {None}, r = Ask(op, at, u, b, n, l, photo),
               at \in {"readPost", "owner"} => b \in Posts,
               at \in {"user", "object"} => u \in Users,
               op \in {"create", "update"} => n \in Names,
               op = "create" => l \in Places,
               op = "update" => base # None /\ base.post = b,
               at = "object" => photo \in Nat
        PROVE  /\ r \in Requests /\ RequestOK(r) /\ r.base = req[s].base /\ r.answer = None
               /\ r.at \in {"readPost", "user", "owner", "object"}
    <2>1. r \in Requests
      BY <1>1, <1>2 DEF Requests, Stages
    <2>2. RequestOK(r)
      BY <1>1, <1>2 DEF RequestOK
    <2> QED
      BY <1>2, <2>1, <2>2
  <1> HIDE DEF Ask
  <1>3. CASE r \in {Ask("get", "readPost", None, b, None, None, None) : b \in Posts}
    BY <1>2, <1>3 DEF Operations
  <1>4. CASE r \in {Ask("create", "user", u, None, n, l, None) :
                      u \in Users, n \in Names, l \in Places}
    BY <1>2, <1>4 DEF Operations
  <1>5. CASE r \in {Ask("update", "owner", u, base.post, n, l, None) :
                      u \in {w \in Users : base # None}, n \in Names, l \in Places \cup {None}}
    <2>1. base # None /\ base.post \in Posts
      BY <1>1, <1>5 DEF Bases
    <2> QED
      BY <1>2, <1>5, <2>1 DEF Operations
  <1>6. CASE r \in {Ask("delete", "owner", u, b, None, None, None) :
                      u \in Users, b \in {c \in Posts : Exists(c)}}
    BY <1>2, <1>6 DEF Operations
  <1>7. CASE r \in {Ask("avatar", "object", u, None, None, None, served + 1) : u \in Users}
    BY <1>2, <1>7 DEF Operations
  <1>8. CASE r \in {Ask("deleteAccount", "user", u, None, None, None, None) : u \in Users}
    BY <1>2, <1>8 DEF Operations
  <1> QED
    BY <1>3, <1>4, <1>5, <1>6, <1>7, <1>8 DEF Inputs, Ask

LEMMA NextIsSound ==
  ASSUME IInv, [Next]_vars
  PROVE  IInv'
  <1>0. served \in Nat
    BY DEF IInv, ContentTypeOK
  <1>1. CASE UNCHANGED vars
    <2>1. IInv
      OBVIOUS
    <2> QED
      BY <1>1, <2>1 DEF vars, posting, picturing, IInv, ContentTypeOK, TablesOK, ContentIsLinked,
         OneOpenPeriod, InOrder, HoldsPost, HoldsProfile, HasStored, KnowsPost, Accepted,
         Open, Exists
  <1>2. CASE \E s \in Slots : Send(s)
    <2>0. PICK s \in Slots : Send(s)
      BY <1>2
    <2>1. PICK r \in Inputs(s) :
            /\ req[s].at = "idle" /\ req' = [req EXCEPT ![s] = r]
            /\ served' = served + 1 /\ Nothing
      BY <2>0 DEF Send, Nothing
    <2>2. /\ r \in Requests /\ RequestOK(r) /\ r.base = req[s].base /\ r.answer = None
          /\ r.at \in {"readPost", "user", "owner", "object"}
      BY <1>0, <2>1, InputInOrder
    <2>3. r.at \in Plain
      BY <2>2 DEF Plain, Stages
    <2>4. Effects(s) /\ TablesHold' /\ req'[s] = r
      BY <2>1, NothingHappens, Tables
    <2>5. InOrder(s)'
      BY <2>1, <2>2, <2>3, <2>4, PlainInOrder, NoneIsNothing DEF Answers
    <2>6. served' \in Nat
      BY <1>0, <2>1
    <2> QED
      BY <2>1, <2>2, <2>4, <2>5, <2>6, StepIsSound
  <1>3. CASE \E s \in Slots : Finish(s)
    <2>1. PICK s \in Slots : Finish(s)
      BY <1>3
    <2> DEFINE r == [Idle EXCEPT !.base = req[s].base]
    <2>2. req' = [req EXCEPT ![s] = r] /\ Nothing /\ served' = served /\ req[s].at = "done"
      BY <2>1 DEF Finish, Nothing
    <2>3. r \in Requests /\ RequestOK(r) /\ r.base = req[s].base /\ r.answer = None /\ r.at = "idle"
      BY Request DEF Idle, Requests, RequestOK, Stages
    <2> HIDE DEF r
    <2>4. r.at \in Plain
      BY <2>3 DEF Plain, Stages
    <2>5. Effects(s) /\ TablesHold' /\ req'[s] = r
      BY <2>2, NothingHappens, Tables
    <2>6. InOrder(s)'
      BY <2>2, <2>3, <2>4, <2>5, PlainInOrder, NoneIsNothing DEF Answers
    <2> QED
      BY <1>0, <2>2, <2>3, <2>5, <2>6, StepIsSound
  <1>4. CASE \E s \in Slots : HandlerStep(s)
    BY <1>0, <1>4, GetByIdIsSound, CreateIsSound, UpdateIsSound, DeleteIsSound, AvatarIsSound,
       DeleteAccountIsSound DEF HandlerStep
  <1> QED
    BY <1>1, <1>2, <1>3, <1>4 DEF Next

LEMMA InitIsSound == Init => IInv
  <1> SUFFICES ASSUME Init PROVE IInv
    OBVIOUS
  <1>1. PICK owners \in SUBSET Users :
          /\ photos = {[id |-> 0, by |-> u] : u \in owners}
          /\ avatars = {[user |-> u, photo |-> 0, from |-> 0, to |-> None] : u \in owners}
    BY DEF Init
  <1>2. TablesOK
    <2>1. post \in [Posts -> Rows \cup {None}] /\ version = 0
      BY DEF Init, Rows
    <2>2. \A b \in Posts : Exists(b) => post[b].version = 0
      BY DEF Init, Exists
    <2>3. /\ photos \subseteq [id : Nat, by : Users] /\ objects \subseteq Nat
          /\ avatars \subseteq [user : Users, photo : Nat, from : Nat, to : Nat \cup {None}]
      BY <1>1 DEF Init
    <2> QED
      BY <2>1, <2>2, <2>3 DEF Init, TablesOK
  <1>3. ContentIsLinked
    <2>1. \A b \in Posts : Exists(b) => post[b].by \in users
      BY DEF Init, Exists
    <2>2. \A p \in photos : p.by \in users /\ p.id \in objects
      BY <1>1 DEF Init
    <2>3. ASSUME NEW a \in avatars
          PROVE  a.user \in users /\ \E p \in photos : p.id = a.photo
      <3>1. PICK u \in owners : a = [user |-> u, photo |-> 0, from |-> 0, to |-> None]
        BY <1>1
      <3>2. [id |-> 0, by |-> u] \in photos /\ u \in users
        BY <1>1 DEF Init
      <3> QED
        BY <3>1, <3>2
    <2> QED
      BY <2>1, <2>2, <2>3 DEF Init, ContentIsLinked
  <1>4. OneOpenPeriod
    BY <1>1 DEF OneOpenPeriod, Open
  <1>5. \A s \in Slots : req[s] = Idle
    BY DEF Init
  <1>6. Idle \in Requests /\ RequestOK(Idle)
    BY DEF Idle, Requests, RequestOK, Stages
  <1>7. \A s \in Slots : InOrder(s)
    BY <1>5, NoneIsNothing DEF Idle, InOrder, HoldsPost, HoldsProfile, HasStored, KnowsPost,
       Accepted, Answers
  <1> QED
    BY <1>2, <1>3, <1>4, <1>5, <1>6, <1>7 DEF Init, IInv, ContentTypeOK

LEMMA Invariance == Spec => []IInv
  <1>1. IInv /\ [Next]_vars => IInv'
    BY NextIsSound
  <1> QED
    BY <1>1, InitIsSound, PTL DEF Spec

(* The tables and the requests stay well formed.                           *)
THEOREM ContentTypeCorrect == Spec => []ContentTypeOK
  <1>1. IInv => ContentTypeOK
    BY DEF IInv
  <1> QED
    BY <1>1, Invariance, PTL

(* Posts, locations, photos and avatars refer to what is there, whichever  *)
(* statements failed and whichever accounts were deleted in between.       *)
THEOREM LinksHold == Spec => []ContentIsLinked
  <1>1. IInv => ContentIsLinked
    BY DEF IInv
  <1> QED
    BY <1>1, Invariance, PTL

(* The lock on the profile lets no replacement of an avatar run into the   *)
(* constraint on its periods, whatever the clock says.                     *)
THEOREM ReplacementsHold == Spec => []ReplacementsSucceed
  <1>1. IInv => ReplacementsSucceed
    BY DEF IInv, InOrder, Accepted, ReplacementsSucceed
  <1> QED
    BY <1>1, Invariance, PTL

(* A change is committed only over the name and the location its author    *)
(* has read, though the version belongs to the post alone.                 *)
THEOREM UpdatesHold == Spec => NoLostUpdate
  <1>1. IInv /\ [Next]_vars =>
          [\A s \in Slots :
             req[s].at = "commit" /\ req'[s].at = "readPost" => HasReadPost(s)]_vars
    <2> SUFFICES ASSUME IInv, NEW s \in Slots, req[s].at = "commit" PROVE HasReadPost(s)
      OBVIOUS
    <2>1. req[s].base # None /\ req[s].base.post = req[s].post
      BY Request DEF RequestOK
    <2>2. Exists(req[s].post) /\ post[req[s].post].version = req[s].base.version
      BY Request DEF InOrder, HoldsPost
    <2> QED
      BY <2>1, <2>2, Request DEF InOrder, KnowsPost, HasReadPost
  <1> QED
    BY <1>1, Invariance, PTL DEF Spec, NoLostUpdate

-----------------------------------------------------------------------------
(* The periods of an avatar.                                               *)

Replaced(u, now, new) ==
  {IF a \in Open(u) THEN [a EXCEPT !.to = now] ELSE a : a \in avatars} \cup {new}

AvatarStep ==
  \/ UNCHANGED avatars
  \/ \E u \in Users : avatars' = {a \in avatars : a.user # u}
  \/ \E u \in Users, photo \in Nat, now \in Nat :
       /\ \A a \in Open(u) : now > a.from
       /\ avatars' = Replaced(u, now, [user |-> u, photo |-> photo, from |-> now, to |-> None])

LEMMA AvatarSteps ==
  ASSUME IInv, [Next]_vars
  PROVE  AvatarStep
  <1> SUFFICES ASSUME ~UNCHANGED avatars PROVE AvatarStep
    BY DEF AvatarStep
  <1>1. PICK s \in Slots : HandlerStep(s)
    BY DEF Next, vars, picturing, Send, Finish
  <1>2. CASE DeleteAccount(s)
    BY <1>2, Request DEF DeleteAccount, Refuse, Nothing, picturing, RequestOK, AvatarStep
  <1>3. CASE UploadAvatar(s)
    <2>1. SaveAvatar(s)
      BY <1>3 DEF UploadAvatar, UploadPhoto, Refuse, Nothing, picturing
    <2> DEFINE u == req[s].user
               now == req[s].from
    <2>2. /\ req[s].at = "save" /\ \A a \in Open(u) : now > a.from
          /\ avatars' = Replaced(u, now, [user |-> u, photo |-> req[s].photo,
                                          from |-> now, to |-> None])
      BY <2>1 DEF SaveAvatar, LockProfile, Rollback, Nothing, picturing, Replaced
    <2>3. u \in Users /\ req[s].photo \in Nat /\ now \in Nat
      BY <2>2, Request DEF RequestOK
    <2> QED
      BY <2>2, <2>3 DEF AvatarStep
  <1> QED
    BY <1>1, <1>2, <1>3 DEF HandlerStep, GetById, CreateBrewery, UpdateBrewery, DeleteBrewery,
       EnsureCallerOwnsBrewery, GuardedUpdate, Rollback, Refuse, Nothing, picturing

(* A profile that has had an avatar has one. *)
StillOpen == \A a \in avatars : Open(a.user) # {}

LEMMA PeriodsFollow ==
  ASSUME IInv, AvatarPeriods, StillOpen, NEW u \in Users, NEW photo \in Nat, NEW now \in Nat,
         \A a \in Open(u) : now > a.from,
         avatars' = Replaced(u, now, [user |-> u, photo |-> photo, from |-> now, to |-> None])
  PROVE  AvatarPeriods' /\ StillOpen'
  <1> DEFINE Closed(a) == [a EXCEPT !.to = now]
             new == [user |-> u, photo |-> photo, from |-> now, to |-> None]
             Periods == [user : Users, photo : Nat, from : Nat, to : Nat \cup {None}]
  <1>1. avatars \subseteq Periods /\ \A a, b \in Open(u) : a = b
    BY Tables DEF TablesHold, OneOpenPeriod
  <1>2. \A a \in Periods : /\ Closed(a).user = a.user /\ Closed(a).from = a.from
                           /\ Closed(a).to = now
    OBVIOUS
  <1>3. new.user = u /\ new.from = now /\ new.to = None
    OBVIOUS
  <1>4. avatars' = {IF a \in Open(u) THEN Closed(a) ELSE a : a \in avatars} \cup {new}
    BY DEF Replaced
  <1> HIDE DEF Closed, new
  (* What was open ends now, and everything else had ended before. *)
  <1>5. \A a \in avatars' : a = new \/ a \in avatars \ Open(u) \/ \E c \in Open(u) : a = Closed(c)
    BY <1>4
  <1>6. \A a \in avatars \ Open(u) : a.user = u =>
          a.to \in Nat /\ a.to <= now /\ \A c \in Open(u) : a.to <= c.from
    <2> SUFFICES ASSUME NEW a \in avatars \ Open(u), a.user = u
                 PROVE  a.to \in Nat /\ a.to <= now /\ \A c \in Open(u) : a.to <= c.from
      OBVIOUS
    <2>1. a.to \in Nat /\ a.to # None
      BY <1>1 DEF Open
    <2>2. ASSUME NEW c \in Open(u) PROVE a.to <= c.from /\ c.from \in Nat
      <3>1. c \in avatars /\ c.user = u /\ c.to = None /\ a # c
        BY DEF Open
      <3> QED
        BY <1>1, <3>1 DEF AvatarPeriods
    <2>3. PICK c \in Open(u) : TRUE
      BY DEF StillOpen
    <2> QED
      BY <2>1, <2>2, <2>3
  <1>7. \A c \in Open(u) : c \in avatars /\ c \in Periods /\ c.user = u /\ c.from < now
    BY <1>1 DEF Open
  <1>8. AvatarPeriods'
    <2> SUFFICES ASSUME NEW a \in avatars', NEW b \in avatars', a.user = b.user, a # b
                 PROVE  \/ a.to # None /\ a.to <= b.from
                        \/ b.to # None /\ b.to <= a.from
      BY DEF AvatarPeriods
    <2>1. CASE a = new \/ b = new
      BY <1>2, <1>3, <1>5, <1>6, <1>7, <2>1, NoneIsNothing
    <2>2. CASE a \in avatars \ Open(u) /\ b \in avatars \ Open(u)
      BY <2>2 DEF AvatarPeriods
    <2>3. CASE a \in avatars \ Open(u) /\ \E c \in Open(u) : b = Closed(c)
      BY <1>2, <1>6, <1>7, <2>3, NoneIsNothing
    <2>4. CASE b \in avatars \ Open(u) /\ \E c \in Open(u) : a = Closed(c)
      BY <1>2, <1>6, <1>7, <2>4, NoneIsNothing
    <2>5. CASE (\E c \in Open(u) : a = Closed(c)) /\ (\E c \in Open(u) : b = Closed(c))
      BY <1>1, <2>5
    <2> QED
      BY <1>5, <2>1, <2>2, <2>3, <2>4, <2>5
  <1>9. StillOpen'
    <2> SUFFICES ASSUME NEW a \in avatars' PROVE Open(a.user)' # {}
      BY DEF StillOpen
    <2>1. CASE a.user = u
      BY <1>3, <1>4, <2>1 DEF Open
    <2>2. CASE a.user # u
      <3>1. a \in avatars
        BY <1>2, <1>3, <1>5, <1>7, <2>2
      <3>2. PICK c \in avatars : c.user = a.user /\ c.to = None
        BY <3>1 DEF StillOpen, Open
      <3>3. c \in avatars'
        BY <1>4, <2>2, <3>2 DEF Open
      <3> QED
        BY <3>2, <3>3 DEF Open
    <2> QED
      BY <2>1, <2>2
  <1> QED
    BY <1>8, <1>9

(* The periods of a profile neither overlap nor leave two of them open,    *)
(* however many replacements run at once.                                  *)
THEOREM PeriodsHold == Spec => []AvatarPeriods
  <1>1. Init => AvatarPeriods /\ StillOpen
    BY DEF Init, AvatarPeriods, StillOpen, Open
  <1>2. IInv /\ AvatarPeriods /\ StillOpen /\ [Next]_vars => AvatarPeriods' /\ StillOpen'
    <2> SUFFICES ASSUME IInv, AvatarPeriods, StillOpen, [Next]_vars
                 PROVE  AvatarPeriods' /\ StillOpen'
      OBVIOUS
    <2>1. CASE UNCHANGED avatars
      BY <2>1 DEF AvatarPeriods, StillOpen, Open
    <2>2. CASE \E u \in Users : avatars' = {a \in avatars : a.user # u}
      <3>1. PICK u \in Users : avatars' = {a \in avatars : a.user # u}
        BY <2>2
      <3>2. AvatarPeriods'
        BY <3>1 DEF AvatarPeriods
      <3>3. StillOpen'
        BY <3>1 DEF StillOpen, Open
      <3> QED
        BY <3>2, <3>3
    <2> QED
      BY <2>1, <2>2, AvatarSteps, PeriodsFollow DEF AvatarStep
  <1> QED
    BY <1>1, <1>2, Invariance, PTL DEF Spec
=============================================================================
