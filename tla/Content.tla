------------------------------- MODULE Content -------------------------------
(***************************************************************************)
(* What the users of the web API publish: brewery posts with a location,   *)
(* and photos, of which one is the avatar of a profile.  SQL Server runs   *)
(* each statement under READ COMMITTED: what a transaction has written is  *)
(* locked until it ends, what it has merely read is not.  One action is    *)
(* one statement of a handler, with the C# code up to the next one.        *)
(***************************************************************************)
EXTENDS FiniteSets, Naturals

CONSTANTS Users, Posts,  \* Posts: the ids that Guid.NewGuid will hand out
          Names, Places, \* what a post and its location say
          Slots,         \* the requests that can be under way at once
          MaxRequests,   \* bound: requests in all
          MaxTime,       \* bound: the clock of the database, in milliseconds
          None           \* NULL

VARIABLES users,    \* Auth.UserAccount, each with its Social.UserProfile
          post,     \* Brewery.BreweryPost: the row of each id, or None
          location, \* Brewery.BreweryPostLocation: the place of each post, or None
          version,  \* the last ROWVERSION handed out
          objects,  \* the keys of the objects in the bucket
          photos,   \* Media.Photo
          avatars,  \* Social.UserAvatar: periods, the last one open
          lock,     \* who has locked the row of a post or of a profile
          req, served

posting == <<post, location, version>>
picturing == <<objects, photos, avatars>>
vars == <<users, posting, picturing, lock, req, served>>

(* "base" is what a client has read before it sends a change; "at" the     *)
(* next statement; "photo" the Guid of an upload; "from" its @ChangedAt.   *)
Idle == [op |-> "none", user |-> None, post |-> None, name |-> None, place |-> None,
         base |-> None, photo |-> None, from |-> None, at |-> "idle", answer |-> None]

Rows == [by : Users, name : Names, version : Nat]
Bases == [post : Posts, name : Names, version : Nat, place : Places \cup {None}]

Operations == {"get", "create", "update", "delete", "avatar", "deleteAccount"}
Answers == {"ok", "notFound", "forbidden", "conflict", "error", "constraint"}
ASSUME NoneIsNothing == None \notin Slots \cup Rows \cup Bases \cup Nat \cup Answers

Stages == {"idle", "owner", "exists", "user", "insert", "update", "place", "commit",
           "delete", "readPost", "readPlace", "object", "photo", "profile",
           "lock", "changedAt", "save", "done"}

Requests == [op : Operations \cup {"none"}, user : Users \cup {None},
             post : Posts \cup {None}, name : Names \cup {None},
             place : Places \cup {None}, base : Bases \cup {None},
             photo : Nat \cup {None}, from : Nat \cup {None},
             at : Stages, answer : Answers \cup {None}]

Goto(s, stage) == req' = [req EXCEPT ![s].at = stage]
Reply(s, answer) ==
  req' = [req EXCEPT ![s] = [Idle EXCEPT !.base = req[s].base, !.at = "done",
                                         !.answer = answer]]
Nothing == UNCHANGED <<users, posting, picturing, lock>>
Refuse(s, answer) == Reply(s, answer) /\ Nothing

Exists(b) == post[b] # None
Free(row) == lock[row] = None
Unlock(row) == lock' = [lock EXCEPT ![row] = None]

-----------------------------------------------------------------------------

(* Any posts of any users, with or without a location; one user may have   *)
(* an avatar.                                                              *)
Init ==
  /\ users = Users
  /\ post \in [Posts -> [by : Users, name : Names, version : {0}] \cup {None}]
  /\ location \in [Posts -> Places \cup {None}]
  /\ \A b \in Posts : location[b] # None => Exists(b)
  /\ version = 0
  /\ \E owners \in SUBSET Users :
       /\ Cardinality(owners) <= 1
       /\ photos = {[id |-> 0, by |-> u] : u \in owners}
       /\ avatars = {[user |-> u, photo |-> 0, from |-> 0, to |-> None] : u \in owners}
  /\ objects = {p.id : p \in photos}
  /\ lock = [row \in Posts \cup Users |-> None]
  /\ req = [s \in Slots |-> Idle]
  /\ served = 0

(* A client asks for something.  It changes a post on the ground of what   *)
(* it has read, with the row version that came with it.                    *)
Inputs(s) ==
  LET base == req[s].base
      Ask(op, at, u, b, n, l, photo) ==
        [op |-> op, user |-> u, post |-> b, name |-> n, place |-> l, base |-> base,
         photo |-> photo, from |-> None, at |-> at, answer |-> None]
  IN   {Ask("get", "readPost", None, b, None, None, None) : b \in Posts}
  \cup {Ask("create", "user", u, None, n, l, None) : u \in Users, n \in Names, l \in Places}
  \cup {Ask("update", "owner", u, base.post, n, l, None) :
          u \in {w \in Users : base # None}, n \in Names, l \in Places \cup {None}}
  \cup {Ask("delete", "owner", u, b, None, None, None) :
          u \in Users, b \in {c \in Posts : Exists(c)}}
  \cup {Ask("avatar", "object", u, None, None, None, served + 1) : u \in Users}
  \cup {Ask("deleteAccount", "user", u, None, None, None, None) : u \in Users}

Send(s) ==
  /\ req[s].at = "idle"
  /\ served < MaxRequests
  /\ \E r \in Inputs(s) : req' = [req EXCEPT ![s] = r]
  /\ served' = served + 1
  /\ UNCHANGED <<users, posting, picturing, lock>>

(* The client has its answer, and keeps what it has read. *)
Finish(s) ==
  /\ req[s].at = "done"
  /\ req' = [req EXCEPT ![s] = [Idle EXCEPT !.base = req[s].base]]
  /\ UNCHANGED <<users, posting, picturing, lock, served>>

-----------------------------------------------------------------------------
(* Brewery posts.                                                          *)

(* GetByIdAsync joins the post with its location in one statement, which   *)
(* lets go of the first row before it reads the second.  It answers a      *)
(* query, and an update that is committed.                                 *)
GetById(s) ==
  LET b == req[s].post IN
  \/ /\ req[s].at = "readPost" /\ Free(b)
     /\ IF Exists(b)
        THEN req' = [req EXCEPT ![s].base = [post |-> b, name |-> post[b].name,
                                             version |-> post[b].version, place |-> None],
                                ![s].at = "readPlace"]
        ELSE Reply(s, IF req[s].op = "update" THEN "error" ELSE "notFound")
     /\ Nothing
  \/ /\ req[s].at = "readPlace"
     /\ \A r \in Slots : lock[b] = r => req[r].at # "commit"
     /\ req' = [req EXCEPT ![s] = [Idle EXCEPT !.base = [req[s].base EXCEPT !.place = location[b]],
                                               !.at = "done", !.answer = "ok"]]
     /\ Nothing

(* EnsureCallerOwnsBreweryAsync *)
EnsureCallerOwnsBrewery(s, next) ==
  LET b == req[s].post IN
  /\ req[s].at = "owner" /\ Free(b)
  /\ \/ ~Exists(b) /\ Refuse(s, "notFound")
     \/ Exists(b) /\ post[b].by # req[s].user /\ Refuse(s, "forbidden")
     \/ Exists(b) /\ post[b].by = req[s].user /\ Goto(s, next) /\ Nothing

(* BreweryRepository.CreateAsync: the foreign key to the user is checked   *)
(* when the post is inserted, and the row of a user cannot go from there   *)
(* to the commit.  The city may be unknown.                                *)
CreateBrewery(s) ==
  /\ req[s].op = "create"
  /\ \/ /\ req[s].at = "user"
        /\ \/ req[s].user \in users /\ Goto(s, "insert") /\ Nothing
           \/ Refuse(s, "notFound")
     \/ /\ req[s].at = "insert"
        /\ \/ /\ req[s].user \in users
              /\ \E b \in Posts :
                   /\ ~Exists(b) /\ Free(b)
                   /\ \A r \in Slots : req[r].post # b /\ (req[r].base # None => req[r].base.post # b)
                   /\ post' = [post EXCEPT ![b] = [by |-> req[s].user, name |-> req[s].name,
                                                   version |-> version + 1]]
                   /\ location' = [location EXCEPT ![b] = req[s].place]
                   /\ version' = version + 1
              /\ Reply(s, "ok")
              /\ UNCHANGED <<users, picturing, lock>>
           \/ Refuse(s, "error")

(* The post whatever its version. *)
GuardedUpdateUnversioned(s) ==
  LET b == req[s].post IN
  /\ req[s].at = "update" /\ Free(b)
  /\ IF Exists(b)
     THEN lock' = [lock EXCEPT ![b] = s] /\ Goto(s, "place") /\ UNCHANGED <<users, posting, picturing>>
     ELSE Refuse(s, "conflict")

(* UPDATE ... WHERE RowVersion = @RowVersion: no row, no change. *)
GuardedUpdate(s) ==
  LET b == req[s].post IN
  /\ req[s].at = "update" /\ Free(b)
  /\ IF Exists(b) /\ post[b].version = req[s].base.version
     THEN lock' = [lock EXCEPT ![b] = s] /\ Goto(s, "place") /\ UNCHANGED <<users, posting, picturing>>
     ELSE Refuse(s, "conflict")

(* An error or a cancelled request rolls back. *)
Rollback(s, row) == Reply(s, "error") /\ Unlock(row) /\ UNCHANGED <<users, posting, picturing>>

(* BreweryRepository.UpdateAsync.  Whether the location is deleted,        *)
(* updated or inserted, it ends up as the request has it.  The answer is   *)
(* what the post says after the commit.                                    *)
UpdateBrewery(s) ==
  LET b == req[s].post IN
  /\ req[s].op = "update"
  /\ \/ EnsureCallerOwnsBrewery(s, "exists")
     \/ /\ req[s].at = "exists" /\ Free(b)
        /\ \/ Exists(b) /\ Goto(s, "update") /\ Nothing
           \/ Refuse(s, "notFound")  \* no such brewery or no such city
     \/ GuardedUpdate(s)
     \/ /\ req[s].at = "place"
        /\ \/ Goto(s, "commit") /\ Nothing
           \/ Rollback(s, b)
     \/ /\ req[s].at = "commit"
        /\ \/ /\ post' = [post EXCEPT ![b].name = req[s].name, ![b].version = version + 1]
              /\ location' = [location EXCEPT ![b] = req[s].place]
              /\ version' = version + 1
              /\ Unlock(b)
              /\ Goto(s, "readPost")
              /\ UNCHANGED <<users, picturing>>
           \/ Rollback(s, b)

(* BreweryRepository.DeleteAsync; the location goes by cascade. *)
DeleteBrewery(s) ==
  LET b == req[s].post IN
  /\ req[s].op = "delete"
  /\ \/ EnsureCallerOwnsBrewery(s, "delete")
     \/ /\ req[s].at = "delete" /\ Free(b)
        /\ IF Exists(b)
           THEN /\ post' = [post EXCEPT ![b] = None]
                /\ location' = [location EXCEPT ![b] = None]
                /\ Reply(s, "ok")
                /\ UNCHANGED <<users, version, picturing, lock>>
           ELSE Refuse(s, "notFound")

-----------------------------------------------------------------------------
(* Photos and avatars.                                                     *)

(* The row first, then the object. *)
UploadPhotoRowFirst(s) ==
  \/ /\ req[s].at = "object"
     /\ \/ /\ req[s].user \in users
           /\ photos' = photos \cup {[id |-> req[s].photo, by |-> req[s].user]}
           /\ Goto(s, "photo")
           /\ UNCHANGED <<users, posting, objects, avatars, lock>>
        \/ Refuse(s, "error")
  \/ /\ req[s].at = "photo"
     /\ \/ /\ objects' = objects \cup {req[s].photo}
           /\ Goto(s, "profile")
           /\ UNCHANGED <<users, posting, photos, avatars, lock>>
        \/ Refuse(s, "error")

(* UploadPhotoHandler: the object first, then the row.  No failure takes   *)
(* the object back.                                                        *)
UploadPhoto(s) ==
  \/ /\ req[s].at = "object"
     /\ \/ /\ objects' = objects \cup {req[s].photo}
           /\ Goto(s, "photo")
           /\ UNCHANGED <<users, posting, photos, avatars, lock>>
        \/ Refuse(s, "error")
  \/ /\ req[s].at = "photo"
     /\ \/ /\ req[s].user \in users
           /\ photos' = photos \cup {[id |-> req[s].photo, by |-> req[s].user]}
           /\ Goto(s, "profile")
           /\ UNCHANGED <<users, posting, objects, avatars, lock>>
        \/ Refuse(s, "error")

Open(u) == {a \in avatars : a.user = u /\ a.to = None}

(* Without UPDLOCK the row of the profile is only read. *)
LockProfileShared(s) ==
  /\ req[s].at = "lock" /\ Free(req[s].user)
  /\ Goto(s, "changedAt")
  /\ Nothing

LockProfile(s) ==
  /\ req[s].at = "lock" /\ Free(req[s].user)
  /\ lock' = [lock EXCEPT ![req[s].user] = s]
  /\ Goto(s, "changedAt")
  /\ UNCHANGED <<users, posting, picturing>>

(* UserProfileRepository.SaveAvatarAsync, one batch in a transaction.      *)
(* SYSUTCDATETIME may say anything: the clock can be set back.  What the   *)
(* last two statements write is locked to the commit: they are one step,   *)
(* which CK_UserAvatar_ValidRange may refuse.                              *)
SaveAvatar(s) ==
  LET u == req[s].user
      now == req[s].from
  IN
  \/ LockProfile(s)
  \/ /\ req[s].at = "changedAt"
     /\ \E clock \in 0..MaxTime :
          req' = [req EXCEPT
            ![s].from = IF \A a \in Open(u) : clock > a.from
                        THEN clock
                        ELSE (CHOOSE a \in Open(u) : TRUE).from + 1,
            ![s].at = "save"]
     /\ Nothing
  \/ /\ req[s].at = "save"
     /\ IF \A a \in Open(u) : now > a.from
        THEN /\ avatars' = {IF a \in Open(u) THEN [a EXCEPT !.to = now] ELSE a : a \in avatars}
                             \cup {[user |-> u, photo |-> req[s].photo,
                                    from |-> now, to |-> None]}
             /\ Reply(s, "ok")
             /\ Unlock(u)
             /\ UNCHANGED <<users, posting, objects, photos>>
        ELSE Reply(s, "constraint") /\ Unlock(u) /\ UNCHANGED <<users, posting, picturing>>
  \/ req[s].at \in {"changedAt", "save"} /\ Rollback(s, u)

(* UploadAvatarHandler *)
UploadAvatar(s) ==
  /\ req[s].op = "avatar"
  /\ \/ UploadPhoto(s)
     \/ /\ req[s].at = "profile"
        /\ IF req[s].user \in users THEN Goto(s, "lock") /\ Nothing ELSE Refuse(s, "notFound")
     \/ SaveAvatar(s)

-----------------------------------------------------------------------------
(* DapperUserStore.DeleteAsync.                                            *)

(* The keys of posts and photos are NO ACTION; the profile and its avatars *)
(* go by cascade.                                                          *)
DeleteAccount(s) ==
  LET u == req[s].user IN
  /\ req[s].op = "deleteAccount"
  /\ req[s].at = "user" /\ Free(u)
  /\ IF /\ u \in users
        /\ \A b \in Posts : Exists(b) => post[b].by # u
        /\ \A p \in photos : p.by # u
     THEN /\ users' = users \ {u}
          /\ avatars' = {a \in avatars : a.user # u}
          /\ Reply(s, "ok")
          /\ UNCHANGED <<posting, objects, photos, lock>>
     ELSE Refuse(s, "error")

-----------------------------------------------------------------------------

HandlerStep(s) ==
  /\ \/ GetById(s) \/ CreateBrewery(s) \/ UpdateBrewery(s) \/ DeleteBrewery(s)
     \/ UploadAvatar(s) \/ DeleteAccount(s)
  /\ UNCHANGED served

Next == \E s \in Slots : Send(s) \/ HandlerStep(s) \/ Finish(s)

Spec == Init /\ [][Next]_vars
-----------------------------------------------------------------------------

(* What a request has at hand when it reaches a statement. *)
RequestOK(r) ==
  /\ r.at \in {"readPost", "readPlace", "owner", "exists", "update", "place",
               "commit", "delete"} => r.post \in Posts
  /\ r.at \in {"user", "insert", "object", "photo", "profile", "lock",
               "changedAt", "save"} => r.user \in Users
  /\ r.op \in {"create", "update"} => r.name \in Names
  /\ r.op = "create" => r.place \in Places
  /\ r.at \in {"exists", "update", "place", "commit", "readPlace"} =>
       r.base # None /\ r.base.post = r.post
  /\ r.op = "update" /\ r.at = "owner" => r.base # None /\ r.base.post = r.post
  /\ r.at \in {"object", "photo", "profile", "lock", "changedAt", "save"} => r.photo \in Nat
  /\ r.at = "save" => r.from \in Nat

TablesOK ==
  /\ users \subseteq Users
  /\ post \in [Posts -> Rows \cup {None}] /\ version \in Nat
  /\ \A b \in Posts : Exists(b) => post[b].version <= version
  /\ location \in [Posts -> Places \cup {None}]
  /\ objects \subseteq Nat
  /\ photos \subseteq [id : Nat, by : Users]
  /\ avatars \subseteq [user : Users, photo : Nat, from : Nat, to : Nat \cup {None}]
  /\ lock \in [Posts \cup Users -> Slots \cup {None}]

(* The type invariant. *)
ContentTypeOK ==
  /\ TablesOK
  /\ req \in [Slots -> Requests] /\ served \in Nat
  /\ \A s \in Slots : RequestOK(req[s])

HasReadPost(s) ==
  LET b == req[s].post IN
  /\ Exists(b)
  /\ post[b].name = req[s].base.name
  /\ location[b] = req[s].base.place

(* The row version is that of the post alone, and reading a post takes two *)
(* looks at the database: still a change is accepted only if the client    *)
(* has read exactly the name and the location it overwrites.               *)
NoLostUpdate ==
  [][\A s \in Slots :
       req[s].at = "commit" /\ req'[s].at = "readPost" => HasReadPost(s)]_vars

(* Nothing refers to what is gone: posts and photos have their user, a     *)
(* location its post, a photo its object, an avatar its photo and profile, *)
(* whatever failed half-way and whichever account was deleted beside it.   *)
ContentIsLinked ==
  /\ \A b \in Posts : Exists(b) => post[b].by \in users
  /\ \A b \in Posts : location[b] # None => Exists(b)
  /\ \A p \in photos : p.by \in users /\ p.id \in objects
  /\ \A a \in avatars : a.user \in users /\ \E p \in photos : p.id = a.photo

(* However often an avatar is replaced at once, within one millisecond or  *)
(* with a clock that is set back, no replacement fails on the constraints, *)
(* which keep one open period per profile and periods of positive length.  *)
ReplacementsSucceed == \A s \in Slots : req[s].answer # "constraint"

(* The periods of a profile follow each other without a gap or an overlap. *)
AvatarPeriods ==
  \A a, b \in avatars :
    a.user = b.user /\ a # b =>
      \/ a.to # None /\ a.to <= b.from
      \/ b.to # None /\ b.to <= a.from
=============================================================================
