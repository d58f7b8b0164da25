---------------------------- MODULE NextCommunity ----------------------------
(***************************************************************************)
(* The API routes of the archived Next.js application that write posts,    *)
(* likes, comments, images, avatars and follows, and the one that deletes  *)
(* an account.  A request is a chain of next-connect handlers that await   *)
(* one Prisma statement after the other, with no transaction around them:  *)
(* one action is one statement with the code up to the next await.         *)
(***************************************************************************)
EXTENDS NextStore

CONSTANTS Slots,        \* the requests that can be under way at once
          MaxRequests,  \* bound: requests in all
          MaxFiles      \* bound: files of one upload (5 in the middleware)

ASSUME SlotsAreFinite == IsFiniteSet(Slots)

VARIABLES req,    \* what each request asks for and how far it is
          served  \* the requests begun so far

vars == <<store, req, served>>

NewRequest(op, kind, u, on, at) ==
  [op |-> op, kind |-> kind, user |-> u, on |-> on,
   at |-> at, row |-> NoRow, files |-> {}, code |-> 0]
Idle == NewRequest("none", "none", NoRow, {}, "idle")

CommunityInit == StoreInit /\ req = [s \in Slots |-> Idle] /\ served = 0

(* The statement that follows getCurrentUser on each route. *)
FirstStage(op) ==
  CASE op = "like" -> "post"
    [] op \in {"edit", "delete", "editComment", "deleteComment"} -> "owner"
    [] op = "createBrewery" -> "geocode"
    [] op = "createStyle" -> "glass"
    [] op \in {"follow", "deleteAccount"} -> "peer"
    [] op \in {"image", "avatar"} -> "upload"
    [] op \in {"comment", "createBeer"} -> "write"

Stages == {"idle", "auth", "post", "find", "owner", "geocode", "location",
           "glass", "peer", "upload", "avatarUser", "write", "done"}

Goto(s, stage) == req' = [req EXCEPT ![s].at = stage]
Reply(s, code) == req' = [req EXCEPT ![s].at = "done", ![s].code = code]
Refuse(s, code) == Reply(s, code) /\ UNCHANGED store

-----------------------------------------------------------------------------
(* The routes.                                                              *)

KindsOn(S) == {r.kind : r \in {i \in rows : i.id \in S}}

(* What the pages offer: posts and comments that are shown when the        *)
(* request is sent, and any profile.                                       *)
Targets(op, kind) ==
  CASE op \in {"like", "comment"} -> {{p.id} : p \in Rows(kind)}
    [] op = "image" -> {{p.id} : p \in {r \in Rows(kind) : kind # "style"}}
    [] op \in {"edit", "delete"} -> {{p.id} : p \in {r \in Rows(kind) : kind # "style"}}
    [] op \in {"editComment", "deleteComment"} ->
         {{c.id} : c \in {r \in Rows("comment") : kind \in KindsOn(r.on)}}
    [] op = "createBeer" ->
         {{b.id, t.id} : b \in {r \in Rows("brewery") : kind = "beer"}, t \in Rows("style")}
    [] op = "createStyle" -> {{g.id} : g \in {r \in Rows("glassware") : kind = "style"}}
    [] op = "createBrewery" -> IF kind = "brewery" THEN {{}} ELSE {}
    [] op \in {"follow", "deleteAccount", "avatar"} ->
         IF kind = "beer" THEN {{u} : u \in Users} ELSE {}

Operations == {"like", "comment", "image", "edit", "delete", "editComment",
               "deleteComment", "createBeer", "createStyle", "createBrewery",
               "follow", "deleteAccount", "avatar"}

(* A browser with the session of u sends a request. *)
Submit(s, op, kind, u, on) ==
  /\ req[s].at = "idle"
  /\ req' = [req EXCEPT ![s] = NewRequest(op, kind, u, on, "auth")]
  /\ UNCHANGED store

(* The handler has answered, and the answer has arrived or was lost. *)
Finish(s) ==
  /\ req[s].at = "done"
  /\ req' = [req EXCEPT ![s] = Idle]
  /\ UNCHANGED <<store, served>>

(* The session only holds an id: the user may be gone. *)
GetCurrentUser(s) ==
  /\ req[s].at = "auth"
  /\ IF req[s].user \in users
     THEN Goto(s, FirstStage(req[s].op)) /\ UNCHANGED store
     ELSE Refuse(s, 401)

Route(s, op, kind) == req[s].op = op /\ req[s].kind = kind

(* The id that the path of the route carries. *)
Target(s) == CHOOSE i \in req[s].on : TRUE

-----------------------------------------------------------------------------
(* Likes: a toggle that looks for the user's like first.                   *)

LikesOf(u, p) == {r \in Rows("like") : r.by = u /\ r.on = {p}}

(* The requests that have found no like of u and are about to add one. *)
Adding(u, p) ==
  {s \in Slots : /\ req[s].op = "like" /\ req[s].user = u /\ req[s].on = {p}
                 /\ req[s].at = "write" /\ req[s].row = NoRow}

FindLikedPost(s) ==
  /\ req[s].at = "post"
  /\ IF Has(Target(s)) THEN Goto(s, "find") /\ UNCHANGED store ELSE Refuse(s, 404)

(* The toggle without its lookup. *)
FindLikeSkipped(s) ==
  /\ req[s].at = "find"
  /\ req' = [req EXCEPT ![s].row = NoRow, ![s].at = "write"]
  /\ UNCHANGED store

FindLike(s) ==
  LET found == LikesOf(req[s].user, Target(s)) IN
  /\ req[s].at = "find"
  /\ \E i \in IF found = {} THEN {NoRow} ELSE IdsOf(found) :
       req' = [req EXCEPT ![s].row = i, ![s].at = "write"]
  /\ UNCHANGED store

WriteLike(s) ==
  /\ req[s].at = "write"
  /\ \/ /\ req[s].row = NoRow
        /\ Insert("like", req[s].user, req[s].on, NoRow)
        /\ Reply(s, 200)
     \/ /\ req[s].row = NoRow
        /\ ~CanInsert(req[s].user, req[s].on)
        /\ Refuse(s, 500)
     \/ /\ req[s].row # NoRow
        /\ Delete(req[s].row)
        /\ Reply(s, 200)
     \/ /\ req[s].row # NoRow
        /\ ~Has(req[s].row)
        /\ Refuse(s, 500)

ToggleLike(s, kind) ==
  Route(s, "like", kind) /\ (FindLikedPost(s) \/ FindLike(s) \/ WriteLike(s))

SendBeerPostLikeRequest(s) == ToggleLike(s, "beer")
SendBreweryPostLikeRequest(s) == ToggleLike(s, "brewery")
SendBeerStyleLikeRequest(s) == ToggleLike(s, "style")

-----------------------------------------------------------------------------
(* Comments and posts: the owner is checked by one statement, the row is   *)
(* changed by a later one.                                                 *)

(* The check only finds the row. *)
CheckOwnerExists(s, op, kind) ==
  /\ Route(s, op, kind)
  /\ req[s].at = "owner"
  /\ IF Has(Target(s)) THEN Goto(s, "write") /\ UNCHANGED store ELSE Refuse(s, 404)

CheckOwner(s, op, kind) ==
  LET found == {r \in rows : r.id = Target(s)} IN
  /\ Route(s, op, kind)
  /\ req[s].at = "owner"
  /\ CASE found = {} -> Refuse(s, 404)
       [] \E r \in found : r.by # req[s].user -> Refuse(s, 403)
       [] OTHER -> Goto(s, "write") /\ UNCHANGED store

EditRow(s, op, kind) ==
  /\ Route(s, op, kind)
  /\ req[s].at = "write"
  /\ \/ Edit(Target(s)) /\ Reply(s, 200)
     \/ ~Has(Target(s)) /\ Refuse(s, 500)

DeleteRow(s, op, kind) ==
  /\ Route(s, op, kind)
  /\ req[s].at = "write"
  /\ \/ Delete(Target(s)) /\ Reply(s, 200)
     \/ ~Has(Target(s)) /\ Refuse(s, 500)

CreateRow(s, op, kind, table) ==
  /\ Route(s, op, kind)
  /\ req[s].at = "write"
  /\ \/ Insert(table, req[s].user, req[s].on, req[s].row) /\ Reply(s, 201)
     \/ ~CanInsert(req[s].user, req[s].on) /\ Refuse(s, 500)

CheckIfBeerCommentOwner(s) ==
  CheckOwner(s, "editComment", "beer") \/ CheckOwner(s, "deleteComment", "beer")
EditBeerPostComment(s) == EditRow(s, "editComment", "beer")
DeleteBeerPostComment(s) == DeleteRow(s, "deleteComment", "beer")
CreateBeerPostComment(s) == CreateRow(s, "comment", "beer", "comment")

CheckIfBreweryCommentOwner(s) ==
  CheckOwner(s, "editComment", "brewery") \/ CheckOwner(s, "deleteComment", "brewery")
EditBreweryPostComment(s) == EditRow(s, "editComment", "brewery")
DeleteBreweryPostComment(s) == DeleteRow(s, "deleteComment", "brewery")
CreateBreweryComment(s) == CreateRow(s, "comment", "brewery", "comment")

CheckIfBeerStyleCommentOwner(s) ==
  CheckOwner(s, "editComment", "style") \/ CheckOwner(s, "deleteComment", "style")
EditBeerStyleComment(s) == EditRow(s, "editComment", "style")
DeleteBeerStyleComment(s) == DeleteRow(s, "deleteComment", "style")
CreateStyleComment(s) == CreateRow(s, "comment", "style", "comment")

CheckIfBeerPostOwner(s) ==
  CheckOwner(s, "edit", "beer") \/ CheckOwner(s, "delete", "beer")
EditBeerPost(s) == EditRow(s, "edit", "beer")
DeleteBeerPost(s) == DeleteRow(s, "delete", "beer")
CreateBeerPost(s) == CreateRow(s, "createBeer", "beer", "beer")

CheckIfBreweryPostOwner(s) ==
  CheckOwner(s, "edit", "brewery") \/ CheckOwner(s, "delete", "brewery")

(* Unlike the route of a beer, this one has no validateRequest: the body   *)
(* is what the client sent, and Prisma may refuse it.                      *)
EditBreweryPost(s) ==
  /\ Route(s, "edit", "brewery")
  /\ req[s].at = "write"
  /\ \/ UpdateBrewery(Target(s)) /\ Reply(s, 200)
     \/ Refuse(s, 500)
DeleteBreweryPost(s) == DeleteRow(s, "delete", "brewery")

(* geocode() asks Mapbox; then the location's row, then the brewery's. *)
Geocode(s) ==
  /\ req[s].at = "geocode"
  /\ \/ Goto(s, "location") /\ UNCHANGED store
     \/ \E code \in {400, 500} : Refuse(s, code)

CreateBreweryPostLocation(s) ==
  /\ req[s].at = "location"
  /\ \/ /\ Insert("location", req[s].user, {}, NoRow)
        /\ req' = [req EXCEPT ![s].row = serial, ![s].at = "write"]
     \/ ~CanInsert(req[s].user, {}) /\ Refuse(s, 500)

CreateNewBreweryPost(s) ==
  /\ Route(s, "createBrewery", "brewery")
  /\ req[s].at = "write"
  /\ LET l == req[s].row
         can == Has(l) /\ IsFree(l, NoRow) /\ CanInsert(req[s].user, {})
     IN  \/ can /\ Insert("brewery", req[s].user, {}, l) /\ Reply(s, 201)
         \/ ~can /\ Refuse(s, 500)

CreateBreweryPost(s) ==
  Geocode(s) \/ CreateBreweryPostLocation(s) \/ CreateNewBreweryPost(s)

CreateBeerStyle(s) ==
  \/ /\ req[s].at = "glass"
     /\ IF Has(Target(s)) THEN Goto(s, "write") /\ UNCHANGED store ELSE Refuse(s, 404)
  \/ CreateRow(s, "createStyle", "style", "style")

-----------------------------------------------------------------------------
(* Images: multer has Cloudinary store the files, one by one, before the   *)
(* fields of the form are validated; then every file gets its row.         *)

UploadFile(s) ==
  /\ req[s].at = "upload"
  /\ Cardinality(req[s].files) < IF req[s].op = "avatar" THEN 1 ELSE MaxFiles
  /\ StoreObject
  /\ req' = [req EXCEPT ![s].files = @ \cup {serial}]

(* multer calls _removeFile on the files that were stored. *)
UploadFails(s) ==
  /\ req[s].at = "upload"
  /\ objects' = objects \ req[s].files
  /\ Reply(s, 500)
  /\ UNCHANGED <<users, rows, follows, serial>>

UploadMiddlewareMultiple(s) ==
  /\ req[s].op = "image"
  /\ \/ UploadFile(s)
     \/ UploadFails(s)
     \/ /\ req[s].at = "upload"
        /\ \/ Refuse(s, 400)  \* no files, or validateRequest refuses the form
           \/ req[s].files # {} /\ Goto(s, "write") /\ UNCHANGED store

WithoutFile(q, path) ==
  LET left == q.files \ {path}
  IN  [q EXCEPT !.files = left, !.code = 200, !.at = IF left = {} THEN "done" ELSE "write"]

AddImage(s, kind) ==
  /\ Route(s, "image", kind)
  /\ req[s].at = "write"
  /\ \/ \E path \in req[s].files :
          /\ Insert("image", req[s].user, req[s].on, path)
          /\ req' = [req EXCEPT ![s] = WithoutFile(req[s], path)]
     \/ ~CanInsert(req[s].user, req[s].on) /\ Refuse(s, 500)

ProcessBeerImageData(s) == AddImage(s, "beer")
ProcessBreweryImageData(s) == AddImage(s, "brewery")

(* checkIfUserCanUpdateProfile, then the upload, updateUserAvatar's        *)
(* findUnique, and the upsert.                                             *)
UpdateAvatar(s) ==
  /\ req[s].op = "avatar"
  /\ \/ req[s].at = "upload" /\ req[s].on # {req[s].user} /\ Refuse(s, 403)
     \/ req[s].on = {req[s].user} /\ (UploadFile(s) \/ UploadFails(s))
     \/ /\ req[s].at = "upload"
        /\ req[s].files # {}
        /\ IF req[s].user \in users
           THEN Goto(s, "avatarUser") /\ UNCHANGED store
           ELSE Refuse(s, 404)
     \/ /\ req[s].at = "avatarUser"
        /\ \E path \in req[s].files : UpsertAvatar(req[s].user, path)
        /\ Reply(s, 200)
     \/ req[s].at = "avatarUser" /\ req[s].user \notin users /\ Refuse(s, 500)

-----------------------------------------------------------------------------
(* Follows, a toggle too, and the account itself.                          *)

FindPeer(s, next) ==
  /\ req[s].at = "peer"
  /\ CASE Target(s) \notin users -> Refuse(s, 404)
       [] req[s].op = "deleteAccount" /\ Target(s) # req[s].user -> Refuse(s, 403)
       [] OTHER -> Goto(s, next) /\ UNCHANGED store

FindUserFollow(s) ==
  /\ req[s].at = "find"
  /\ req' = [req EXCEPT
       ![s].row = IF <<req[s].user, Target(s)>> \in follows THEN Target(s) ELSE NoRow,
       ![s].at = "write"]
  /\ UNCHANGED store

WriteFollow(s) ==
  LET f == req[s].user IN
  /\ req[s].at = "write"
  /\ \/ req[s].row = NoRow /\ CreateFollow(f, Target(s)) /\ Reply(s, 200)
     \/ req[s].row = NoRow /\ ~CanFollow(f, Target(s)) /\ Refuse(s, 500)
     \/ req[s].row # NoRow /\ DeleteFollow(f, Target(s)) /\ Reply(s, 200)
     \/ req[s].row # NoRow /\ <<f, Target(s)>> \notin follows /\ Refuse(s, 500)

FollowUser(s) ==
  req[s].op = "follow" /\ (FindPeer(s, "find") \/ FindUserFollow(s) \/ WriteFollow(s))

DeleteAccount(s) ==
  /\ req[s].op = "deleteAccount"
  /\ \/ FindPeer(s, "write")
     \/ req[s].at = "write" /\ DeleteUser(req[s].user) /\ Reply(s, 200)
     \/ req[s].at = "write" /\ ~CanDeleteUser(req[s].user) /\ Refuse(s, 500)

-----------------------------------------------------------------------------

CommentSteps(s) ==
  \/ CheckIfBeerCommentOwner(s) \/ EditBeerPostComment(s)
  \/ DeleteBeerPostComment(s) \/ CreateBeerPostComment(s)
  \/ CheckIfBreweryCommentOwner(s) \/ EditBreweryPostComment(s)
  \/ DeleteBreweryPostComment(s) \/ CreateBreweryComment(s)
  \/ CheckIfBeerStyleCommentOwner(s) \/ EditBeerStyleComment(s)
  \/ DeleteBeerStyleComment(s) \/ CreateStyleComment(s)

PostSteps(s) ==
  \/ CheckIfBeerPostOwner(s) \/ EditBeerPost(s) \/ DeleteBeerPost(s) \/ CreateBeerPost(s)
  \/ CheckIfBreweryPostOwner(s) \/ EditBreweryPost(s) \/ DeleteBreweryPost(s)
  \/ CreateBreweryPost(s) \/ CreateBeerStyle(s)

OtherSteps(s) ==
  \/ SendBeerPostLikeRequest(s) \/ SendBreweryPostLikeRequest(s)
  \/ SendBeerStyleLikeRequest(s)
  \/ UploadMiddlewareMultiple(s) \/ ProcessBeerImageData(s) \/ ProcessBreweryImageData(s)
  \/ UpdateAvatar(s) \/ FollowUser(s) \/ DeleteAccount(s)

HandlerStep(s) ==
  /\ GetCurrentUser(s) \/ CommentSteps(s) \/ PostSteps(s) \/ OtherSteps(s)
  /\ UNCHANGED served

Begin(s) ==
  /\ served < MaxRequests
  /\ served' = served + 1
  /\ \E op \in Operations, kind \in PostKinds, u \in Users :
       \E on \in Targets(op, kind) : Submit(s, op, kind, u, on)

CommunityNext == \E s \in Slots : Begin(s) \/ HandlerStep(s) \/ Finish(s)

CommunitySpec == CommunityInit /\ [][CommunityNext]_vars
-----------------------------------------------------------------------------

Codes == {0, 200, 201, 400, 401, 403, 404, 500}

Requests == [op : Operations \cup {"none"}, kind : PostKinds \cup {"none"},
             user : Users \cup {NoRow}, on : SUBSET (Ids \cup Users), at : Stages,
             row : Ids \cup Users \cup {NoRow}, files : SUBSET Nat,
             code : Codes]

(* The type invariant.  Ids and object names are below the serial number,  *)
(* and an id is the key of one row.                                        *)
CommunityTypeOK ==
  /\ users \subseteq Users /\ serial \in Nat /\ served \in Nat
  /\ rows \subseteq Row
  /\ \A r \in rows : r.id \in Nat => r.id < serial
  /\ \A r, q \in rows : r.id = q.id => r = q
  /\ req \in [Slots -> Requests]
  /\ \A s \in Slots : \A f \in req[s].files : f < serial

(* BeerPostLike and its siblings have no unique key, and the toggle looks  *)
(* before it writes, so two requests can both add a like: a user can have  *)
(* several likes of one post.  But never more than requests run at once,   *)
(* because one that adds has found none; unless they are all of the        *)
(* seeding, which draws users and posts at random: to those the toggle     *)
(* adds nothing.                                                           *)
LikesBounded ==
  \A u \in Users, p \in IdsOf(rows) :
    \/ LikesOf(u, p) \subseteq SeedRows /\ Adding(u, p) = {}
    \/ Cardinality(LikesOf(u, p)) + Cardinality(Adding(u, p)) <= Cardinality(Slots)

(* The poster of r, or, of a brewery that has been edited, the one whom    *)
(* the edit may have replaced after the check of the owner.                *)
Owned(u, r) == r.by = u \/ (r.kind = "brewery" /\ r.edits > 0)

(* What the request of s may change in a step that answers 200: the row it *)
(* names or its like, if they are its user's, and his avatar.  The PUT of  *)
(* a brewery hands its body to the database as it is: with that, the owner *)
(* of the brewery can change what others posted.                           *)
MayChange(s, r) ==
  \/ req[s].op = "avatar" /\ r.kind = "avatar" /\ r.by = req[s].user
  \/ r.id = req[s].row /\ r.by = req[s].user
  \/ r.id \in req[s].on /\ Owned(req[s].user, r)
  \/ /\ Route(s, "edit", "brewery")
     /\ \E b \in rows : b.id \in req[s].on /\ Owned(req[s].user, b)

(* The handlers check the owner of a comment or a post in one statement    *)
(* and change it in another, by its id alone: even so a row changes or     *)
(* goes only by its owner's request, with its owner's account or what it   *)
(* hangs on, or, because the PUT of a brewery validates nothing, by that   *)
(* request of the brewery's owner.                                         *)
OnlyOwnersChange ==
  [][\A r \in rows :
       r \in rows'
         \/ r.by \notin users'
         \/ ~(r.on \subseteq IdsOf(rows'))
         \/ \E s \in Slots : /\ req[s].at # "done" /\ MayChange(s, r)
                             /\ req'[s].at = "done" /\ req'[s].code = 200]_vars
=============================================================================
