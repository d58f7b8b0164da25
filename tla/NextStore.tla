------------------------------ MODULE NextStore ------------------------------
(***************************************************************************)
(* The database of the archived Next.js application, as far as its tables  *)
(* refer to each other, and the image store beside it.  Every foreign key  *)
(* of schema.prisma is ON DELETE CASCADE, except the two of UserFollow and *)
(* the one from a brewery post to its location, which are RESTRICT.  One   *)
(* action of this module is one Prisma statement, which PostgreSQL runs as *)
(* a transaction.                                                          *)
(***************************************************************************)
EXTENDS Naturals, FiniteSets

CONSTANTS Users,     \* the accounts that exist when the requests begin
          SeedRows,  \* and the rows they have, as prisma/seed leaves them
          NoRow      \* null

VARIABLES users,    \* User: the accounts that are left
          rows,     \* the rows of the other tables
          follows,  \* UserFollow: pairs of follower and followed
          objects,  \* the image files that Cloudinary keeps
          serial    \* ids and object names are fresh: cuid()

store == <<users, rows, follows, objects, serial>>

PostKinds == {"beer", "brewery", "style"}

(* "by" is postedBy, likedBy or user; "on" holds the ids that the other    *)
(* cascading foreign keys name: the post that is liked, the brewery and    *)
(* the style of a beer, the glassware of a style.  "ref" is a brewery's    *)
(* location, or the object that the path of an image names.                *)
NewRow(kind, u, on, ref) ==
  [id |-> serial, kind |-> kind, by |-> u, on |-> on, ref |-> ref, edits |-> 0]

IdsOf(S) == {r.id : r \in S}
Rows(kind) == {r \in rows : r.kind = kind}
Has(i) == i \in IdsOf(rows)

Kinds == PostKinds \cup {"glassware", "location", "like", "comment", "image", "avatar"}

(* The tables that the cascading foreign keys of a table refer to. *)
HangsOn(kind) ==
  CASE kind \in {"like", "comment"} -> PostKinds
    [] kind = "image" -> {"beer", "brewery"}
    [] kind = "beer" -> {"brewery", "style"}
    [] kind = "style" -> {"glassware"}
    [] OTHER -> {}

Ids == Nat \cup IdsOf(SeedRows)
Row == [id : Ids, kind : Kinds, by : Users, on : SUBSET Ids,
        ref : Ids \cup {r.ref : r \in SeedRows} \cup {NoRow}, edits : Nat]

ASSUME SeedIsSound ==
  /\ NoRow \notin Users \cup Ids
  /\ Users \cap Ids = {}
  /\ IdsOf(SeedRows) \cap Nat = {}
  /\ SeedRows \subseteq Row
  /\ \A r \in SeedRows : r.ref \notin Nat
  /\ \A r, q \in SeedRows : r.id = q.id => r = q
  /\ \A r \in SeedRows : r.kind = "brewery" =>
       \E q \in SeedRows : q.kind = "location" /\ q.id = r.ref
  /\ \A r \in SeedRows : \A i \in r.on :
       \E q \in SeedRows : q.id = i /\ q.kind \in HangsOn(r.kind)

WithDependents(S) == S \cup {r \in rows : r.on \cap IdsOf(S) # {}}

(* Only the keys that name the deleted row cascade. *)
CascadeShallow(S) == WithDependents(S)

(* What ON DELETE CASCADE removes with the rows of S. *)
Cascade(S) == WithDependents(WithDependents(WithDependents(S)))

(* The two RESTRICT keys.  The cascade to a user's breweries runs before   *)
(* the one to the user's locations: its constraint is the older one.       *)
StillLocated(S) == \E b \in rows \ S : b.kind = "brewery" /\ b.ref \in IdsOf(S)
Followed(u) == \E f \in follows : u \in {f[1], f[2]}

-----------------------------------------------------------------------------

StoreInit ==
  /\ users = Users
  /\ rows = SeedRows
  /\ follows = {}
  /\ objects = {r.ref : r \in {i \in SeedRows : i.kind \in {"image", "avatar"}}}
  /\ serial = 0

(* create: "connect" makes every named row and the user exist. *)
CanInsert(u, on) == u \in users /\ \A i \in on : Has(i)
(* An id that is not fresh. *)
InsertReusesId(kind, u, on, ref) ==
  /\ CanInsert(u, on)
  /\ rows' = rows \cup {NewRow(kind, u, on, ref)}
  /\ UNCHANGED <<users, follows, objects, serial>>
Insert(kind, u, on, ref) ==
  /\ CanInsert(u, on)
  /\ rows' = rows \cup {NewRow(kind, u, on, ref)}
  /\ serial' = serial + 1
  /\ UNCHANGED <<users, follows, objects>>

(* update by id *)
Edit(i) ==
  /\ Has(i)
  /\ rows' = {IF r.id = i THEN [r EXCEPT !.edits = @ + 1] ELSE r : r \in rows}
  /\ UNCHANGED <<users, follows, objects, serial>>

(* update of a brewery post, with the body of a request as its data.  What *)
(* the body says is up to its sender: besides the post's own columns it    *)
(* can name another poster and another location, which must be free, since *)
(* locationId is unique; and through the relations of the post it can      *)
(* delete or rewrite the rows that hang on it, or rewrite its location.    *)
(* Left out are bodies that create rows, that move them to another post or *)
(* poster, or that reach further than one relation.  A like holds nothing  *)
(* that could be rewritten but its keys and its times.                     *)
IsFree(l, i) == \A b \in Rows("brewery") : b.ref = l => b.id = i
Within(i) ==
  {r \in rows : \/ i \in r.on /\ r.kind # "like"
                \/ \E b \in Rows("brewery") : b.id = i /\ r.id = b.ref}

UpdateBrewery(i) ==
  /\ Has(i)
  /\ \E by \in users, l \in IdsOf(Rows("location")), gone \in SUBSET {r \in rows : i \in r.on} :
       /\ IsFree(l, i)
       /\ \E touched \in SUBSET (Within(i) \ gone) :
            rows' = {IF r.id = i THEN [r EXCEPT !.edits = @ + 1, !.by = by, !.ref = l]
                     ELSE IF r \in touched THEN [r EXCEPT !.edits = @ + 1]
                     ELSE r : r \in rows \ Cascade(gone)}
  /\ UNCHANGED <<users, follows, objects, serial>>

(* delete by id, of a like, a comment or a post *)
Delete(i) ==
  /\ Has(i)
  /\ rows' = rows \ Cascade({r \in rows : r.id = i})
  /\ UNCHANGED <<users, follows, objects, serial>>

(* The foreign keys of UserFollow make both users exist, its key is the pair. *)
CanFollow(f, u) == {f, u} \subseteq users /\ <<f, u>> \notin follows
CreateFollow(f, u) ==
  /\ CanFollow(f, u)
  /\ follows' = follows \cup {<<f, u>>}
  /\ UNCHANGED <<users, rows, objects, serial>>

DeleteFollow(f, u) ==
  /\ <<f, u>> \in follows
  /\ follows' = follows \ {<<f, u>>}
  /\ UNCHANGED <<users, rows, objects, serial>>

RowsOf(u) == {r \in rows : r.by = u}
CanDeleteUser(u) ==
  /\ u \in users
  /\ ~Followed(u)
  /\ ~StillLocated(Cascade(RowsOf(u)))
DeleteUser(u) ==
  /\ CanDeleteUser(u)
  /\ users' = users \ {u}
  /\ rows' = rows \ Cascade(RowsOf(u))
  /\ UNCHANGED <<follows, objects, serial>>

(* upsert of UserAvatar, whose userId is unique *)
UpsertAvatar(u, path) ==
  /\ u \in users
  /\ LET old == {r \in Rows("avatar") : r.by = u}
     IN  IF old = {}
         THEN rows' = rows \cup {NewRow("avatar", u, {}, path)}
         ELSE rows' = (rows \ old) \cup {[r EXCEPT !.ref = path] : r \in old}
  /\ serial' = serial + 1
  /\ UNCHANGED <<users, follows, objects>>

(* upload_stream to Cloudinary *)
StoreObject ==
  /\ objects' = objects \cup {serial}
  /\ serial' = serial + 1
  /\ UNCHANGED <<users, rows, follows>>

-----------------------------------------------------------------------------

(* Nothing refers to what is gone, whichever of the routes above removed   *)
(* it and whatever ran beside it: every row has its poster, the posts it   *)
(* hangs on, a brewery its location, an image its file, and a follow both  *)
(* of its users.                                                           *)
NoDangling ==
  /\ \A r \in rows :
       /\ r.by \in users
       /\ r.on \subseteq IdsOf(rows)
       /\ r.kind = "brewery" => r.ref \in IdsOf(Rows("location"))
       /\ r.kind \in {"image", "avatar"} => r.ref \in objects
  /\ follows \subseteq users \X users
=============================================================================
