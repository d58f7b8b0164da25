------------------------ MODULE NextCommunityProofs ------------------------
(***************************************************************************)
(* Theorems about NextStore, NextCommunity and NextLikeButton, for any     *)
(* users, seeded rows and tabs, and any number of requests at once.        *)
(***************************************************************************)
EXTENDS NextLikeButton, FiniteSetTheorems, TLAPS

ImageKinds == {"image", "avatar"}
Linked(f) == \E r \in rows : r.kind \in ImageKinds /\ r.ref = f
Fresh(i) == i \in Nat => i < serial

(* A row hangs on rows of the tables its foreign keys name: no cascade     *)
(* runs deeper than Cascade follows it.                                    *)
Hanging == \A r, q \in rows : q.id \in r.on => q.kind \in HangsOn(r.kind)

StoreOK ==
  /\ users \subseteq Users /\ serial \in Nat /\ rows \subseteq Row
  /\ \A r \in rows : Fresh(r.id)
  /\ \A r, q \in rows : r.id = q.id => r = q
  /\ \A f \in objects : Fresh(f)
  /\ NoDangling
  /\ Hanging

(* The requests. *)
OwnerOps == {"edit", "delete", "editComment", "deleteComment"}
PathOps == OwnerOps \cup {"like", "comment", "image", "follow", "deleteAccount"}

TargetKinds(op, kind) ==
  CASE op \in {"like", "comment", "image", "edit", "delete"} -> {kind}
    [] op \in {"editComment", "deleteComment"} -> {"comment"}
    [] op = "createBeer" -> {"brewery", "style"}
    [] op = "createStyle" -> {"glassware"}
    [] OTHER -> {}

(* What a request names is what its route expects, as long as it is there, *)
(* and once its owner has been checked he stays the owner, unless it is a  *)
(* brewery that is edited.                                                 *)
Aimed(q) ==
  q.at # "idle" =>
    /\ q.op \in Operations /\ q.kind \in PostKinds /\ q.user \in Users
    /\ q.op \in PathOps => \E i : q.on = {i}
    /\ q.op # "follow" => q.row \in Ids \cup {NoRow}
    /\ \A i \in q.on \cup {q.row} : Fresh(i)
    /\ q.at \in {"geocode", "location"} => q.op = "createBrewery"
    /\ q.at = "glass" => q.op = "createStyle"
    /\ q.at = "peer" => q.op \notin OwnerOps
    /\ \A r \in rows : r.id \in q.on =>
         /\ r.kind \in TargetKinds(q.op, q.kind)
         /\ q.at = "write" /\ q.op \in OwnerOps => Owned(q.user, r)
    /\ \A r \in rows : r.id = q.row =>
         \/ q.op = "createBrewery" /\ r.kind = "location"
         \/ q.op = "like" /\ r.kind = "like" /\ r.by = q.user /\ r.on = q.on

(* The files a request has stored are there until it is done, and are not  *)
(* used while it may still remove them.                                    *)
Keeps(q) ==
  /\ \A f \in q.files : f < serial
  /\ q.at # "done" => q.files \subseteq objects
  /\ q.at \in {"auth", "upload"} => \A f \in q.files : ~Linked(f)

RequestsOK ==
  /\ req \in [Slots -> Requests]
  /\ \A s \in Slots : Aimed(req[s]) /\ Keeps(req[s])
  /\ \A s, q \in Slots : s # q => req[s].files \cap req[q].files = {}

(* An id stays in its table. *)
SeedKept == \A r \in rows, p \in SeedRows : r.id = p.id => r.kind = p.kind

IInv == StoreOK /\ RequestsOK /\ SeedKept /\ served \in Nat

-----------------------------------------------------------------------------
(* The statements of the store.                                            *)

LEMMA RowTyped ==
  ASSUME NEW r \in Row
  PROVE  /\ r.id \in Ids /\ r.kind \in Kinds /\ r.by \in Users /\ r.on \subseteq Ids
         /\ r.ref \in Ids \cup {q.ref : q \in SeedRows} \cup {NoRow} /\ r.edits \in Nat
  BY DEF Row

(* What a row becomes that stays: its table and posts are the same, and    *)
(* its poster, unless it is a brewery that has been edited.                *)
Becomes(q, r) ==
  /\ r.id = q.id /\ r.kind = q.kind /\ r.on = q.on
  /\ r.kind = "brewery" /\ q.edits > 0 => r.edits > 0
  /\ Owned(q.by, r)

(* What a step of a request may do to the store: rows become others of     *)
(* their kind, new ones get a fresh id, and only its own files F are       *)
(* linked or removed.                                                      *)
StoreStep(F) ==
  /\ serial' \in Nat /\ serial <= serial'
  /\ objects \ F \subseteq objects'
  /\ \A r \in rows' :
       /\ \/ r.id = serial /\ serial < serial'
          \/ \E q \in rows : Becomes(q, r)
       /\ r.kind \in ImageKinds => Linked(r.ref) \/ r.ref \in F

LEMMA StoreStutters ==
  ASSUME StoreOK, UNCHANGED store, NEW F
  PROVE  StoreOK' /\ StoreStep(F)
  <1>1. StoreOK'
    BY DEF StoreOK, store, Fresh, NoDangling, Hanging, Rows, IdsOf
  <1>2. StoreStep(F)
    BY DEF StoreOK, store, StoreStep, Becomes, Owned, Linked
  <1> QED
    BY <1>1, <1>2

LEMMA InsertKeeps ==
  ASSUME StoreOK, NEW kind \in Kinds, NEW u \in Users, NEW on, NEW ref, NEW F,
         Insert(kind, u, on, ref),
         ref \in Ids \cup {NoRow},
         \A r \in rows : r.id \in on => r.kind \in HangsOn(kind),
         kind = "brewery" => \E q \in rows : q.kind = "location" /\ q.id = ref,
         kind \in ImageKinds => ref \in objects /\ ref \in F
  PROVE  StoreOK' /\ StoreStep(F)
  <1> DEFINE n == NewRow(kind, u, on, ref)
  <1>1. /\ n.id = serial /\ n.kind = kind /\ n.by = u /\ n.on = on /\ n.ref = ref
        /\ n.edits = 0
    BY DEF NewRow
  <1>2. /\ rows' = rows \cup {n} /\ serial' = serial + 1
        /\ users' = users /\ follows' = follows /\ objects' = objects
        /\ u \in users /\ \A i \in on : \E q \in rows : q.id = i
    BY DEF Insert, CanInsert, Has, IdsOf
  <1>3. serial \in Nat /\ rows \subseteq Row
    BY DEF StoreOK
  <1>4. on \subseteq Ids
    BY <1>2, <1>3, RowTyped
  <1>5. n \in Row
    BY <1>3, <1>4 DEF NewRow, Row, Ids
  <1> HIDE DEF n
  <1>6. \A r \in rows : r.id # serial
    BY DEF StoreOK, Fresh
  <1>7. \A r \in rows' : Fresh(r.id)'
    BY <1>1, <1>2, <1>3 DEF StoreOK, Fresh
  <1>8. \A r, q \in rows' : r.id = q.id => r = q
    BY <1>1, <1>2, <1>6 DEF StoreOK
  <1>9. \A f \in objects' : Fresh(f)'
    BY <1>2, <1>3 DEF StoreOK, Fresh
  <1>10. NoDangling'
    <2>1. IdsOf(rows)' = IdsOf(rows) \cup {serial}
      BY <1>1, <1>2 DEF IdsOf
    <2>2. IdsOf(Rows("location")) \subseteq IdsOf(Rows("location"))'
      BY <1>2 DEF IdsOf, Rows
    <2>3. \A r \in rows :
            /\ r.by \in users' /\ r.on \subseteq IdsOf(rows')
            /\ r.kind = "brewery" => r.ref \in IdsOf(Rows("location"))'
            /\ r.kind \in {"image", "avatar"} => r.ref \in objects'
      BY <1>2, <2>1, <2>2 DEF StoreOK, NoDangling
    <2>4. /\ n.by \in users' /\ n.on \subseteq IdsOf(rows')
          /\ n.kind = "brewery" => n.ref \in IdsOf(Rows("location"))'
          /\ n.kind \in {"image", "avatar"} => n.ref \in objects'
      <3>1. n.kind = "brewery" => n.ref \in IdsOf(Rows("location"))
        BY <1>1 DEF IdsOf, Rows
      <3> QED
        BY <1>1, <1>2, <2>1, <2>2, <3>1 DEF IdsOf, ImageKinds
    <2> QED
      BY <1>2, <2>3, <2>4 DEF StoreOK, NoDangling
  <1>11. Hanging'
    <2>1. \A r \in rows : serial \notin r.on
      BY <1>6 DEF StoreOK, NoDangling, IdsOf
    <2>2. serial \notin on
      BY <1>2, <1>6
    <2> QED
      BY <1>1, <1>2, <2>1, <2>2 DEF StoreOK, Hanging
  <1>12. StoreOK'
    BY <1>2, <1>3, <1>5, <1>7, <1>8, <1>9, <1>10, <1>11 DEF StoreOK
  <1>13. StoreStep(F)
    BY <1>1, <1>2, <1>3 DEF StoreStep, Becomes, Owned, Linked
  <1> QED
    BY <1>12, <1>13

(* A statement that only takes rows away. *)
LEMMA RemovalKeeps ==
  ASSUME StoreOK, NEW F, rows' \subseteq rows, users' \subseteq users, follows' \subseteq follows,
         follows' \subseteq users' \X users',
         objects' \subseteq objects, objects \ F \subseteq objects',
         serial' = serial,
         \A r \in rows' :
           /\ r.by \in users' /\ r.on \subseteq IdsOf(rows')
           /\ r.kind = "brewery" => r.ref \in IdsOf(Rows("location"))'
           /\ r.kind \in ImageKinds => r.ref \in objects'
  PROVE  StoreOK' /\ StoreStep(F)
  <1>1. NoDangling'
    BY DEF NoDangling, ImageKinds
  <1>2. Hanging'
    BY DEF StoreOK, Hanging
  <1>3. StoreOK'
    BY <1>1, <1>2 DEF StoreOK, Fresh
  <1>4. StoreStep(F)
    BY DEF StoreOK, StoreStep, Becomes, Owned, Linked
  <1> QED
    BY <1>3, <1>4

(* Nothing is left that hangs on a row which Cascade removes: that would   *)
(* be a chain of five tables, and there is none.                           *)
LEMMA CascadeIsClosed ==
  ASSUME StoreOK, NEW S \in SUBSET rows, NEW r \in rows \ Cascade(S)
  PROVE  /\ r \notin S
         /\ \A q \in Cascade(S) : q \in rows /\ q.id \notin r.on
  <1> DEFINE A == WithDependents(S)
             B == WithDependents(A)
             C == WithDependents(B)
  <1>1. Cascade(S) = C
    BY DEF Cascade
  <1>2. /\ S \subseteq A /\ A \subseteq B /\ B \subseteq C /\ C \subseteq rows
        /\ \A q \in A \ S : \E p \in S : p.id \in q.on
        /\ \A q \in B \ A : \E p \in A : p.id \in q.on
        /\ \A q \in C \ B : \E p \in B : p.id \in q.on
        /\ \A q \in rows \ A : \A p \in S : p.id \notin q.on
        /\ \A q \in rows \ B : \A p \in A : p.id \notin q.on
        /\ \A q \in rows \ C : \A p \in B : p.id \notin q.on
    BY DEF WithDependents, IdsOf
  <1> HIDE DEF A, B, C
  <1>3. ASSUME NEW q \in C, q.id \in r.on PROVE FALSE
    <2>1. q \in C \ B /\ r \notin C
      BY <1>1, <1>2, <1>3
    <2>2. PICK p \in B : p.id \in q.on
      BY <1>2, <2>1
    <2>3. p \in B \ A
      BY <1>2, <2>1, <2>2
    <2>4. PICK o \in A : o.id \in p.on
      BY <1>2, <2>3
    <2>5. o \in A \ S
      BY <1>2, <2>3, <2>4
    <2>6. PICK n \in S : n.id \in o.on
      BY <1>2, <2>5
    <2>7. {p, o, n, q} \subseteq rows
      BY <1>2, <2>2, <2>4, <2>6
    <2>8. /\ q.kind \in HangsOn(r.kind) /\ p.kind \in HangsOn(q.kind)
          /\ o.kind \in HangsOn(p.kind) /\ n.kind \in HangsOn(o.kind)
      BY <1>3, <2>2, <2>4, <2>6, <2>7 DEF StoreOK, Hanging
    <2> QED
      BY <2>8 DEF HangsOn, PostKinds
  <1> QED
    BY <1>1, <1>2, <1>3

LEMMA CascadeKeeps ==
  ASSUME StoreOK, NEW F, NEW S \in SUBSET rows, rows' = rows \ Cascade(S),
         users' \subseteq users, UNCHANGED <<follows, objects, serial>>,
         follows \subseteq users' \X users',
         \A r \in rows : r.by \notin users' => r \in S,
         ~StillLocated(Cascade(S))
  PROVE  StoreOK' /\ StoreStep(F)
  <1> SUFFICES ASSUME NEW r \in rows'
               PROVE  /\ r.by \in users' /\ r.on \subseteq IdsOf(rows')
                      /\ r.kind = "brewery" => r.ref \in IdsOf(Rows("location"))'
                      /\ r.kind \in ImageKinds => r.ref \in objects'
    BY RemovalKeeps
  <1>1. r \in rows /\ r \notin S /\ \A q \in Cascade(S) : q.id \notin r.on
    BY CascadeIsClosed
  <1>2. r.by \in users'
    BY <1>1
  <1>3. r.on \subseteq IdsOf(rows')
    BY <1>1 DEF StoreOK, NoDangling, IdsOf
  <1>4. r.kind = "brewery" => r.ref \in IdsOf(Rows("location"))'
    <2> SUFFICES ASSUME r.kind = "brewery" PROVE r.ref \in IdsOf(Rows("location"))'
      OBVIOUS
    <2>1. PICK q \in rows : q.kind = "location" /\ q.id = r.ref
      BY <1>1 DEF StoreOK, NoDangling, IdsOf, Rows
    <2>2. q \notin Cascade(S)
      BY <2>1 DEF StillLocated, IdsOf
    <2> QED
      BY <2>1, <2>2 DEF IdsOf, Rows
  <1>5. r.kind \in ImageKinds => r.ref \in objects'
    BY <1>1 DEF StoreOK, NoDangling, ImageKinds
  <1> QED
    BY <1>2, <1>3, <1>4, <1>5

(* Posts, comments and likes are deleted by their id: no location goes. *)
LEMMA DeleteKeeps ==
  ASSUME StoreOK, NEW F, NEW i, Delete(i), \A r \in rows : r.id = i => r.kind # "location"
  PROVE  StoreOK' /\ StoreStep(F)
  <1> DEFINE S == {r \in rows : r.id = i}
  <1>1. /\ rows' = rows \ Cascade(S) /\ UNCHANGED <<users, follows, objects, serial>>
    BY DEF Delete
  <1>2. \A q \in Cascade(S) : q.kind # "location"
    <2>1. \A q \in Cascade(S) : q \in rows /\ (q \in S \/ q.on # {})
      BY DEF Cascade, WithDependents
    <2>2. \A q \in rows : q.kind = "location" => q.on = {}
      BY DEF StoreOK, Hanging, NoDangling, IdsOf, HangsOn
    <2> QED
      BY <2>1, <2>2
  <1>3. ~StillLocated(Cascade(S))
    <2> SUFFICES ASSUME StillLocated(Cascade(S)) PROVE FALSE
      OBVIOUS
    <2>1. PICK b \in rows, q \in Cascade(S) : b.kind = "brewery" /\ b.ref = q.id
      BY DEF StillLocated, IdsOf
    <2>2. PICK l \in rows : l.kind = "location" /\ l.id = b.ref
      BY <2>1 DEF StoreOK, NoDangling, IdsOf, Rows
    <2>3. q \in rows
      BY DEF Cascade, WithDependents
    <2> QED
      BY <1>2, <2>1, <2>2, <2>3 DEF StoreOK
  <1>4. follows \subseteq users' \X users' /\ \A r \in rows : r.by \notin users' => r \in S
    BY <1>1 DEF StoreOK, NoDangling
  <1> HIDE DEF S
  <1> QED
    BY <1>1, <1>3, <1>4, CascadeKeeps DEF S

LEMMA DeleteUserKeeps ==
  ASSUME StoreOK, NEW F, NEW u, DeleteUser(u)
  PROVE  StoreOK' /\ StoreStep(F)
  <1>1. /\ rows' = rows \ Cascade(RowsOf(u)) /\ users' = users \ {u}
        /\ UNCHANGED <<follows, objects, serial>>
        /\ ~Followed(u) /\ ~StillLocated(Cascade(RowsOf(u)))
    BY DEF DeleteUser, CanDeleteUser
  <1>2. RowsOf(u) \subseteq rows /\ \A r \in rows : r.by \notin users' => r \in RowsOf(u)
    BY <1>1 DEF RowsOf, StoreOK, NoDangling
  <1>3. follows \subseteq users' \X users'
    BY <1>1 DEF Followed, StoreOK, NoDangling
  <1> QED
    BY <1>1, <1>2, <1>3, CascadeKeeps

(* A row changes its contents, or an avatar its file. *)
LEMMA ChangeKeeps ==
  ASSUME StoreOK, NEW F, rows' \subseteq Row,
         UNCHANGED <<users, follows, objects>>, serial' \in Nat, serial <= serial',
         \A r \in rows' : \E q \in rows :
           /\ Becomes(q, r) /\ r.by = q.by
           /\ r.ref = q.ref \/ (r.kind \in ImageKinds /\ r.ref \in F \cap objects),
         \A q \in rows : \E r \in rows' : r.id = q.id,
         \A r, q \in rows' : r.id = q.id => r = q
  PROVE  StoreOK' /\ StoreStep(F)
  <1>1. \A r \in rows' : Fresh(r.id)'
    BY DEF StoreOK, Fresh, Becomes
  <1>2. NoDangling'
    <2>1. \A q \in rows : \E r \in rows' : r.id = q.id /\ r.kind = q.kind
      BY DEF StoreOK, Becomes
    <2>2. /\ IdsOf(rows) \subseteq IdsOf(rows')
          /\ IdsOf(Rows("location")) \subseteq IdsOf(Rows("location"))'
      BY <2>1 DEF IdsOf, Rows
    <2> QED
      BY <2>2 DEF StoreOK, NoDangling, Becomes, ImageKinds
  <1>3. Hanging'
    BY DEF StoreOK, Hanging, Becomes
  <1>4. StoreOK'
    BY <1>1, <1>2, <1>3 DEF StoreOK, Fresh
  <1>5. StoreStep(F)
    BY DEF StoreStep, Becomes, Linked
  <1> QED
    BY <1>4, <1>5

LEMMA EditKeeps ==
  ASSUME StoreOK, NEW F, NEW i, Edit(i)
  PROVE  StoreOK' /\ StoreStep(F)
  <1> DEFINE New(r) == IF r.id = i THEN [r EXCEPT !.edits = @ + 1] ELSE r
  <1>1. /\ rows' = {New(r) : r \in rows}
        /\ UNCHANGED <<users, follows, objects, serial>>
    BY DEF Edit
  <1>2. \A r \in rows :
          /\ New(r) \in Row /\ New(r).id = r.id /\ New(r).kind = r.kind
          /\ New(r).by = r.by /\ New(r).on = r.on /\ New(r).ref = r.ref
          /\ r.edits > 0 => New(r).edits > 0
    BY DEF StoreOK, Row
  <1> HIDE DEF New
  <1>3. rows' \subseteq Row
    BY <1>1, <1>2
  <1>4. \A r \in rows' : \E q \in rows :
          Becomes(q, r) /\ r.by = q.by /\ r.ref = q.ref
    BY <1>1, <1>2 DEF Becomes, Owned
  <1>5. \A q \in rows : \E r \in rows' : r.id = q.id
    BY <1>1, <1>2
  <1>6. \A r, q \in rows' : r.id = q.id => r = q
    BY <1>1, <1>2 DEF StoreOK
  <1>7. serial' \in Nat /\ serial <= serial'
    BY <1>1 DEF StoreOK
  <1> QED
    BY <1>1, <1>3, <1>4, <1>5, <1>6, <1>7, ChangeKeeps

(* A brewery is updated with whatever the body of the request says. *)
LEMMA UpdateBreweryKeeps ==
  ASSUME StoreOK, NEW F, NEW i, UpdateBrewery(i), \A r \in rows : r.id = i => r.kind = "brewery"
  PROVE  StoreOK' /\ StoreStep(F)
  <1>1. PICK by \in users, l \in IdsOf(Rows("location")), gone \in SUBSET {r \in rows : i \in r.on} :
          \E touched \in SUBSET (Within(i) \ gone) :
            rows' = {IF r.id = i THEN [r EXCEPT !.edits = @ + 1, !.by = by, !.ref = l]
                     ELSE IF r \in touched THEN [r EXCEPT !.edits = @ + 1]
                     ELSE r : r \in rows \ Cascade(gone)}
    BY DEF UpdateBrewery
  <1>2. PICK touched :
            rows' = {IF r.id = i THEN [r EXCEPT !.edits = @ + 1, !.by = by, !.ref = l]
                     ELSE IF r \in touched THEN [r EXCEPT !.edits = @ + 1]
                     ELSE r : r \in rows \ Cascade(gone)}
    BY <1>1
  <1> DEFINE New(r) == IF r.id = i THEN [r EXCEPT !.edits = @ + 1, !.by = by, !.ref = l]
                       ELSE IF r \in touched THEN [r EXCEPT !.edits = @ + 1]
                       ELSE r
             rest == rows \ Cascade(gone)
  <1>3. /\ rows' = {New(r) : r \in rest} /\ rest \subseteq rows /\ rows \subseteq Row
        /\ UNCHANGED <<users, follows, objects, serial>> /\ serial \in Nat /\ users \subseteq Users
    BY <1>2 DEF UpdateBrewery, StoreOK
  <1>4. PICK place \in rows : place.kind = "location" /\ place.id = l
    BY DEF IdsOf, Rows
  <1>5. l \in Ids
    BY <1>3, <1>4, RowTyped
  <1>6. \A r \in rows :
          /\ New(r) \in Row /\ New(r).id = r.id /\ New(r).kind = r.kind /\ New(r).on = r.on
          /\ New(r).by = IF r.id = i THEN by ELSE r.by
          /\ New(r).ref = IF r.id = i THEN l ELSE r.ref
          /\ r.edits > 0 \/ r.id = i => New(r).edits > 0
    <2> SUFFICES ASSUME NEW r \in rows
                 PROVE  /\ New(r) \in Row /\ New(r).id = r.id /\ New(r).kind = r.kind
                        /\ New(r).on = r.on
                        /\ New(r).by = IF r.id = i THEN by ELSE r.by
                        /\ New(r).ref = IF r.id = i THEN l ELSE r.ref
                        /\ r.edits > 0 \/ r.id = i => New(r).edits > 0
      OBVIOUS
    <2> DEFINE e == [r EXCEPT !.edits = @ + 1]
               f == [r EXCEPT !.edits = @ + 1, !.by = by, !.ref = l]
    <2>1. r \in Row /\ r.edits \in Nat
      BY <1>3, RowTyped
    <2>2. /\ e \in Row /\ e.id = r.id /\ e.kind = r.kind /\ e.on = r.on /\ e.by = r.by
          /\ e.ref = r.ref /\ e.edits = r.edits + 1
      BY <2>1 DEF Row
    <2>3. by \in Users /\ l \in Ids \cup {q.ref : q \in SeedRows} \cup {NoRow}
      BY <1>3, <1>5
    <2>4. /\ f.id = r.id /\ f.kind = r.kind /\ f.on = r.on /\ f.by = by
          /\ f.ref = l /\ f.edits = r.edits + 1
      BY <2>1 DEF Row
    <2>5. f \in Row
      <3> DEFINE g == [e EXCEPT !.by = by]
                 h == [g EXCEPT !.ref = l]
      <3>1. g \in Row
        <4> HIDE DEF e
        <4> QED
          BY <2>2, <2>3 DEF Row
      <3>2. h \in Row
        <4> HIDE DEF g
        <4> QED
          BY <2>3, <3>1 DEF Row
      <3>3. f = h
        BY <2>1 DEF Row
      <3> QED
        BY <3>2, <3>3
    <2> HIDE DEF e, f
    <2>6. New(r) = IF r.id = i THEN f ELSE IF r \in touched THEN e ELSE r
      BY DEF e, f
    <2> HIDE DEF New
    <2> QED
      BY <2>1, <2>2, <2>4, <2>5, <2>6
  <1> HIDE DEF New
  <1>7. \A r \in rest : Becomes(r, New(r))
    BY <1>3, <1>6 DEF Becomes, Owned
  <1>8. rows' \subseteq Row /\ (\A r, q \in rows' : r.id = q.id => r = q)
        /\ \A r \in rows' : Fresh(r.id)'
    BY <1>3, <1>6 DEF StoreOK, Fresh
  <1>9. \A q \in rows : q.kind = "location" => q \in rest /\ New(q) \in rows'
    <2>1. \A q \in Cascade(gone) : q \in rows /\ q.on # {}
      BY DEF Cascade, WithDependents
    <2>2. \A q \in rows : q.kind = "location" => q.on = {}
      BY DEF StoreOK, Hanging, NoDangling, IdsOf, HangsOn
    <2> QED
      BY <1>3, <2>1, <2>2
  <1>10. ASSUME NEW r \in rest
         PROVE  /\ New(r).by \in users /\ New(r).on \subseteq IdsOf(rows')
                /\ New(r).kind = "brewery" => New(r).ref \in IdsOf(Rows("location"))'
                /\ New(r).kind \in ImageKinds => New(r).ref = r.ref /\ New(r).ref \in objects
    <2>1. r \in rows /\ \A q \in Cascade(gone) : q.id \notin r.on
      BY <1>3, CascadeIsClosed
    <2>2. r.on \subseteq IdsOf(rows')
      <3>1. ASSUME NEW j \in r.on PROVE j \in IdsOf(rows')
        <4>1. PICK q \in rows : q.id = j
          BY <2>1 DEF StoreOK, NoDangling, IdsOf
        <4>2. q \in rest
          BY <2>1, <4>1
        <4> QED
          BY <1>3, <1>6, <4>1, <4>2 DEF IdsOf
      <3> QED
        BY <3>1
    <2>3. r.kind = "brewery" => New(r).ref \in IdsOf(Rows("location"))'
      <3>1. \A q \in rows : q.kind = "location" => q.id \in IdsOf(Rows("location"))'
        BY <1>3, <1>6, <1>9 DEF IdsOf, Rows
      <3>2. r.kind = "brewery" => \E q \in rows : q.kind = "location" /\ q.id = New(r).ref
        BY <1>4, <1>6, <2>1 DEF StoreOK, NoDangling, IdsOf, Rows
      <3> QED
        BY <3>1, <3>2
    <2>4. New(r).by \in users
      BY <1>6, <2>1 DEF StoreOK, NoDangling
    <2>5. r.kind \in ImageKinds => New(r).ref = r.ref /\ r.ref \in objects
      BY <1>6, <2>1 DEF StoreOK, NoDangling, ImageKinds
    <2> QED
      BY <1>6, <2>1, <2>2, <2>3, <2>4, <2>5
  <1>11. NoDangling'
    BY <1>3, <1>10 DEF StoreOK, NoDangling, ImageKinds
  <1>12. Hanging'
    BY <1>3, <1>6 DEF StoreOK, Hanging
  <1>13. StoreOK'
    BY <1>3, <1>8, <1>11, <1>12 DEF StoreOK, Fresh
  <1>14. StoreStep(F)
    BY <1>3, <1>6, <1>7, <1>10 DEF StoreStep, Linked
  <1> QED
    BY <1>13, <1>14

LEMMA UpsertKeeps ==
  ASSUME StoreOK, NEW F, NEW u, NEW path \in F \cap objects, path \in Nat, UpsertAvatar(u, path)
  PROVE  StoreOK' /\ StoreStep(F)
  <1> DEFINE old == {r \in rows : r.kind = "avatar" /\ r.by = u}
             New(r) == [r EXCEPT !.ref = path]
  <1>1. /\ UNCHANGED <<users, follows, objects>> /\ serial' = serial + 1 /\ u \in users
        /\ old = {} => rows' = rows \cup {NewRow("avatar", u, {}, path)}
        /\ old # {} => rows' = (rows \ old) \cup {New(r) : r \in old}
    BY DEF UpsertAvatar, Rows
  <1>2. CASE old = {}
    <2>1. Insert("avatar", u, {}, path)
      BY <1>1, <1>2 DEF Insert, CanInsert
    <2>2. /\ "avatar" \in Kinds /\ u \in Users /\ path \in Ids \cup {NoRow}
          /\ \A r \in rows : r.id \in {} => r.kind \in HangsOn("avatar")
      BY <1>1 DEF StoreOK, Kinds, Ids
    <2> HIDE DEF old
    <2> QED
      BY <2>1, <2>2, InsertKeeps
  <1>3. CASE old # {}
    <2>1. \A r \in old :
            /\ New(r) \in Row /\ New(r).id = r.id /\ New(r).kind = r.kind
            /\ New(r).by = r.by /\ New(r).on = r.on /\ New(r).ref = path
            /\ New(r).edits = r.edits /\ r.kind \in ImageKinds
      BY DEF StoreOK, Row, Ids, ImageKinds
    <2>2. old \subseteq rows
      OBVIOUS
    <2>3. serial' \in Nat /\ serial <= serial'
      BY <1>1 DEF StoreOK
    <2> HIDE DEF New, old
    <2>4. rows' \subseteq Row
      BY <1>1, <1>3, <2>1 DEF StoreOK
    <2>5. \A r \in rows' : \E q \in rows :
            /\ Becomes(q, r) /\ r.by = q.by
            /\ r.ref = q.ref \/ (r.kind \in ImageKinds /\ r.ref \in F \cap objects)
      BY <1>1, <1>3, <2>1, <2>2 DEF Becomes, Owned
    <2>6. \A q \in rows : \E r \in rows' : r.id = q.id
      BY <1>1, <1>3, <2>1
    <2>7. \A r, q \in rows' : r.id = q.id => r = q
      BY <1>1, <1>3, <2>1, <2>2 DEF StoreOK
    <2> QED
      BY <1>1, <2>3, <2>4, <2>5, <2>6, <2>7, ChangeKeeps
  <1> QED
    BY <1>2, <1>3

LEMMA FollowKeeps ==
  ASSUME StoreOK, NEW F, NEW f, NEW u, CreateFollow(f, u) \/ DeleteFollow(f, u)
  PROVE  StoreOK' /\ StoreStep(F)
  <1>1. /\ UNCHANGED <<users, rows, objects, serial>>
        /\ follows' \subseteq users' \X users'
    BY DEF CreateFollow, CanFollow, DeleteFollow, StoreOK, NoDangling
  <1>2. StoreOK'
    BY <1>1 DEF StoreOK, Fresh, NoDangling, Hanging, Rows, IdsOf
  <1>3. StoreStep(F)
    BY <1>1 DEF StoreOK, StoreStep, Becomes, Owned, Linked
  <1> QED
    BY <1>2, <1>3

LEMMA StoreObjectKeeps ==
  ASSUME StoreOK, NEW F, StoreObject
  PROVE  StoreOK' /\ StoreStep(F)
  <1>1. /\ UNCHANGED <<users, rows, follows>> /\ serial' = serial + 1
        /\ objects' = objects \cup {serial} /\ serial \in Nat
    BY DEF StoreObject, StoreOK
  <1>2. \A f \in objects' : Fresh(f)'
    BY <1>1 DEF StoreOK, Fresh
  <1>3. \A r \in rows : Fresh(r.id)'
    BY <1>1 DEF StoreOK, Fresh
  <1>4. NoDangling'
    BY <1>1 DEF StoreOK, NoDangling, Rows, IdsOf
  <1>5. StoreOK'
    BY <1>1, <1>2, <1>3, <1>4 DEF StoreOK, Hanging
  <1>6. StoreStep(F)
    BY <1>1 DEF StoreOK, StoreStep, Becomes, Owned, Linked
  <1> QED
    BY <1>5, <1>6

(* Files that no row uses are removed. *)
LEMMA RemoveFilesKeeps ==
  ASSUME StoreOK, NEW F, \A f \in F : ~Linked(f), objects' = objects \ F,
         UNCHANGED <<users, rows, follows, serial>>
  PROVE  StoreOK' /\ StoreStep(F)
  <1>1. ASSUME NEW r \in rows'
        PROVE  /\ r.by \in users' /\ r.on \subseteq IdsOf(rows')
               /\ r.kind = "brewery" => r.ref \in IdsOf(Rows("location"))'
               /\ r.kind \in ImageKinds => r.ref \in objects'
    BY DEF StoreOK, NoDangling, Linked, ImageKinds, Rows, IdsOf
  <1>2. follows \subseteq users \X users
    BY DEF StoreOK, NoDangling
  <1> QED
    BY <1>1, <1>2, RemovalKeeps

-----------------------------------------------------------------------------
(* The requests, while one of them takes a step.                           *)

LEMMA Request ==
  ASSUME IInv, NEW s \in Slots
  PROVE  /\ StoreOK /\ served \in Nat /\ req \in [Slots -> Requests] /\ SeedKept
         /\ req[s] \in Requests /\ Aimed(req[s]) /\ Keeps(req[s])
         /\ \A q \in Slots : s # q => req[s].files \cap req[q].files = {}
  BY DEF IInv, RequestsOK

LEMMA AimedStays ==
  ASSUME StoreOK, NEW F, StoreStep(F), NEW q, Aimed(q)
  PROVE  Aimed(q)'
  <1> SUFFICES ASSUME q.at # "idle" PROVE Aimed(q)'
    BY DEF Aimed
  <1>1. \A i : Fresh(i) => Fresh(i)'
    BY DEF StoreOK, StoreStep, Fresh
  <1>2. \A r \in rows' : r.id \in q.on \cup {q.row} =>
          \E o \in rows : Becomes(o, r)
    BY DEF StoreOK, StoreStep, Aimed, Fresh, Becomes
  <1> QED
    BY <1>1, <1>2 DEF Aimed, Becomes, Owned

LEMMA KeepsStays ==
  ASSUME StoreOK, NEW F, StoreStep(F), NEW q \in Requests, Keeps(q), F \cap q.files = {}
  PROVE  Keeps(q)'
  <1>1. \A f \in q.files : f \in Nat
    BY DEF Requests
  <1>2. \A f \in q.files : f < serial'
    BY <1>1 DEF StoreOK, StoreStep, Keeps
  <1>3. q.files \subseteq objects => q.files \subseteq objects'
    BY DEF StoreStep
  <1>4. \A f \in q.files : Linked(f)' => Linked(f)
    BY DEF StoreStep, Linked
  <1> QED
    BY <1>2, <1>3, <1>4 DEF Keeps

LEMMA StepIsSound ==
  ASSUME IInv, NEW s \in Slots, NEW r \in Requests, req' = [req EXCEPT ![s] = r],
         StoreOK', StoreStep(req[s].files), served' \in Nat,
         Aimed(r)',
         \A f \in r.files : f \in req[s].files \/ (f = serial /\ serial < serial'),
         r.at # "done" => r.files \subseteq objects',
         r.at \in {"auth", "upload"} => \A f \in r.files : ~Linked(f)'
  PROVE  IInv'
  <1>1. req' \in [Slots -> Requests] /\ req'[s] = r /\ \A q \in Slots \ {s} : req'[q] = req[q]
    BY Request
  <1>2. Keeps(r)'
    <2>1. \A f \in r.files : f < serial'
      <3>1. \A f \in req[s].files : f \in Nat /\ f < serial
        BY Request DEF Requests, Keeps
      <3> QED
        BY <3>1, Request DEF StoreOK, StoreStep
    <2> QED
      BY <2>1 DEF Keeps
  <1>3. ASSUME NEW q \in Slots PROVE Aimed(req[q])' /\ Keeps(req[q])'
    <2>1. PICK p \in Requests : p = req'[q] /\ Aimed(p)' /\ Keeps(p)'
      <3>1. CASE q = s
        BY <1>1, <1>2, <3>1
      <3>2. CASE q # s
        <4>1. PICK p \in Requests : p = req[q]
          BY Request
        <4>2. Aimed(p)' /\ Keeps(p)'
          BY <3>2, <4>1, Request, AimedStays, KeepsStays
        <4> QED
          BY <1>1, <3>2, <4>1, <4>2
      <3> QED
        BY <3>1, <3>2
    <2> QED
      BY <2>1 DEF Aimed, Keeps
  <1>4. \A q \in Slots \ {s} : r.files \cap req[q].files = {}
    <2>1. ASSUME NEW q \in Slots \ {s}, NEW f \in req[q].files PROVE f # serial
      BY Request DEF Keeps, Requests, StoreOK
    <2> QED
      BY <2>1, Request
  <1>5. \A p, q \in Slots : p # q => req'[p].files \cap req'[q].files = {}
    BY <1>1, <1>4, Request
  <1>6. SeedKept'
    <2>1. serial \in Nat /\ SeedKept
      BY Request DEF StoreOK
    <2>2. \A p \in SeedRows : p.id # serial
      BY <2>1, SeedIsSound DEF IdsOf
    <2> QED
      BY <2>1, <2>2 DEF SeedKept, StoreStep, Becomes
  <1> QED
    BY <1>1, <1>3, <1>5, <1>6 DEF IInv, RequestsOK

(* The request goes on, with the files it has. *)
LEMMA MoveIsSound ==
  ASSUME IInv, NEW s \in Slots, req[s].at # "idle", req[s].at # "done", NEW r \in Requests,
         req' = [req EXCEPT ![s] = r],
         StoreOK', StoreStep(req[s].files), served' \in Nat,
         objects \subseteq objects' \/ r.at = "done",
         r.op = req[s].op, r.kind = req[s].kind, r.user = req[s].user, r.on = req[s].on,
         r.files = req[s].files, r.at # "idle",
         r.at \in {"auth", "upload"} =>
           req[s].at \in {"auth", "upload"} /\ \A f \in r.files : Linked(f)' => Linked(f),
         r.at \in {"geocode", "location"} => r.op = "createBrewery",
         r.at = "glass" => r.op = "createStyle",
         r.at = "peer" => r.op \notin OwnerOps,
         r.at = "write" /\ r.op \in OwnerOps => \A x \in rows' : x.id \in r.on => Owned(r.user, x),
         r.row = req[s].row \/
           /\ Fresh(r.row)'
           /\ r.op # "follow" => r.row \in Ids \cup {NoRow}
           /\ \A x \in rows' : x.id = r.row =>
                \/ r.op = "createBrewery" /\ x.kind = "location"
                \/ r.op = "like" /\ x.kind = "like" /\ x.by = r.user /\ x.on = r.on
  PROVE  IInv'
  <1>1. Aimed(r)'
    <2>1. PICK q \in Requests : q = req[s]
      BY Request
    <2>2. Aimed(q)' /\ q.at # "idle"
      BY <2>1, Request, AimedStays
    <2> QED
      BY <2>1, <2>2 DEF Aimed
  <1>2. Keeps(req[s])
    BY Request
  <1>3. r.at # "done" => r.files \subseteq objects'
    BY <1>2 DEF Keeps
  <1>4. r.at \in {"auth", "upload"} => \A f \in r.files : ~Linked(f)'
    BY <1>2 DEF Keeps
  <1> QED
    BY <1>1, <1>3, <1>4, StepIsSound

(* It answers. *)
LEMMA Moved ==
  ASSUME NEW q \in Requests, NEW stage \in Stages
  PROVE  LET r == [q EXCEPT !.at = stage] IN
         /\ r \in Requests /\ r.op = q.op /\ r.kind = q.kind /\ r.user = q.user
         /\ r.on = q.on /\ r.row = q.row /\ r.files = q.files /\ r.at = stage
  BY DEF Requests

LEMMA ReplyIsSound ==
  ASSUME IInv, NEW s \in Slots, req[s].at # "idle", req[s].at # "done",
         NEW code \in Codes,
         Reply(s, code), StoreOK', StoreStep(req[s].files), served' \in Nat
  PROVE  IInv'
  <1>1. "done" \in Stages /\ req \in [Slots -> Requests] /\ req[s] \in Requests
    BY Request DEF Stages
  <1>2. PICK r \in Requests :
          /\ req' = [req EXCEPT ![s] = r]
          /\ r.op = req[s].op /\ r.kind = req[s].kind /\ r.user = req[s].user
          /\ r.on = req[s].on /\ r.row = req[s].row /\ r.files = req[s].files /\ r.at = "done"
    <2> DEFINE q == [req[s] EXCEPT !.at = "done"]
               p == [req EXCEPT ![s] = q]
               r == [q EXCEPT !.code = code]
    <2>1. q \in Requests
      BY <1>1 DEF Requests
    <2>2. /\ q.op = req[s].op /\ q.kind = req[s].kind /\ q.user = req[s].user
          /\ q.on = req[s].on /\ q.row = req[s].row /\ q.files = req[s].files /\ q.at = "done"
      BY <1>1 DEF Requests
    <2>3. req' = [p EXCEPT ![s] = [p[s] EXCEPT !.code = code]]
      BY <1>1 DEF Reply
    <2> HIDE DEF q
    <2>4. r \in Requests
      BY <1>1, <2>1 DEF Requests
    <2>5. /\ r.op = req[s].op /\ r.kind = req[s].kind /\ r.user = req[s].user
          /\ r.on = req[s].on /\ r.row = req[s].row /\ r.files = req[s].files /\ r.at = "done"
      BY <2>1, <2>2 DEF Requests
    <2>6. p[s] = q
      BY <1>1
    <2>7. req' = [p EXCEPT ![s] = r]
      BY <2>3, <2>6
    <2> HIDE DEF r
    <2>8. req' = [req EXCEPT ![s] = r]
      <3>1. p = [x \in Slots |-> IF x = s THEN q ELSE req[x]]
        BY <1>1
      <3> HIDE DEF p
      <3>2. req' = [x \in Slots |-> IF x = s THEN r ELSE p[x]]
        BY <2>7, <3>1
      <3> QED
        BY <1>1, <3>1, <3>2
    <2> QED
      BY <2>4, <2>5, <2>8
  <1> QED
    BY <1>2, MoveIsSound

LEMMA RefuseIsSound ==
  ASSUME IInv, NEW s \in Slots, req[s].at # "idle", req[s].at # "done",
         NEW code \in Codes,
         Refuse(s, code), served' \in Nat
  PROVE  IInv'
  BY Request, StoreStutters, ReplyIsSound DEF Refuse

(* It goes on to a stage at which it still has nothing to keep. *)
LEMMA GotoIsSound ==
  ASSUME IInv, NEW s \in Slots, req[s].at # "idle", req[s].at # "done", NEW stage \in Stages,
         Goto(s, stage), UNCHANGED store, served' \in Nat, stage # "idle",
         stage \in {"auth", "upload"} => req[s].at \in {"auth", "upload"},
         stage \in {"geocode", "location"} => req[s].op = "createBrewery",
         stage = "glass" => req[s].op = "createStyle",
         stage = "peer" => req[s].op \notin OwnerOps,
         stage = "write" /\ req[s].op \in OwnerOps =>
           \A x \in rows : x.id \in req[s].on => Owned(req[s].user, x)
  PROVE  IInv'
  <1> DEFINE r == [req[s] EXCEPT !.at = stage]
  <1>1. req' = [req EXCEPT ![s] = r]
    BY Request DEF Goto, Requests
  <1>2. /\ r \in Requests /\ r.op = req[s].op /\ r.kind = req[s].kind /\ r.user = req[s].user
        /\ r.on = req[s].on /\ r.row = req[s].row /\ r.files = req[s].files /\ r.at = stage
    BY Request DEF Requests
  <1> HIDE DEF r
  <1>3. StoreOK' /\ StoreStep(req[s].files)
    BY Request, StoreStutters
  <1>4. UNCHANGED <<rows, objects>>
    BY DEF store
  <1>5. \A f : Linked(f)' => Linked(f)
    BY <1>4 DEF Linked
  <1> QED
    BY <1>1, <1>2, <1>3, <1>4, <1>5, MoveIsSound

(* A lookup: its result is kept. *)
LEMMA FoundIsSound ==
  ASSUME IInv, NEW s \in Slots, req[s].at # "idle", req[s].at # "done",
         NEW row \in Ids \cup Users \cup {NoRow}, req[s].op \notin OwnerOps,
         req' = [req EXCEPT ![s].row = row, ![s].at = "write"], served' \in Nat,
         StoreOK', StoreStep(req[s].files), objects \subseteq objects',
         Fresh(row)', req[s].op # "follow" => row \in Ids \cup {NoRow},
         \A x \in rows' : x.id = row =>
           \/ req[s].op = "createBrewery" /\ x.kind = "location"
           \/ req[s].op = "like" /\ x.kind = "like" /\ x.by = req[s].user /\ x.on = req[s].on
  PROVE  IInv'
  <1>1. "write" \in Stages /\ req \in [Slots -> Requests] /\ req[s] \in Requests
    BY Request DEF Stages
  <1>2. PICK r \in Requests :
          /\ req' = [req EXCEPT ![s] = r]
          /\ r.op = req[s].op /\ r.kind = req[s].kind /\ r.user = req[s].user
          /\ r.on = req[s].on /\ r.row = row /\ r.files = req[s].files /\ r.at = "write"
    <2> DEFINE q == [req[s] EXCEPT !.row = row]
               p == [req EXCEPT ![s] = q]
               r == [q EXCEPT !.at = "write"]
    <2>1. q \in Requests
      BY <1>1 DEF Requests
    <2>2. /\ q.op = req[s].op /\ q.kind = req[s].kind /\ q.user = req[s].user
          /\ q.on = req[s].on /\ q.row = row /\ q.files = req[s].files
      BY <1>1 DEF Requests
    <2>3. req' = [p EXCEPT ![s] = [p[s] EXCEPT !.at = "write"]]
      BY <1>1
    <2> HIDE DEF q
    <2>4. r \in Requests
      BY <1>1, <2>1, Moved
    <2>5. /\ r.op = req[s].op /\ r.kind = req[s].kind /\ r.user = req[s].user
          /\ r.on = req[s].on /\ r.row = row /\ r.files = req[s].files /\ r.at = "write"
      BY <1>1, <2>1, <2>2, Moved
    <2>6. p[s] = q
      BY <1>1
    <2>7. req' = [p EXCEPT ![s] = r]
      BY <2>3, <2>6
    <2> HIDE DEF r
    <2>8. req' = [req EXCEPT ![s] = r]
      <3>1. p = [x \in Slots |-> IF x = s THEN q ELSE req[x]]
        BY <1>1
      <3> HIDE DEF p
      <3>2. req' = [x \in Slots |-> IF x = s THEN r ELSE p[x]]
        BY <2>7, <3>1
      <3> QED
        BY <1>1, <3>1, <3>2
    <2> QED
      BY <2>4, <2>5, <2>8
  <1>3. \A x \in rows' : x.id = r.row =>
          \/ r.op = "createBrewery" /\ x.kind = "location"
          \/ r.op = "like" /\ x.kind = "like" /\ x.by = r.user /\ x.on = r.on
    BY <1>2
  <1>4. r.op \notin OwnerOps /\ Fresh(r.row)' /\ (r.op # "follow" => r.row \in Ids \cup {NoRow})
    BY <1>2
  <1> QED
    BY <1>2, <1>3, <1>4, MoveIsSound

-----------------------------------------------------------------------------
(* The steps of the requests, with whatever becomes of "served".           *)

LEMMA AllCodes == {200, 201, 400, 401, 403, 404, 500} \subseteq Codes
  BY DEF Codes

LEMMA TargetIsNamed ==
  ASSUME IInv, NEW s \in Slots, req[s].at # "idle", req[s].op \in PathOps
  PROVE  req[s].on = {Target(s)}
  BY Request DEF Aimed, Target

LEMMA TargetsFit ==
  ASSUME StoreOK, NEW op \in Operations, NEW kind \in PostKinds, NEW on \in Targets(op, kind)
  PROVE  /\ on \in SUBSET (Ids \cup Users)
         /\ op \in PathOps => \E i : on = {i}
         /\ \A i \in on : Fresh(i)
         /\ \A r \in rows : r.id \in on => r.kind \in TargetKinds(op, kind)
  <1>1. \A r \in rows : r.id \in Ids /\ r.kind \in Kinds /\ Fresh(r.id)
    BY RowTyped DEF StoreOK
  <1>2. \A u \in Users : Fresh(u) /\ \A r \in rows : r.id # u
    BY <1>1, SeedIsSound DEF Fresh, Ids
  <1>3. \A r, q \in rows : r.id = q.id => r = q
    BY DEF StoreOK
  <1>4. CASE op \in {"like", "comment", "image", "edit", "delete"}
    <2>1. PICK p \in rows : on = {p.id} /\ p.kind = kind
      BY <1>4 DEF Targets, Rows
    <2> QED
      BY <1>1, <1>3, <1>4, <2>1 DEF TargetKinds
  <1>5. CASE op \in {"editComment", "deleteComment"}
    <2>1. PICK p \in rows : on = {p.id} /\ p.kind = "comment"
      BY <1>5 DEF Targets, Rows
    <2> QED
      BY <1>1, <1>3, <1>5, <2>1 DEF TargetKinds
  <1>6. CASE op = "createBeer"
    <2>1. PICK p, q \in rows : on = {p.id, q.id} /\ p.kind = "brewery" /\ q.kind = "style"
      BY <1>6 DEF Targets, Rows
    <2> QED
      BY <1>1, <1>3, <1>6, <2>1 DEF TargetKinds, PathOps, OwnerOps
  <1>7. CASE op = "createStyle"
    <2>1. PICK p \in rows : on = {p.id} /\ p.kind = "glassware"
      BY <1>7 DEF Targets, Rows
    <2> QED
      BY <1>1, <1>3, <1>7, <2>1 DEF TargetKinds
  <1>8. CASE op = "createBrewery"
    <2>1. on = {}
      BY <1>8 DEF Targets
    <2> QED
      BY <1>8, <2>1 DEF PathOps, OwnerOps
  <1>9. CASE op \in {"follow", "deleteAccount", "avatar"}
    <2>1. PICK u \in Users : on = {u}
      BY <1>9 DEF Targets
    <2> QED
      BY <1>2, <1>9, <2>1
  <1> QED
    BY <1>4, <1>5, <1>6, <1>7, <1>8, <1>9 DEF Operations

LEMMA SubmitIsSound ==
  ASSUME IInv, NEW s \in Slots, NEW op \in Operations, NEW kind \in PostKinds, NEW u \in Users,
         NEW on \in SUBSET (Ids \cup Users), Submit(s, op, kind, u, on), served' \in Nat,
         op \in PathOps => \E i : on = {i}, \A i \in on : Fresh(i),
         \A r \in rows : r.id \in on => r.kind \in TargetKinds(op, kind)
  PROVE  IInv'
  <1> DEFINE r == NewRequest(op, kind, u, on, "auth")
  <1>1. "auth" \in Stages /\ 0 \in Codes
    BY DEF Stages, Codes
  <1>2. /\ r \in Requests /\ r.op = op /\ r.kind = kind /\ r.user = u /\ r.on = on
        /\ r.at = "auth" /\ r.row = NoRow /\ r.files = {}
    BY <1>1 DEF NewRequest, Requests
  <1>3. req' = [req EXCEPT ![s] = r] /\ UNCHANGED store
    BY DEF Submit
  <1> HIDE DEF r
  <1>4. StoreOK' /\ StoreStep(req[s].files)
    BY <1>3, Request, StoreStutters
  <1>5. UNCHANGED <<rows, serial>> /\ \A x \in rows : x.id # NoRow /\ Fresh(NoRow)
    BY <1>3, Request, RowTyped, SeedIsSound DEF store, StoreOK, Fresh, Ids
  <1>6. Aimed(r)'
    BY <1>2, <1>5, SeedIsSound DEF Aimed, Fresh, Ids
  <1> QED
    BY <1>2, <1>3, <1>4, <1>6, StepIsSound

LEMMA BeginIsSound ==
  ASSUME IInv, NEW s \in Slots, Begin(s)
  PROVE  IInv'
  <1>0. PICK op \in Operations, kind \in PostKinds, u \in Users :
          \E on \in Targets(op, kind) : Submit(s, op, kind, u, on)
    BY DEF Begin
  <1>1. PICK on \in Targets(op, kind) : Submit(s, op, kind, u, on)
    BY <1>0
  <1>2. served' \in Nat
    BY Request DEF Begin
  <1>3. /\ on \in SUBSET (Ids \cup Users)
        /\ op \in PathOps => \E i : on = {i}
        /\ \A i \in on : Fresh(i)
        /\ \A r \in rows : r.id \in on => r.kind \in TargetKinds(op, kind)
    BY Request, TargetsFit
  <1> QED
    BY <1>1, <1>2, <1>3, SubmitIsSound

LEMMA FinishIsSound ==
  ASSUME IInv, NEW s \in Slots, Finish(s), served' \in Nat
  PROVE  IInv'
  <1>1. /\ Idle \in Requests /\ Idle.at = "idle" /\ Idle.files = {}
    BY DEF Idle, NewRequest, Requests, Stages, Codes
  <1>2. req' = [req EXCEPT ![s] = Idle] /\ UNCHANGED store
    BY DEF Finish
  <1>3. StoreOK' /\ StoreStep(req[s].files)
    BY <1>2, Request, StoreStutters
  <1>4. Aimed(Idle)'
    BY <1>1 DEF Aimed
  <1> QED
    BY <1>1, <1>2, <1>3, <1>4, StepIsSound

LEMMA GetCurrentUserIsSound ==
  ASSUME IInv, NEW s \in Slots, GetCurrentUser(s), served' \in Nat
  PROVE  IInv'
  <1> DEFINE stage == FirstStage(req[s].op)
  <1>1. req[s].at = "auth"
    BY DEF GetCurrentUser
  <1>2. req[s].op \in Operations
    BY <1>1, Request DEF Aimed
  <1>3. /\ stage \in Stages /\ stage # "idle"
        /\ stage \in {"geocode", "location"} => req[s].op = "createBrewery"
        /\ stage = "glass" => req[s].op = "createStyle"
        /\ stage \in {"write", "peer"} => req[s].op \notin OwnerOps
    BY <1>2 DEF Operations, FirstStage, Stages, OwnerOps
  <1> HIDE DEF stage
  <1>4. \/ Goto(s, stage) /\ UNCHANGED store
        \/ Refuse(s, 401)
    BY DEF GetCurrentUser, stage
  <1> QED
    BY <1>1, <1>3, <1>4, AllCodes, GotoIsSound, RefuseIsSound

(* Likes *)

LEMMA ToggleLikeIsSound ==
  ASSUME IInv, NEW s \in Slots, NEW kind \in PostKinds, ToggleLike(s, kind), served' \in Nat
  PROVE  IInv'
  <1> DEFINE u == req[s].user
             on == req[s].on
  <1>1. /\ req[s].op = "like" /\ req[s].kind = kind /\ req[s].at \in {"post", "find", "write"}
        /\ u \in Users /\ req[s].op \notin OwnerOps
        /\ \A r \in rows : r.id \in on => r.kind = kind
    BY Request DEF ToggleLike, Route, FindLikedPost, FindLike, WriteLike, Aimed, OwnerOps,
                   PathOps, TargetKinds
  <1>2. "find" \in Stages /\ "write" \in Stages
    BY DEF Stages
  <1>3. CASE FindLikedPost(s)
    BY <1>1, <1>2, <1>3, AllCodes, GotoIsSound, RefuseIsSound DEF FindLikedPost
  <1>4. CASE FindLike(s)
    <2> DEFINE found == LikesOf(u, Target(s))
    <2>1. PICK i \in IF found = {} THEN {NoRow} ELSE IdsOf(found) :
            req' = [req EXCEPT ![s].row = i, ![s].at = "write"]
      BY <1>4 DEF FindLike
    <2>2. UNCHANGED store
      BY <1>4 DEF FindLike
    <2>3. StoreOK' /\ StoreStep(req[s].files) /\ UNCHANGED <<rows, objects, serial>>
      BY <2>2, Request, StoreStutters DEF store
    <2>4. \A r \in rows : r.id \in Ids /\ Fresh(r.id)
      BY Request, RowTyped DEF StoreOK
    <2>5. \A r \in found : r \in rows /\ r.kind = "like" /\ r.by = u /\ r.on = on
      <3>1. on = {Target(s)}
        BY <1>1, TargetIsNamed DEF PathOps
      <3> QED
        BY <3>1 DEF LikesOf, Rows
    <2>6. i \in Ids \cup {NoRow} /\ Fresh(i)'
      BY <2>3, <2>4, <2>5, SeedIsSound DEF IdsOf, Fresh, Ids
    <2>7. \A r \in rows : r.id = i => r.kind = "like" /\ r.by = u /\ r.on = on
      <3>1. \A r, q \in rows : r.id = q.id => r = q
        BY Request DEF StoreOK
      <3> QED
        BY <2>4, <2>5, <3>1, SeedIsSound DEF IdsOf
    <2> QED
      BY <1>1, <2>1, <2>3, <2>6, <2>7, FoundIsSound
  <1>5. CASE WriteLike(s)
    <2>1. CASE Insert("like", u, on, NoRow) /\ Reply(s, 200)
      <3>1. "like" \in Kinds /\ HangsOn("like") = PostKinds /\ 200 \in Codes
        BY DEF Kinds, HangsOn, Codes
      <3>2. StoreOK' /\ StoreStep(req[s].files)
        BY <1>1, <2>1, <3>1, Request, InsertKeeps DEF ImageKinds
      <3> QED
        BY <1>1, <2>1, <3>1, <3>2, ReplyIsSound
    <2>2. CASE Delete(req[s].row) /\ Reply(s, 200)
      <3>1. \A r \in rows : r.id = req[s].row => r.kind # "location"
        BY <1>1, Request DEF Aimed
      <3> QED
        BY <1>1, <2>2, <3>1, Request, AllCodes, DeleteKeeps, ReplyIsSound
    <2>3. CASE Refuse(s, 500)
      BY <1>1, <2>3, AllCodes, RefuseIsSound
    <2> QED
      BY <1>5, <2>1, <2>2, <2>3 DEF WriteLike
  <1> QED
    BY <1>3, <1>4, <1>5 DEF ToggleLike

(* Comments and posts *)

LEMMA CheckOwnerIsSound ==
  ASSUME IInv, NEW s \in Slots, NEW op \in OwnerOps, NEW kind, CheckOwner(s, op, kind),
         served' \in Nat
  PROVE  IInv'
  <1>1. /\ req[s].at = "owner" /\ req[s].op \in OwnerOps /\ req[s].on = {Target(s)}
        /\ "write" \in Stages
    BY TargetIsNamed DEF CheckOwner, Route, PathOps, Stages
  <1> DEFINE found == {r \in rows : r.id = Target(s)}
  <1>2. CASE found = {}
    BY <1>1, <1>2, AllCodes, RefuseIsSound DEF CheckOwner
  <1>3. CASE found # {} /\ \E r \in found : r.by # req[s].user
    BY <1>1, <1>3, AllCodes, RefuseIsSound DEF CheckOwner
  <1>4. CASE found # {} /\ \A r \in found : r.by = req[s].user
    <2>1. Goto(s, "write") /\ UNCHANGED store
      BY <1>4 DEF CheckOwner
    <2>2. \A r \in rows : r.id \in req[s].on => Owned(req[s].user, r)
      BY <1>1, <1>4 DEF Owned
    <2> QED
      BY <1>1, <2>1, <2>2, GotoIsSound
  <1> QED
    BY <1>2, <1>3, <1>4

LEMMA EditRowIsSound ==
  ASSUME IInv, NEW s \in Slots, NEW op, NEW kind, EditRow(s, op, kind), served' \in Nat
  PROVE  IInv'
  <1>1. req[s].at = "write" /\ 200 \in Codes /\ 500 \in Codes
    BY DEF EditRow, Codes
  <1>2. CASE Edit(Target(s)) /\ Reply(s, 200)
    BY <1>1, <1>2, Request, EditKeeps, ReplyIsSound
  <1>3. CASE Refuse(s, 500)
    BY <1>1, <1>3, RefuseIsSound
  <1> QED
    BY <1>2, <1>3 DEF EditRow

LEMMA EditBreweryIsSound ==
  ASSUME IInv, NEW s \in Slots, EditBreweryPost(s), served' \in Nat
  PROVE  IInv'
  <1>1. /\ req[s].at = "write" /\ 200 \in Codes /\ 500 \in Codes
        /\ req[s].op = "edit" /\ req[s].kind = "brewery"
    BY DEF EditBreweryPost, Route, Codes
  <1>2. CASE UpdateBrewery(Target(s)) /\ Reply(s, 200)
    <2>1. \A r \in rows : r.id = Target(s) => r.kind = "brewery"
      <3>1. Target(s) \in req[s].on
        BY <1>1, TargetIsNamed DEF PathOps, OwnerOps
      <3> QED
        BY <1>1, <3>1, Request DEF Aimed, TargetKinds
    <2> QED
      BY <1>1, <1>2, <2>1, Request, UpdateBreweryKeeps, ReplyIsSound
  <1>3. CASE Refuse(s, 500)
    BY <1>1, <1>3, RefuseIsSound
  <1> QED
    BY <1>2, <1>3 DEF EditBreweryPost

LEMMA DeleteRowIsSound ==
  ASSUME IInv, NEW s \in Slots, NEW op \in {"delete", "deleteComment"}, NEW kind \in PostKinds,
         DeleteRow(s, op, kind), served' \in Nat
  PROVE  IInv'
  <1>1. /\ req[s].at = "write" /\ 200 \in Codes /\ 500 \in Codes
        /\ req[s].op = op /\ req[s].kind = kind
    BY DEF DeleteRow, Route, Codes
  <1>2. CASE Delete(Target(s)) /\ Reply(s, 200)
    <2>1. \A r \in rows : r.id = Target(s) => r.kind # "location"
      <3>1. Target(s) \in req[s].on
        BY <1>1, TargetIsNamed DEF PathOps, OwnerOps
      <3>2. \A r \in rows : r.id \in req[s].on => r.kind \in TargetKinds(op, kind)
        BY <1>1, Request DEF Aimed
      <3> QED
        BY <3>1, <3>2 DEF TargetKinds, PostKinds
    <2> QED
      BY <1>1, <1>2, <2>1, Request, DeleteKeeps, ReplyIsSound
  <1>3. CASE Refuse(s, 500)
    BY <1>1, <1>3, RefuseIsSound
  <1> QED
    BY <1>2, <1>3 DEF DeleteRow

LEMMA CreateRowIsSound ==
  ASSUME IInv, NEW s \in Slots, NEW op, NEW kind \in PostKinds, NEW table,
         CreateRow(s, op, kind, table), served' \in Nat,
         \/ op = "comment" /\ table = "comment"
         \/ op = "createBeer" /\ table = "beer"
         \/ op = "createStyle" /\ table = "style"
  PROVE  IInv'
  <1>1. /\ req[s].at = "write" /\ 201 \in Codes /\ 500 \in Codes
        /\ req[s].op = op /\ req[s].kind = kind
    BY DEF CreateRow, Route, Codes
  <1>2. CASE Insert(table, req[s].user, req[s].on, req[s].row) /\ Reply(s, 201)
    <2>1. /\ table \in Kinds /\ table # "brewery" /\ table \notin ImageKinds
          /\ TargetKinds(op, kind) \subseteq HangsOn(table)
      BY DEF Kinds, PostKinds, ImageKinds, TargetKinds, HangsOn
    <2>2. /\ \A r \in rows : r.id \in req[s].on => r.kind \in TargetKinds(op, kind)
          /\ req[s].user \in Users /\ req[s].row \in Ids \cup {NoRow}
      BY <1>1, Request DEF Aimed
    <2>3. StoreOK' /\ StoreStep(req[s].files)
      BY <1>2, <2>1, <2>2, Request, InsertKeeps
    <2> QED
      BY <1>1, <1>2, <2>3, ReplyIsSound
  <1>3. CASE Refuse(s, 500)
    BY <1>1, <1>3, RefuseIsSound
  <1> QED
    BY <1>2, <1>3 DEF CreateRow

LEMMA CreateBreweryIsSound ==
  ASSUME IInv, NEW s \in Slots, CreateBreweryPost(s), served' \in Nat
  PROVE  IInv'
  <1> DEFINE u == req[s].user
             l == req[s].row
  <1>1. /\ req[s].at \in {"geocode", "location", "write"}
        /\ req[s].op = "createBrewery" /\ u \in Users /\ l \in Ids \cup {NoRow}
        /\ \A r \in rows : r.id = l => r.kind = "location"
    BY Request DEF CreateBreweryPost, Geocode, CreateBreweryPostLocation, CreateNewBreweryPost,
                   Route, Aimed
  <1>2. {201, 400, 500} \subseteq Codes /\ "location" \in Stages
    BY DEF Codes, Stages
  <1>3. CASE Geocode(s)
    <2>1. CASE Goto(s, "location") /\ UNCHANGED store
      BY <1>1, <1>2, <2>1, GotoIsSound
    <2>2. CASE \E code \in {400, 500} : Refuse(s, code)
      BY <1>1, <1>2, <2>2, RefuseIsSound
    <2> QED
      BY <1>3, <2>1, <2>2 DEF Geocode
  <1>4. CASE CreateBreweryPostLocation(s)
    <2>1. CASE /\ Insert("location", u, {}, NoRow)
               /\ req' = [req EXCEPT ![s].row = serial, ![s].at = "write"]
      <3>1. /\ "location" \in Kinds /\ "location" # "brewery" /\ "location" \notin ImageKinds
            /\ NoRow \in Ids \cup {NoRow}
            /\ \A r \in rows : r.id \in {} => r.kind \in HangsOn("location")
        BY DEF Kinds, ImageKinds
      <3>2. StoreOK' /\ StoreStep(req[s].files)
        BY <1>1, <2>1, <3>1, Request, InsertKeeps
      <3>3. PICK i \in Ids : i = serial
        BY Request DEF StoreOK, Ids
      <3>4. /\ rows' = rows \cup {NewRow("location", u, {}, NoRow)}
            /\ serial' = serial + 1 /\ UNCHANGED objects
        BY <2>1 DEF Insert
      <3>5. Fresh(i)'
        BY <3>3, <3>4, Request DEF StoreOK, Fresh
      <3>6. \A r \in rows' : r.id = i => r.kind = "location"
        BY <3>3, <3>4, Request DEF StoreOK, Fresh, NewRow
      <3>7. req' = [req EXCEPT ![s].row = i, ![s].at = "write"]
        BY <2>1, <3>3
      <3> QED
        BY <1>1, <3>2, <3>3, <3>4, <3>5, <3>6, <3>7, FoundIsSound DEF OwnerOps
    <2>2. CASE Refuse(s, 500)
      BY <1>1, <1>2, <2>2, RefuseIsSound
    <2> QED
      BY <1>4, <2>1, <2>2 DEF CreateBreweryPostLocation
  <1>5. CASE CreateNewBreweryPost(s)
    <2>1. CASE Has(l) /\ Insert("brewery", u, {}, l) /\ Reply(s, 201)
      <3>1. "brewery" \in Kinds /\ "brewery" \notin ImageKinds
        BY DEF Kinds, PostKinds, ImageKinds
      <3>2. \E q \in rows : q.kind = "location" /\ q.id = l
        BY <1>1, <2>1 DEF Has, IdsOf
      <3>3. l \in Ids
        BY <3>2, Request, RowTyped DEF StoreOK
      <3> DEFINE none == {}
      <3>4. l \in Ids \cup {NoRow} /\ \A r \in rows : r.id \in none => r.kind \in HangsOn("brewery")
        BY <3>3
      <3>5. Insert("brewery", u, none, l)
        BY <2>1
      <3> HIDE DEF none, u, l
      <3>6. StoreOK' /\ StoreStep(req[s].files)
        BY <1>1, <3>1, <3>2, <3>4, <3>5, Request, InsertKeeps
      <3> QED
        BY <1>1, <1>2, <2>1, <3>6, ReplyIsSound
    <2>2. CASE Refuse(s, 500)
      BY <1>1, <1>2, <2>2, RefuseIsSound
    <2> QED
      BY <1>5, <2>1, <2>2 DEF CreateNewBreweryPost
  <1> QED
    BY <1>3, <1>4, <1>5 DEF CreateBreweryPost

LEMMA CreateBeerStyleIsSound ==
  ASSUME IInv, NEW s \in Slots, CreateBeerStyle(s), served' \in Nat
  PROVE  IInv'
  <1>1. CASE /\ req[s].at = "glass"
             /\ IF Has(Target(s)) THEN Goto(s, "write") /\ UNCHANGED store ELSE Refuse(s, 404)
    <2>1. "write" \in Stages /\ 404 \in Codes
      BY DEF Stages, Codes
    <2>2. req[s].op \notin OwnerOps
      BY <1>1, Request DEF Aimed, OwnerOps
    <2> QED
      BY <1>1, <2>1, <2>2, GotoIsSound, RefuseIsSound
  <1>2. CASE CreateRow(s, "createStyle", "style", "style")
    BY <1>2, CreateRowIsSound DEF PostKinds
  <1> QED
    BY <1>1, <1>2 DEF CreateBeerStyle

(* Images *)

LEMMA UploadFileIsSound ==
  ASSUME IInv, NEW s \in Slots, UploadFile(s), served' \in Nat
  PROVE  IInv'
  <1>1. /\ req[s].at = "upload" /\ StoreObject
        /\ req' = [req EXCEPT ![s].files = @ \cup {serial}]
    BY DEF UploadFile
  <1>2. /\ UNCHANGED rows /\ objects' = objects \cup {serial} /\ serial' = serial + 1
        /\ serial \in Nat
    BY <1>1, Request DEF StoreObject, StoreOK
  <1>3. PICK q \in Requests : q = req[s] /\ Aimed(q) /\ Keeps(q)
    BY Request
  <1>4. StoreOK' /\ StoreStep(q.files)
    BY <1>1, Request, StoreObjectKeeps
  <1> DEFINE r == [q EXCEPT !.files = @ \cup {serial}]
  <1>5. /\ r \in Requests /\ r.op = q.op /\ r.kind = q.kind /\ r.user = q.user /\ r.on = q.on
        /\ r.row = q.row /\ r.at = q.at /\ r.files = q.files \cup {serial}
    BY <1>2 DEF Requests
  <1>6. PICK p \in Requests : p = r
    BY <1>5
  <1>7. req' = [req EXCEPT ![s] = p]
    BY <1>1, <1>3, <1>6, Request
  <1> HIDE DEF r
  <1>8. Aimed(p)'
    <2>1. Aimed(q)'
      BY <1>3, <1>4, Request, AimedStays
    <2> QED
      BY <1>1, <1>3, <1>5, <1>6, <2>1 DEF Aimed
  <1>9. \A f \in p.files : ~Linked(f)'
    <2>1. \A x \in rows : x.kind \in ImageKinds => x.ref # serial
      BY <1>2, Request DEF StoreOK, NoDangling, Fresh, ImageKinds
    <2>2. \A f \in q.files : ~Linked(f)
      BY <1>1, <1>3 DEF Keeps
    <2> QED
      BY <1>2, <1>5, <1>6, <2>1, <2>2 DEF Linked
  <1>10. p.files \subseteq objects'
    BY <1>1, <1>2, <1>3, <1>5, <1>6 DEF Keeps
  <1>11. \A f \in p.files : f \in req[s].files \/ (f = serial /\ serial < serial')
    BY <1>2, <1>3, <1>5, <1>6
  <1> QED
    BY <1>3, <1>4, <1>7, <1>8, <1>9, <1>10, <1>11, StepIsSound

LEMMA UploadFailsIsSound ==
  ASSUME IInv, NEW s \in Slots, UploadFails(s), served' \in Nat
  PROVE  IInv'
  <1>1. /\ req[s].at = "upload" /\ objects' = objects \ req[s].files /\ Reply(s, 500)
        /\ UNCHANGED <<users, rows, follows, serial>> /\ 500 \in Codes
    BY DEF UploadFails, Codes
  <1>2. \A f \in req[s].files : ~Linked(f)
    BY <1>1, Request DEF Keeps
  <1>3. StoreOK' /\ StoreStep(req[s].files)
    BY <1>1, <1>2, Request, RemoveFilesKeeps
  <1> QED
    BY <1>1, <1>3, ReplyIsSound

LEMMA UploadMiddlewareIsSound ==
  ASSUME IInv, NEW s \in Slots, UploadMiddlewareMultiple(s), served' \in Nat
  PROVE  IInv'
  <1>1. req[s].op \notin OwnerOps /\ "write" \in Stages /\ 400 \in Codes
    BY DEF UploadMiddlewareMultiple, OwnerOps, Stages, Codes
  <1>2. CASE req[s].at = "upload" /\ Refuse(s, 400)
    BY <1>1, <1>2, RefuseIsSound
  <1>3. CASE req[s].at = "upload" /\ Goto(s, "write") /\ UNCHANGED store
    BY <1>1, <1>3, GotoIsSound
  <1> QED
    BY <1>2, <1>3, UploadFileIsSound, UploadFailsIsSound DEF UploadMiddlewareMultiple

LEMMA WithoutFileTyped ==
  ASSUME NEW q \in Requests, NEW path
  PROVE  LET r == WithoutFile(q, path) IN
         /\ r \in Requests /\ r.op = q.op /\ r.kind = q.kind /\ r.user = q.user /\ r.on = q.on
         /\ r.row = q.row /\ r.files = q.files \ {path} /\ r.at \in {"done", "write"}
  <1> DEFINE left == q.files \ {path}
             stage == IF left = {} THEN "done" ELSE "write"
             a == [q EXCEPT !.files = left]
             b == [a EXCEPT !.code = 200]
             r == [b EXCEPT !.at = stage]
  <1>1. stage \in Stages /\ stage \in {"done", "write"} /\ 200 \in Codes
    BY DEF Stages, Codes
  <1>2. /\ a \in Requests /\ a.op = q.op /\ a.kind = q.kind /\ a.user = q.user /\ a.on = q.on
        /\ a.row = q.row /\ a.files = left
    BY DEF Requests
  <1>3. r = WithoutFile(q, path)
    BY DEF WithoutFile, Requests
  <1> HIDE DEF stage, a
  <1>4. /\ b \in Requests /\ b.op = a.op /\ b.kind = a.kind /\ b.user = a.user /\ b.on = a.on
        /\ b.row = a.row /\ b.files = a.files
    BY <1>1, <1>2 DEF Requests
  <1> HIDE DEF b
  <1>5. /\ r \in Requests /\ r.op = b.op /\ r.kind = b.kind /\ r.user = b.user /\ r.on = b.on
        /\ r.row = b.row /\ r.files = b.files /\ r.at = stage
    BY <1>1, <1>4, Moved
  <1> HIDE DEF r
  <1> QED
    BY <1>1, <1>2, <1>3, <1>4, <1>5

LEMMA AddImageIsSound ==
  ASSUME IInv, NEW s \in Slots, NEW kind \in {"beer", "brewery"}, AddImage(s, kind),
         served' \in Nat
  PROVE  IInv'
  <1>1. /\ req[s].at = "write" /\ req[s].op = "image" /\ req[s].kind = kind
        /\ 200 \in Codes /\ 500 \in Codes
    BY AllCodes DEF AddImage, Route
  <1>2. CASE Refuse(s, 500)
    BY <1>1, <1>2, RefuseIsSound
  <1>3. ASSUME NEW path \in req[s].files, Insert("image", req[s].user, req[s].on, path),
               req' = [req EXCEPT ![s] = WithoutFile(req[s], path)]
        PROVE  IInv'
    <2>1. PICK q \in Requests : q = req[s] /\ Aimed(q) /\ Keeps(q)
      BY Request
    <2>2. /\ q.at = "write" /\ q.op = "image" /\ q.kind = kind /\ path \in q.files
          /\ path \in objects /\ path \in Nat
      BY <1>1, <1>3, <2>1 DEF Keeps, Requests
    <2>3. StoreOK' /\ StoreStep(q.files)
      <3>1. "image" \in Kinds /\ "image" # "brewery"
        BY DEF Kinds
      <3>2. \A r \in rows : r.id \in q.on => r.kind \in HangsOn("image")
        BY <2>1, <2>2 DEF Aimed, TargetKinds, HangsOn
      <3>3. q.user \in Users /\ path \in Ids \cup {NoRow}
        BY <2>1, <2>2 DEF Aimed, Ids
      <3> QED
        BY <1>3, <2>1, <2>2, <3>1, <3>2, <3>3, Request, InsertKeeps
    <2> DEFINE r == WithoutFile(q, path)
    <2>5. req' = [req EXCEPT ![s] = r]
      BY <1>3, <2>1
    <2>8. /\ r \in Requests /\ r.op = q.op /\ r.kind = q.kind /\ r.user = q.user /\ r.on = q.on
          /\ r.row = q.row /\ r.files = q.files \ {path} /\ r.at \in {"done", "write"}
      BY WithoutFileTyped
    <2>9. PICK p \in Requests : p = r
      BY <2>8
    <2> HIDE DEF r
    <2>10. Aimed(p)'
      <3>1. Aimed(q)'
        BY <2>1, <2>3, Request, AimedStays
      <3> QED
        BY <2>2, <2>8, <2>9, <3>1 DEF Aimed, OwnerOps
    <2>11. p.files \subseteq q.files
      BY <2>8, <2>9
    <2>12. p.files \subseteq objects'
      BY <1>3, <2>1, <2>2, <2>11 DEF Keeps, Insert
    <2> QED
      BY <2>1, <2>3, <2>5, <2>8, <2>9, <2>10, <2>11, <2>12, StepIsSound
  <1> QED
    BY <1>2, <1>3 DEF AddImage

LEMMA UpdateAvatarIsSound ==
  ASSUME IInv, NEW s \in Slots, UpdateAvatar(s), served' \in Nat
  PROVE  IInv'
  <1>1. /\ req[s].op = "avatar" /\ req[s].op \notin OwnerOps /\ {200, 403, 404, 500} \subseteq Codes
        /\ "avatarUser" \in Stages
    BY DEF UpdateAvatar, OwnerOps, Codes, Stages
  <1>2. CASE req[s].at = "upload" /\ Refuse(s, 403)
    BY <1>1, <1>2, RefuseIsSound
  <1>3. CASE UploadFile(s) \/ UploadFails(s)
    BY <1>3, UploadFileIsSound, UploadFailsIsSound
  <1>4. CASE req[s].at = "upload" /\ Goto(s, "avatarUser") /\ UNCHANGED store
    BY <1>1, <1>4, GotoIsSound
  <1>5. CASE req[s].at = "upload" /\ Refuse(s, 404)
    BY <1>1, <1>5, RefuseIsSound
  <1>6. ASSUME req[s].at = "avatarUser", NEW path \in req[s].files,
               UpsertAvatar(req[s].user, path), Reply(s, 200)
        PROVE  IInv'
    <2>1. path \in objects /\ path \in Nat
      BY <1>6, Request DEF Keeps, Requests
    <2>2. StoreOK' /\ StoreStep(req[s].files)
      BY <1>6, <2>1, Request, UpsertKeeps
    <2> QED
      BY <1>1, <1>6, <2>2, ReplyIsSound
  <1>7. CASE req[s].at = "avatarUser" /\ Refuse(s, 500)
    BY <1>1, <1>7, RefuseIsSound
  <1> QED
    BY <1>2, <1>3, <1>4, <1>5, <1>6, <1>7 DEF UpdateAvatar

(* Follows and the account *)

LEMMA FindPeerIsSound ==
  ASSUME IInv, NEW s \in Slots, NEW next \in {"find", "write"}, FindPeer(s, next), served' \in Nat
  PROVE  IInv'
  <1>1. /\ req[s].at = "peer" /\ 403 \in Codes /\ 404 \in Codes /\ next \in Stages
    BY DEF FindPeer, Codes, Stages
  <1>2. req[s].op \notin OwnerOps
    BY <1>1, Request DEF Aimed
  <1>3. CASE Refuse(s, 403) \/ Refuse(s, 404)
    BY <1>1, <1>3, RefuseIsSound
  <1>4. CASE Goto(s, next) /\ UNCHANGED store
    BY <1>1, <1>2, <1>4, GotoIsSound
  <1> QED
    BY <1>3, <1>4 DEF FindPeer

LEMMA FollowUserIsSound ==
  ASSUME IInv, NEW s \in Slots, FollowUser(s), served' \in Nat
  PROVE  IInv'
  <1>1. req[s].op = "follow" /\ req[s].op \notin OwnerOps /\ 200 \in Codes /\ 500 \in Codes
    BY DEF FollowUser, OwnerOps, Codes
  <1>2. CASE FindPeer(s, "find")
    BY <1>2, FindPeerIsSound
  <1>3. CASE FindUserFollow(s)
    <2>1. req[s].at = "find" /\ UNCHANGED store
      BY <1>3 DEF FindUserFollow
    <2>2. StoreOK' /\ StoreStep(req[s].files) /\ UNCHANGED <<rows, objects, serial>>
      BY <2>1, Request, StoreStutters DEF store
    <2>3. PICK i : /\ i = Target(s) \/ i = NoRow
                   /\ req' = [req EXCEPT ![s].row = i, ![s].at = "write"]
      BY <1>3 DEF FindUserFollow
    <2>4. Target(s) \in req[s].on /\ Fresh(Target(s))
      <3>1. req[s].on = {Target(s)}
        BY <1>1, <2>1, TargetIsNamed DEF PathOps
      <3> QED
        BY <2>1, <3>1, Request DEF Aimed
    <2>5. i \in Ids \cup Users \cup {NoRow} /\ Fresh(i)'
      BY <2>2, <2>3, <2>4, Request, SeedIsSound DEF Requests, Fresh, Ids
    <2>6. \A x \in rows' : x.id # i
      <3>1. \A x \in rows : x.id \notin req[s].on
        BY <1>1, <2>1, Request DEF Aimed, TargetKinds
      <3>2. \A x \in rows : x.id # NoRow
        BY Request, RowTyped, SeedIsSound DEF StoreOK
      <3> QED
        BY <2>2, <2>3, <2>4, <3>1, <3>2
    <2> QED
      BY <1>1, <2>1, <2>2, <2>3, <2>5, <2>6, FoundIsSound
  <1>4. CASE WriteFollow(s)
    <2>1. req[s].at = "write"
      BY <1>4 DEF WriteFollow
    <2>2. CASE /\ CreateFollow(req[s].user, Target(s)) \/ DeleteFollow(req[s].user, Target(s))
               /\ Reply(s, 200)
      BY <1>1, <2>1, <2>2, Request, FollowKeeps, ReplyIsSound
    <2>3. CASE Refuse(s, 500)
      BY <1>1, <2>1, <2>3, RefuseIsSound
    <2> QED
      BY <1>4, <2>2, <2>3 DEF WriteFollow
  <1> QED
    BY <1>2, <1>3, <1>4 DEF FollowUser

LEMMA DeleteAccountIsSound ==
  ASSUME IInv, NEW s \in Slots, DeleteAccount(s), served' \in Nat
  PROVE  IInv'
  <1>1. 200 \in Codes /\ 500 \in Codes
    BY DEF Codes
  <1>2. CASE FindPeer(s, "write")
    BY <1>2, FindPeerIsSound
  <1>3. CASE req[s].at = "write" /\ DeleteUser(req[s].user) /\ Reply(s, 200)
    BY <1>1, <1>3, Request, DeleteUserKeeps, ReplyIsSound
  <1>4. CASE req[s].at = "write" /\ Refuse(s, 500)
    BY <1>1, <1>4, RefuseIsSound
  <1> QED
    BY <1>2, <1>3, <1>4 DEF DeleteAccount

-----------------------------------------------------------------------------

LEMMA CommentStepsAreSound ==
  ASSUME IInv, NEW s \in Slots, CommentSteps(s), served' \in Nat
  PROVE  IInv'
  <1>1. ASSUME NEW op \in {"editComment", "deleteComment"}, NEW kind \in PostKinds,
               CheckOwner(s, op, kind)
        PROVE  IInv'
    BY <1>1, CheckOwnerIsSound DEF OwnerOps
  <1>2. ASSUME NEW kind \in PostKinds,
               \/ EditRow(s, "editComment", kind)
               \/ DeleteRow(s, "deleteComment", kind)
               \/ CreateRow(s, "comment", kind, "comment")
        PROVE  IInv'
    BY <1>2, EditRowIsSound, DeleteRowIsSound, CreateRowIsSound
  <1>3. {"beer", "brewery", "style"} = PostKinds
    BY DEF PostKinds
  <1> QED
    BY <1>1, <1>2, <1>3
    DEF CommentSteps, CheckIfBeerCommentOwner, CheckIfBreweryCommentOwner,
        CheckIfBeerStyleCommentOwner, EditBeerPostComment, EditBreweryPostComment,
        EditBeerStyleComment, DeleteBeerPostComment, DeleteBreweryPostComment,
        DeleteBeerStyleComment, CreateBeerPostComment, CreateBreweryComment, CreateStyleComment

LEMMA PostStepsAreSound ==
  ASSUME IInv, NEW s \in Slots, PostSteps(s), served' \in Nat
  PROVE  IInv'
  <1>1. ASSUME NEW op \in {"edit", "delete"}, NEW kind \in PostKinds, CheckOwner(s, op, kind)
        PROVE  IInv'
    BY <1>1, CheckOwnerIsSound DEF OwnerOps
  <1>2. ASSUME NEW kind \in PostKinds,
               \/ EditRow(s, "edit", kind)
               \/ DeleteRow(s, "delete", kind)
               \/ CreateRow(s, "createBeer", kind, "beer")
        PROVE  IInv'
    BY <1>2, EditRowIsSound, DeleteRowIsSound, CreateRowIsSound
  <1>3. {"beer", "brewery"} \subseteq PostKinds
    BY DEF PostKinds
  <1> QED
    BY <1>1, <1>2, <1>3, EditBreweryIsSound, CreateBreweryIsSound, CreateBeerStyleIsSound
    DEF PostSteps, CheckIfBeerPostOwner, CheckIfBreweryPostOwner, EditBeerPost, DeleteBeerPost,
        DeleteBreweryPost, CreateBeerPost

LEMMA HandlerStepIsSound ==
  ASSUME IInv, NEW s \in Slots, HandlerStep(s)
  PROVE  IInv'
  <1>1. served' \in Nat
    BY Request DEF HandlerStep
  <1>2. CASE OtherSteps(s)
    <2>1. ASSUME NEW kind \in PostKinds, ToggleLike(s, kind) PROVE IInv'
      BY <1>1, <2>1, ToggleLikeIsSound
    <2>2. ASSUME NEW kind \in {"beer", "brewery"}, AddImage(s, kind) PROVE IInv'
      BY <1>1, <2>2, AddImageIsSound
    <2>3. {"beer", "brewery", "style"} = PostKinds
      BY DEF PostKinds
    <2> QED
      BY <1>1, <1>2, <2>1, <2>2, <2>3, UploadMiddlewareIsSound, UpdateAvatarIsSound,
         FollowUserIsSound, DeleteAccountIsSound
      DEF OtherSteps, SendBeerPostLikeRequest, SendBreweryPostLikeRequest,
          SendBeerStyleLikeRequest, ProcessBeerImageData, ProcessBreweryImageData
  <1> QED
    BY <1>1, <1>2, GetCurrentUserIsSound, CommentStepsAreSound, PostStepsAreSound DEF HandlerStep

LEMMA Begins == CommunityInit => IInv
  <1> SUFFICES ASSUME CommunityInit PROVE IInv
    OBVIOUS
  <1>1. /\ users = Users /\ rows = SeedRows /\ follows = {} /\ serial = 0 /\ served = 0
        /\ objects = {r.ref : r \in {i \in SeedRows : i.kind \in {"image", "avatar"}}}
        /\ req = [s \in Slots |-> Idle]
    BY DEF CommunityInit, StoreInit
  <1>2. NoDangling
    BY <1>1, SeedIsSound, RowTyped DEF NoDangling, IdsOf, Rows
  <1>3. Hanging
    BY <1>1, SeedIsSound DEF Hanging, IdsOf
  <1>4. /\ \A r \in rows : Fresh(r.id)
        /\ \A f \in objects : Fresh(f)
    BY <1>1, SeedIsSound DEF Fresh, IdsOf
  <1>5. StoreOK
    BY <1>1, <1>2, <1>3, <1>4, SeedIsSound DEF StoreOK
  <1>6. Idle \in Requests /\ Idle.at = "idle" /\ Idle.files = {}
    BY DEF Idle, NewRequest, Requests, Stages, Codes
  <1>7. RequestsOK
    BY <1>1, <1>6 DEF RequestsOK, Aimed, Keeps
  <1>8. SeedKept
    BY <1>1, SeedIsSound DEF SeedKept
  <1> QED
    BY <1>1, <1>5, <1>7, <1>8 DEF IInv

LEMMA StutterIsSound ==
  ASSUME IInv, UNCHANGED vars
  PROVE  IInv'
  <1>1. StoreOK' /\ UNCHANGED <<rows, objects, serial, req, served>>
    BY StoreStutters DEF vars, store, IInv
  <1>2. \A s \in Slots : Aimed(req[s])' /\ Keeps(req[s])'
    <2> SUFFICES ASSUME NEW s \in Slots PROVE Aimed(req[s])' /\ Keeps(req[s])'
      OBVIOUS
    <2>1. Aimed(req[s]) /\ Keeps(req[s])
      BY Request
    <2>2. Aimed(req[s])'
      BY <1>1, <2>1 DEF Aimed, Fresh
    <2>3. Keeps(req[s])'
      BY <1>1, <2>1 DEF Keeps, Linked
    <2> QED
      BY <2>2, <2>3
  <1>3. RequestsOK'
    BY <1>1, <1>2 DEF IInv, RequestsOK
  <1>4. SeedKept'
    BY <1>1 DEF IInv, SeedKept
  <1> QED
    BY <1>1, <1>3, <1>4 DEF IInv

LEMMA CommunityContinues == IInv /\ [CommunityNext]_vars => IInv'
  <1>1. ASSUME IInv, NEW s \in Slots, Finish(s) PROVE IInv'
    BY <1>1, Request, FinishIsSound DEF Finish
  <1> QED
    BY <1>1, BeginIsSound, HandlerStepIsSound, StutterIsSound DEF CommunityNext

(* What a tab does is no more to the API than a request of its user. *)
LEMMA ClickIsSound ==
  ASSUME IInv, NEW t \in Tabs, NEW s \in Slots, Click(t, s)
  PROVE  IInv'
  <1> DEFINE kind == TabKind[t]
             on == {TabPost[t]}
  <1>1. Submit(s, "like", kind, TabUser[t], on) /\ served' \in Nat
    BY Request DEF Click
  <1>2. TabUser[t] \in Users /\ kind \in PostKinds /\ "like" \in Operations
    BY TabsShowPosts DEF Operations
  <1>3. PICK p \in SeedRows : p.id = TabPost[t] /\ p.kind = kind
    BY TabsShowPosts
  <1>4. on \in SUBSET (Ids \cup Users) /\ \E i : on = {i}
    BY <1>3 DEF Ids, IdsOf
  <1>5. \A i \in on : Fresh(i)
    BY <1>3, SeedIsSound DEF Fresh, IdsOf
  <1>6. \A r \in rows : r.id \in on => r.kind \in TargetKinds("like", kind)
    BY <1>3, Request DEF SeedKept, TargetKinds
  <1> HIDE DEF kind, on
  <1> QED
    BY <1>1, <1>2, <1>4, <1>5, <1>6, SubmitIsSound

LEMMA UIContinues == IInv /\ [UINext]_allVars => IInv'
  <1> SUFFICES ASSUME IInv, [UINext]_allVars PROVE IInv'
    OBVIOUS
  <1>1. ASSUME NEW s \in Slots, Finish(s) PROVE IInv'
    BY <1>1, Request, FinishIsSound DEF Finish
  <1>2. ASSUME UNCHANGED vars PROVE IInv'
    BY <1>2, StutterIsSound
  <1>3. ASSUME NEW s \in Slots, BeginElsewhere(s) \/ ServerStep(s) PROVE IInv'
    BY <1>1, <1>3, BeginIsSound, HandlerStepIsSound DEF BeginElsewhere, ServerStep
  <1>4. ASSUME NEW t \in Tabs, NEW s \in Slots,
               Click(t, s) \/ Answered(t, s) \/ AnswerLost(t, s)
        PROVE  IInv'
    BY <1>1, <1>2, <1>4, ClickIsSound DEF Answered, AnswerLost
  <1>5. ASSUME NEW t \in Tabs,
               \/ StatusRead(t) \/ StatusArrives(t) \/ HandlerEnds(t)
               \/ Open(t) \/ Revalidate(t)
        PROVE  IInv'
    BY <1>2, <1>5 DEF StatusRead, StatusArrives, HandlerEnds, Open, Revalidate
  <1>6. CASE UNCHANGED allVars
    BY <1>2, <1>6 DEF allVars
  <1> QED
    BY <1>3, <1>4, <1>5, <1>6 DEF UINext

LEMMA CommunityInvariant == CommunitySpec => []IInv
  BY Begins, CommunityContinues, PTL DEF CommunitySpec

LEMMA UIInvariant == UISpec => []IInv
  <1>1. UIInit => IInv
    BY Begins DEF UIInit
  <1> QED
    BY <1>1, UIContinues, PTL DEF UISpec

LEMMA Implied ==
  ASSUME IInv
  PROVE  CommunityTypeOK /\ NoDangling
  <1>1. \A s \in Slots : \A f \in req[s].files : f < serial
    BY DEF IInv, RequestsOK, Keeps
  <1> QED
    BY <1>1 DEF IInv, StoreOK, RequestsOK, CommunityTypeOK, Fresh

-----------------------------------------------------------------------------
(* Who changes a row.                                                      *)

(* The body of OnlyOwnersChange. *)
Explained ==
  \A r \in rows :
    r \in rows'
      \/ r.by \notin users'
      \/ ~(r.on \subseteq IdsOf(rows'))
      \/ \E s \in Slots : /\ req[s].at # "done" /\ MayChange(s, r)
                          /\ req'[s].at = "done" /\ req'[s].code = 200

LEMMA Replied ==
  ASSUME IInv, NEW s \in Slots, NEW code, Reply(s, code)
  PROVE  req'[s].at = "done" /\ req'[s].code = code
  <1>1. req \in [Slots -> Requests]
    BY Request
  <1> QED
    BY <1>1 DEF Reply, Requests

(* A row that goes with what it hangs on. *)
LEMMA CascadeExplains ==
  ASSUME StoreOK, NEW S \in SUBSET rows, rows' = rows \ Cascade(S),
         NEW r \in rows \ S, r \notin rows'
  PROVE  ~(r.on \subseteq IdsOf(rows'))
  <1>1. \E p \in Cascade(S) : p \in rows /\ p.id \in r.on
    BY DEF Cascade, WithDependents, IdsOf
  <1> QED
    BY <1>1 DEF StoreOK, IdsOf

LEMMA EditRowExplained ==
  ASSUME IInv, NEW s \in Slots, NEW op \in OwnerOps, NEW kind, EditRow(s, op, kind)
  PROVE  Explained
  <1>1. req[s].at = "write" /\ req[s].op \in OwnerOps
    BY DEF EditRow, Route
  <1>2. CASE Edit(Target(s)) /\ Reply(s, 200)
    <2>1. \A r \in rows : r.id \in req[s].on => MayChange(s, r)
      BY <1>1, Request DEF Aimed, MayChange
    <2>2. Target(s) \in req[s].on
      BY <1>1, TargetIsNamed DEF PathOps
    <2>3. \A r \in rows : r.id # Target(s) => r \in rows'
      BY <1>2 DEF Edit
    <2> QED
      BY <1>1, <1>2, <2>1, <2>2, <2>3, Replied DEF Explained
  <1>3. CASE Refuse(s, 500)
    BY <1>3 DEF Refuse, store, Explained
  <1> QED
    BY <1>2, <1>3 DEF EditRow

(* With the body of the request a brewery's owner may change any row. *)
LEMMA EditBreweryExplained ==
  ASSUME IInv, NEW s \in Slots, EditBreweryPost(s)
  PROVE  Explained
  <1>1. req[s].at = "write" /\ Route(s, "edit", "brewery") /\ req[s].op \in OwnerOps
    BY DEF EditBreweryPost, Route, OwnerOps
  <1>2. CASE UpdateBrewery(Target(s)) /\ Reply(s, 200)
    <2>1. PICK b \in rows : b.id = Target(s)
      BY <1>2 DEF UpdateBrewery, Has, IdsOf
    <2>2. b.id \in req[s].on
      BY <1>1, <2>1, TargetIsNamed DEF PathOps
    <2>3. Owned(req[s].user, b)
      BY <1>1, <2>2, Request DEF Aimed
    <2>4. \A r \in rows : MayChange(s, r)
      BY <1>1, <2>2, <2>3 DEF MayChange
    <2> QED
      BY <1>1, <1>2, <2>4, Replied DEF Explained
  <1>3. CASE Refuse(s, 500)
    BY <1>3 DEF Refuse, store, Explained
  <1> QED
    BY <1>2, <1>3 DEF EditBreweryPost

(* The row with this id is deleted on the request of one who may. *)
LEMMA DeleteExplained ==
  ASSUME IInv, NEW s \in Slots, req[s].at = "write", NEW i, Delete(i), Reply(s, 200),
         \A r \in rows : r.id = i => MayChange(s, r)
  PROVE  Explained
  <1> DEFINE S == {r \in rows : r.id = i}
  <1>1. rows' = rows \ Cascade(S) /\ StoreOK
    BY Request DEF Delete
  <1>2. \A r \in rows \ S : r \notin rows' => ~(r.on \subseteq IdsOf(rows'))
    BY <1>1, CascadeExplains
  <1>3. \A r \in S : MayChange(s, r)
    OBVIOUS
  <1> HIDE DEF S
  <1> QED
    BY <1>2, <1>3, Replied DEF Explained

LEMMA DeleteRowExplained ==
  ASSUME IInv, NEW s \in Slots, NEW op \in OwnerOps, NEW kind, DeleteRow(s, op, kind)
  PROVE  Explained
  <1>1. req[s].at = "write" /\ req[s].op \in OwnerOps
    BY DEF DeleteRow, Route
  <1>2. CASE Delete(Target(s)) /\ Reply(s, 200)
    <2>1. \A r \in rows : r.id \in req[s].on => MayChange(s, r)
      BY <1>1, Request DEF Aimed, MayChange
    <2>2. Target(s) \in req[s].on
      BY <1>1, TargetIsNamed DEF PathOps
    <2> QED
      BY <1>1, <1>2, <2>1, <2>2, DeleteExplained
  <1>3. CASE Refuse(s, 500)
    BY <1>3 DEF Refuse, store, Explained
  <1> QED
    BY <1>2, <1>3 DEF DeleteRow

LEMMA ToggleLikeExplained ==
  ASSUME IInv, NEW s \in Slots, NEW kind, ToggleLike(s, kind)
  PROVE  Explained
  <1>1. CASE rows \subseteq rows'
    BY <1>1 DEF Explained
  <1>2. CASE req[s].at = "write" /\ Delete(req[s].row) /\ Reply(s, 200)
    <2>1. \A r \in rows : r.id = req[s].row => MayChange(s, r)
      BY <1>2, Request DEF ToggleLike, Route, Aimed, MayChange
    <2> QED
      BY <1>2, <2>1, DeleteExplained
  <1>3. rows \subseteq rows' \/ (req[s].at = "write" /\ Delete(req[s].row) /\ Reply(s, 200))
    BY DEF ToggleLike, FindLikedPost, FindLike, WriteLike, Refuse, Insert, store
  <1> QED
    BY <1>1, <1>2, <1>3

LEMMA DeleteAccountExplained ==
  ASSUME IInv, NEW s \in Slots, DeleteAccount(s)
  PROVE  Explained
  <1>1. CASE rows \subseteq rows'
    BY <1>1 DEF Explained
  <1>2. CASE DeleteUser(req[s].user)
    <2> DEFINE S == RowsOf(req[s].user)
    <2>1. rows' = rows \ Cascade(S) /\ StoreOK /\ S \subseteq rows
      BY <1>2, Request DEF DeleteUser, RowsOf
    <2>2. \A r \in rows \ S : r \notin rows' => ~(r.on \subseteq IdsOf(rows'))
      BY <2>1, CascadeExplains
    <2>3. \A r \in S : r.by \notin users'
      BY <1>2 DEF DeleteUser, RowsOf
    <2> HIDE DEF S
    <2> QED
      BY <2>2, <2>3 DEF Explained
  <1>3. rows \subseteq rows' \/ DeleteUser(req[s].user)
    BY DEF DeleteAccount, FindPeer, Refuse, store
  <1> QED
    BY <1>1, <1>2, <1>3

LEMMA UpdateAvatarExplained ==
  ASSUME IInv, NEW s \in Slots, UpdateAvatar(s)
  PROVE  Explained
  <1>1. CASE rows \subseteq rows'
    BY <1>1 DEF Explained
  <1>2. CASE req[s].at = "avatarUser" /\ (\E path : UpsertAvatar(req[s].user, path)) /\ Reply(s, 200)
    <2>1. \A r \in rows : r \in rows' \/ (r.kind = "avatar" /\ r.by = req[s].user)
      BY <1>2 DEF UpsertAvatar, Rows
    <2>2. req[s].op = "avatar"
      BY DEF UpdateAvatar
    <2> QED
      BY <1>2, <2>1, <2>2, Replied DEF Explained, MayChange
  <1>3. \/ rows \subseteq rows'
        \/ req[s].at = "avatarUser" /\ (\E path : UpsertAvatar(req[s].user, path)) /\ Reply(s, 200)
    BY DEF UpdateAvatar, UploadFile, UploadFails, StoreObject, Refuse, store
  <1> QED
    BY <1>1, <1>2, <1>3

(* No other step takes a row away. *)
LEMMA HandlerStepExplained ==
  ASSUME IInv, NEW s \in Slots, HandlerStep(s)
  PROVE  Explained
  <1>1. CASE rows \subseteq rows'
    BY <1>1 DEF Explained
  <1>2. GetCurrentUser(s) => rows \subseteq rows'
    BY DEF GetCurrentUser, Refuse, store
  <1>3. ASSUME NEW op, NEW kind, CheckOwner(s, op, kind) PROVE rows \subseteq rows'
    BY <1>3 DEF CheckOwner, Refuse, store
  <1>4. ASSUME NEW op, NEW kind, NEW table, CreateRow(s, op, kind, table)
        PROVE  rows \subseteq rows'
    BY <1>4 DEF CreateRow, Insert, Refuse, store
  <1>5. ASSUME NEW op \in OwnerOps, NEW kind, EditRow(s, op, kind) \/ DeleteRow(s, op, kind)
        PROVE  Explained
    BY <1>5, EditRowExplained, DeleteRowExplained
  <1>6. CASE CommentSteps(s)
    BY <1>1, <1>3, <1>4, <1>5, <1>6
    DEF CommentSteps, CheckIfBeerCommentOwner, CheckIfBreweryCommentOwner,
        CheckIfBeerStyleCommentOwner, EditBeerPostComment, EditBreweryPostComment,
        EditBeerStyleComment, DeleteBeerPostComment, DeleteBreweryPostComment,
        DeleteBeerStyleComment, CreateBeerPostComment, CreateBreweryComment, CreateStyleComment,
        OwnerOps
  <1>7. CASE PostSteps(s)
    <2>1. CreateBreweryPost(s) => rows \subseteq rows'
      BY DEF CreateBreweryPost, Geocode, CreateBreweryPostLocation, CreateNewBreweryPost, Insert,
             Refuse, store
    <2>2. CreateBeerStyle(s) => rows \subseteq rows'
      BY <1>4 DEF CreateBeerStyle, Refuse, store
    <2> QED
      BY <1>1, <1>3, <1>4, <1>5, <1>7, <2>1, <2>2, EditBreweryExplained
      DEF PostSteps, CheckIfBeerPostOwner, CheckIfBreweryPostOwner, EditBeerPost,
          DeleteBeerPost, DeleteBreweryPost, CreateBeerPost, OwnerOps
  <1>8. CASE OtherSteps(s)
    <2>1. UploadMiddlewareMultiple(s) => rows \subseteq rows'
      BY DEF UploadMiddlewareMultiple, UploadFile, UploadFails, StoreObject, Refuse, store
    <2>2. ASSUME NEW kind, AddImage(s, kind) PROVE rows \subseteq rows'
      BY <2>2 DEF AddImage, Insert, Refuse, store
    <2>3. FollowUser(s) => rows \subseteq rows'
      BY DEF FollowUser, FindPeer, FindUserFollow, WriteFollow, CreateFollow, DeleteFollow,
             Refuse, store
    <2> QED
      BY <1>1, <1>8, <2>1, <2>2, <2>3, ToggleLikeExplained, UpdateAvatarExplained,
         DeleteAccountExplained
      DEF OtherSteps, SendBeerPostLikeRequest, SendBreweryPostLikeRequest,
          SendBeerStyleLikeRequest, ProcessBeerImageData, ProcessBreweryImageData
  <1> QED
    BY <1>1, <1>2, <1>6, <1>7, <1>8 DEF HandlerStep

LEMMA UIStepExplained == IInv /\ [UINext]_allVars => [Explained]_vars
  <1> SUFFICES ASSUME IInv, [UINext]_allVars PROVE Explained \/ UNCHANGED vars
    BY DEF vars
  <1>1. ASSUME UNCHANGED rows PROVE Explained
    BY <1>1 DEF Explained
  <1>2. ASSUME NEW s \in Slots, BeginElsewhere(s) \/ ServerStep(s) PROVE Explained
    <2>1. CASE BeginElsewhere(s)
      <3>1. UNCHANGED rows
        BY <2>1 DEF BeginElsewhere, Begin, Submit, store
      <3> QED
        BY <1>1, <3>1
    <2>2. CASE Finish(s)
      BY <1>1, <2>2 DEF Finish, store
    <2> QED
      BY <1>2, <2>1, <2>2, HandlerStepExplained DEF ServerStep
  <1>3. ASSUME NEW t \in Tabs, NEW s \in Slots,
               Click(t, s) \/ Answered(t, s) \/ AnswerLost(t, s)
        PROVE  UNCHANGED rows
    BY <1>3 DEF Click, Submit, Answered, Finish, AnswerLost, vars, store
  <1>4. ASSUME NEW t \in Tabs,
               \/ StatusRead(t) \/ StatusArrives(t) \/ HandlerEnds(t)
               \/ Open(t) \/ Revalidate(t)
        PROVE  UNCHANGED rows
    BY <1>4 DEF StatusRead, StatusArrives, HandlerEnds, Open, Revalidate, vars, store
  <1>5. CASE UNCHANGED allVars
    BY <1>5 DEF allVars
  <1> QED
    BY <1>1, <1>2, <1>3, <1>4, <1>5 DEF UINext

-----------------------------------------------------------------------------
(* Likes: the steps that add or remove one.                                *)

NoNewLikes ==
  /\ users' \subseteq users
  /\ \A r \in rows' : r.id = serial \/ Has(r.id)
  /\ \A r \in rows' : r.kind = "like" => r \in rows

AddsLike(s) ==
  /\ req[s].op = "like" /\ req[s].at = "write" /\ req[s].row = NoRow
  /\ Insert("like", req[s].user, req[s].on, NoRow)
  /\ Reply(s, 200)

LEMMA NoneRemoved ==
  ASSUME users' \subseteq users, rows' \subseteq rows
  PROVE  NoNewLikes
  BY DEF NoNewLikes, Has, IdsOf

LEMMA OtherInserted ==
  ASSUME NEW kind, kind # "like", NEW u, NEW on, NEW ref, Insert(kind, u, on, ref)
  PROVE  NoNewLikes
  <1> DEFINE n == NewRow(kind, u, on, ref)
  <1>1. rows' = rows \cup {n} /\ users' = users /\ n.id = serial /\ n.kind # "like"
    BY DEF Insert, NewRow
  <1> HIDE DEF n
  <1> QED
    BY <1>1 DEF NoNewLikes, Has, IdsOf

LEMMA OtherEdited ==
  ASSUME StoreOK, NEW i, Edit(i), \A r \in rows : r.id = i => r.kind # "like"
  PROVE  NoNewLikes
  <1>1. /\ rows' = {IF r.id = i THEN [r EXCEPT !.edits = @ + 1] ELSE r : r \in rows}
        /\ users' = users
    BY DEF Edit
  <1>2. ASSUME NEW r \in rows
        PROVE  LET n == [r EXCEPT !.edits = @ + 1] IN n.id = r.id /\ n.kind = r.kind
    BY DEF StoreOK, Row
  <1>3. ASSUME NEW x \in rows' PROVE Has(x.id) /\ (x.kind = "like" => x \in rows)
    <2>1. PICK r \in rows : x = IF r.id = i THEN [r EXCEPT !.edits = @ + 1] ELSE r
      BY <1>1
    <2> QED
      BY <1>2, <2>1 DEF Has, IdsOf
  <1> QED
    BY <1>1, <1>3 DEF NoNewLikes

LEMMA BreweryUpdated ==
  ASSUME StoreOK, NEW i, UpdateBrewery(i), \A r \in rows : r.id = i => r.kind # "like"
  PROVE  NoNewLikes
  <1>1. PICK by \in users, l \in IdsOf(Rows("location")), gone \in SUBSET {r \in rows : i \in r.on} :
          \E touched \in SUBSET (Within(i) \ gone) :
            rows' = {IF r.id = i THEN [r EXCEPT !.edits = @ + 1, !.by = by, !.ref = l]
                     ELSE IF r \in touched THEN [r EXCEPT !.edits = @ + 1]
                     ELSE r : r \in rows \ Cascade(gone)}
    BY DEF UpdateBrewery
  <1>2. PICK touched \in SUBSET (Within(i) \ gone) :
            rows' = {IF r.id = i THEN [r EXCEPT !.edits = @ + 1, !.by = by, !.ref = l]
                     ELSE IF r \in touched THEN [r EXCEPT !.edits = @ + 1]
                     ELSE r : r \in rows \ Cascade(gone)}
    BY <1>1
  <1> DEFINE New(r) == IF r.id = i THEN [r EXCEPT !.edits = @ + 1, !.by = by, !.ref = l]
                       ELSE IF r \in touched THEN [r EXCEPT !.edits = @ + 1]
                       ELSE r
  <1>3. rows' \subseteq {New(r) : r \in rows} /\ users' = users
    BY <1>2 DEF UpdateBrewery
  <1>4. \A r \in Within(i) : r.kind # "like"
    BY DEF Within, StoreOK, NoDangling, IdsOf, Rows
  <1>5. ASSUME NEW r \in rows
        PROVE  /\ New(r).id = r.id /\ New(r).kind = r.kind
               /\ r.kind = "like" => New(r) = r
    BY <1>2, <1>4 DEF StoreOK, Row
  <1> HIDE DEF New
  <1> QED
    BY <1>3, <1>5 DEF NoNewLikes, Has, IdsOf

LEMMA AvatarUpserted ==
  ASSUME StoreOK, NEW u, NEW path, UpsertAvatar(u, path)
  PROVE  NoNewLikes
  <1> DEFINE old == {r \in rows : r.kind = "avatar" /\ r.by = u}
             n == NewRow("avatar", u, {}, path)
  <1>1. /\ users' = users
        /\ \/ rows' = rows \cup {n}
           \/ rows' = (rows \ old) \cup {[r EXCEPT !.ref = path] : r \in old}
    BY DEF UpsertAvatar, Rows
  <1>2. n.id = serial /\ n.kind = "avatar"
    BY DEF NewRow
  <1>3. ASSUME NEW r \in old
        PROVE  LET x == [r EXCEPT !.ref = path] IN x.id = r.id /\ x.kind = "avatar" /\ r \in rows
    BY DEF StoreOK, Row
  <1> HIDE DEF n, old
  <1>4. ASSUME NEW x \in rows'
        PROVE  (x.id = serial \/ Has(x.id)) /\ (x.kind = "like" => x \in rows)
    <2>1. CASE x \in rows
      BY <2>1 DEF Has, IdsOf
    <2>2. CASE x = n
      BY <1>2, <2>2
    <2>3. CASE \E r \in old : x = [r EXCEPT !.ref = path]
      BY <1>3, <2>3 DEF Has, IdsOf
    <2> QED
      BY <1>1, <2>1, <2>2, <2>3
  <1> QED
    BY <1>1, <1>4 DEF NoNewLikes

(* A like is no target of another operation. *)
LEMMA RowsAdded ==
  ASSUME IInv, NEW s \in Slots, HandlerStep(s)
  PROVE  NoNewLikes \/ AddsLike(s)
  <1>1. UNCHANGED store => NoNewLikes
    BY NoneRemoved DEF store
  <1>2. ASSUME NEW op \in OwnerOps, NEW kind \in PostKinds, EditRow(s, op, kind) PROVE NoNewLikes
    <2>1. CASE Edit(Target(s))
      <3>1. req[s].at = "write" /\ req[s].op = op /\ req[s].kind = kind
        BY <1>2 DEF EditRow, Route
      <3>2. Target(s) \in req[s].on
        BY <3>1, TargetIsNamed DEF PathOps
      <3>3. \A r \in rows : r.id = Target(s) => r.kind # "like"
        BY <3>1, <3>2, Request DEF Aimed, TargetKinds, OwnerOps, PostKinds
      <3> QED
        BY <2>1, <3>3, OtherEdited, Request
    <2> QED
      BY <1>1, <1>2, <2>1 DEF EditRow, Refuse
  <1>3. ASSUME NEW op, NEW kind, DeleteRow(s, op, kind) PROVE NoNewLikes
    BY <1>1, <1>3, NoneRemoved DEF DeleteRow, Delete, Refuse
  <1>4. ASSUME NEW op, NEW kind, CheckOwner(s, op, kind) PROVE NoNewLikes
    BY <1>1, <1>4 DEF CheckOwner, Refuse
  <1>5. ASSUME NEW op, NEW kind, NEW table, table # "like", CreateRow(s, op, kind, table)
        PROVE  NoNewLikes
    BY <1>1, <1>5, OtherInserted DEF CreateRow, Refuse
  <1>6. CASE CommentSteps(s)
    BY <1>2, <1>3, <1>4, <1>5, <1>6
    DEF CommentSteps, CheckIfBeerCommentOwner, CheckIfBreweryCommentOwner,
        CheckIfBeerStyleCommentOwner, EditBeerPostComment, EditBreweryPostComment,
        EditBeerStyleComment, DeleteBeerPostComment, DeleteBreweryPostComment,
        DeleteBeerStyleComment, CreateBeerPostComment, CreateBreweryComment, CreateStyleComment,
        OwnerOps, PostKinds
  <1>7. CASE PostSteps(s)
    <2>1. CreateBreweryPost(s) => NoNewLikes
      BY <1>1, OtherInserted
      DEF CreateBreweryPost, Geocode, CreateBreweryPostLocation, CreateNewBreweryPost, Refuse
    <2>2. CreateBeerStyle(s) => NoNewLikes
      BY <1>1, <1>5 DEF CreateBeerStyle, Refuse
    <2>3. CASE EditBreweryPost(s)
      <3>1. req[s].at = "write" /\ req[s].op = "edit" /\ req[s].kind = "brewery"
        BY <2>3 DEF EditBreweryPost, Route
      <3>2. Target(s) \in req[s].on
        BY <3>1, TargetIsNamed DEF PathOps, OwnerOps
      <3>3. \A r \in rows : r.id = Target(s) => r.kind # "like"
        BY <3>1, <3>2, Request DEF Aimed, TargetKinds
      <3> QED
        BY <1>1, <2>3, <3>3, BreweryUpdated, Request DEF EditBreweryPost, Refuse
    <2> QED
      BY <1>2, <1>3, <1>4, <1>5, <1>7, <2>1, <2>2, <2>3
      DEF PostSteps, CheckIfBeerPostOwner, CheckIfBreweryPostOwner, EditBeerPost, DeleteBeerPost,
          DeleteBreweryPost, CreateBeerPost, OwnerOps, PostKinds
  <1>8. CASE OtherSteps(s)
    <2>1. ASSUME NEW kind, ToggleLike(s, kind) PROVE NoNewLikes \/ AddsLike(s)
      <3>1. CASE WriteLike(s)
        BY <1>1, <2>1, <3>1, NoneRemoved DEF WriteLike, ToggleLike, Route, AddsLike, Delete, Refuse
      <3> QED
        BY <1>1, <2>1, <3>1 DEF ToggleLike, FindLikedPost, FindLike, Refuse
    <2>2. UploadFile(s) \/ UploadFails(s) => NoNewLikes
      BY NoneRemoved DEF UploadFile, UploadFails, StoreObject
    <2>3. UploadMiddlewareMultiple(s) => NoNewLikes
      BY <1>1, <2>2 DEF UploadMiddlewareMultiple, Refuse
    <2>4. ASSUME NEW kind, AddImage(s, kind) PROVE NoNewLikes
      BY <1>1, <2>4, OtherInserted DEF AddImage, Refuse
    <2>5. FollowUser(s) => NoNewLikes
      <3>1. UNCHANGED <<users, rows>> => NoNewLikes
        BY NoneRemoved
      <3> QED
        BY <1>1, <3>1 DEF FollowUser, FindPeer, FindUserFollow, WriteFollow, CreateFollow,
                          DeleteFollow, Refuse
    <2>6. UpdateAvatar(s) => NoNewLikes
      BY <1>1, <2>2, AvatarUpserted, Request DEF UpdateAvatar, Refuse
    <2>7. DeleteAccount(s) => NoNewLikes
      BY <1>1, NoneRemoved DEF DeleteAccount, FindPeer, DeleteUser, Refuse
    <2> QED
      BY <1>8, <2>1, <2>3, <2>4, <2>5, <2>6, <2>7
      DEF OtherSteps, SendBeerPostLikeRequest, SendBreweryPostLikeRequest,
          SendBeerStyleLikeRequest, ProcessBeerImageData, ProcessBreweryImageData
  <1>9. GetCurrentUser(s) => NoNewLikes
    BY <1>1 DEF GetCurrentUser, Refuse
  <1> QED
    BY <1>6, <1>7, <1>8, <1>9 DEF HandlerStep

(* The stages that a toggle goes through. *)
LEMMA LikeRoute ==
  ASSUME IInv, NEW s \in Slots, HandlerStep(s), req[s].op = "like"
  PROVE  GetCurrentUser(s) \/ FindLikedPost(s) \/ FindLike(s) \/ WriteLike(s)
  <1>1. ~CommentSteps(s)
    BY DEF CommentSteps, CheckIfBeerCommentOwner, CheckIfBreweryCommentOwner,
        CheckIfBeerStyleCommentOwner, EditBeerPostComment, EditBreweryPostComment,
        EditBeerStyleComment, DeleteBeerPostComment, DeleteBreweryPostComment,
        DeleteBeerStyleComment, CreateBeerPostComment, CreateBreweryComment, CreateStyleComment,
        CheckOwner, EditRow, DeleteRow, CreateRow, Route
  <1>2. ~PostSteps(s)
    <2>1. ~CreateBreweryPost(s)
      BY Request
      DEF CreateBreweryPost, Geocode, CreateBreweryPostLocation, CreateNewBreweryPost, Route, Aimed
    <2>2. ~CreateBeerStyle(s)
      BY Request DEF CreateBeerStyle, CreateRow, Route, Aimed
    <2> QED
      BY <2>1, <2>2
      DEF PostSteps, CheckIfBeerPostOwner, CheckIfBreweryPostOwner, EditBeerPost,
          EditBreweryPost, DeleteBeerPost, DeleteBreweryPost, CreateBeerPost,
          CheckOwner, EditRow, DeleteRow, CreateRow, Route
  <1> QED
    BY <1>1, <1>2
    DEF HandlerStep, OtherSteps, SendBeerPostLikeRequest, SendBreweryPostLikeRequest,
        SendBeerStyleLikeRequest, ToggleLike, ProcessBeerImageData, ProcessBreweryImageData,
        UploadMiddlewareMultiple, AddImage, UpdateAvatar, FollowUser, DeleteAccount, Route

(* A step of a request leaves the others alone, and what it asks for.      *)
Moves(s) ==
  /\ req[s].at \notin {"idle", "done"}
  /\ req'[s].at # "idle"
  /\ req'[s].op = req[s].op /\ req'[s].user = req[s].user /\ req'[s].on = req[s].on
  /\ \A q \in Slots \ {s} : req'[q] = req[q]

LEMMA GotoMoves ==
  ASSUME IInv, NEW s \in Slots, req[s].at \notin {"idle", "done"}, NEW stage, stage # "idle",
         Goto(s, stage)
  PROVE  Moves(s) /\ req'[s].at = stage
  <1>1. req \in [Slots -> Requests] /\ req[s] \in Requests
    BY Request
  <1> QED
    BY <1>1 DEF Goto, Moves, Requests

LEMMA ReplyMoves ==
  ASSUME IInv, NEW s \in Slots, req[s].at \notin {"idle", "done"}, NEW code, Reply(s, code)
  PROVE  Moves(s)
  <1>1. req \in [Slots -> Requests] /\ req[s] \in Requests
    BY Request
  <1> QED
    BY <1>1 DEF Reply, Moves, Requests

LEMMA FoundMoves ==
  ASSUME IInv, NEW s \in Slots, req[s].at \notin {"idle", "done"}, NEW row,
         req' = [req EXCEPT ![s].row = row, ![s].at = "write"]
  PROVE  Moves(s) /\ req'[s].at = "write" /\ req'[s].row = row
  <1>1. req \in [Slots -> Requests] /\ req[s] \in Requests
    BY Request
  <1> QED
    BY <1>1 DEF Moves, Requests

LEMMA FilesMove ==
  ASSUME IInv, NEW s \in Slots, UploadFile(s) \/ UploadFails(s)
  PROVE  Moves(s)
  <1>1. req \in [Slots -> Requests] /\ req[s] \in Requests
    BY Request
  <1>2. CASE UploadFile(s)
    BY <1>1, <1>2 DEF UploadFile, Moves, Requests
  <1> QED
    BY <1>2, ReplyMoves DEF UploadFails

LEMMA AddImageMoves ==
  ASSUME IInv, NEW s \in Slots, NEW kind, AddImage(s, kind)
  PROVE  Moves(s)
  <1>1. req \in [Slots -> Requests] /\ req[s] \in Requests /\ req[s].at = "write"
    BY Request DEF AddImage
  <1>2. ASSUME NEW path, req' = [req EXCEPT ![s] = WithoutFile(req[s], path)] PROVE Moves(s)
    <2> DEFINE r == WithoutFile(req[s], path)
    <2>1. /\ r.op = req[s].op /\ r.user = req[s].user /\ r.on = req[s].on
          /\ r.at \in {"done", "write"}
      BY <1>1, WithoutFileTyped
    <2> HIDE DEF r
    <2>2. req' = [req EXCEPT ![s] = r]
      BY <1>2 DEF r
    <2> QED
      BY <1>1, <2>1, <2>2 DEF Moves
  <1> QED
    BY <1>1, <1>2, ReplyMoves DEF AddImage, Refuse

LEMMA RequestMoves ==
  ASSUME IInv, NEW s \in Slots, HandlerStep(s)
  PROVE  Moves(s)
  <1>1. ASSUME NEW code, Refuse(s, code), req[s].at \notin {"idle", "done"} PROVE Moves(s)
    BY <1>1, ReplyMoves DEF Refuse
  <1>2. ASSUME NEW op, NEW kind, NEW table,
               \/ CheckOwner(s, op, kind) \/ EditRow(s, op, kind)
               \/ DeleteRow(s, op, kind) \/ CreateRow(s, op, kind, table)
        PROVE  Moves(s)
    BY <1>1, <1>2, GotoMoves, ReplyMoves DEF CheckOwner, EditRow, DeleteRow, CreateRow
  <1>3. CASE CommentSteps(s)
    BY <1>2, <1>3
    DEF CommentSteps, CheckIfBeerCommentOwner, CheckIfBreweryCommentOwner,
        CheckIfBeerStyleCommentOwner, EditBeerPostComment, EditBreweryPostComment,
        EditBeerStyleComment, DeleteBeerPostComment, DeleteBreweryPostComment,
        DeleteBeerStyleComment, CreateBeerPostComment, CreateBreweryComment, CreateStyleComment
  <1>4. CASE PostSteps(s)
    <2>1. CreateBreweryPost(s) => Moves(s)
      BY <1>1, GotoMoves, ReplyMoves, FoundMoves
      DEF CreateBreweryPost, Geocode, CreateBreweryPostLocation, CreateNewBreweryPost
    <2>2. CreateBeerStyle(s) => Moves(s)
      BY <1>1, <1>2, GotoMoves DEF CreateBeerStyle
    <2>3. EditBreweryPost(s) => Moves(s)
      BY <1>1, ReplyMoves DEF EditBreweryPost
    <2> QED
      BY <1>2, <1>4, <2>1, <2>2, <2>3
      DEF PostSteps, CheckIfBeerPostOwner, CheckIfBreweryPostOwner, EditBeerPost,
          DeleteBeerPost, DeleteBreweryPost, CreateBeerPost
  <1>5. CASE OtherSteps(s)
    <2>1. ASSUME NEW kind, ToggleLike(s, kind) PROVE Moves(s)
      <3>1. FindLikedPost(s) => Moves(s)
        BY <1>1, GotoMoves DEF FindLikedPost
      <3>2. FindLike(s) => Moves(s)
        BY FoundMoves DEF FindLike
      <3>3. WriteLike(s) => Moves(s)
        BY <1>1, ReplyMoves DEF WriteLike
      <3> QED
        BY <2>1, <3>1, <3>2, <3>3 DEF ToggleLike
    <2>2. UploadMiddlewareMultiple(s) => Moves(s)
      BY <1>1, FilesMove, GotoMoves DEF UploadMiddlewareMultiple
    <2>3. UpdateAvatar(s) => Moves(s)
      BY <1>1, FilesMove, GotoMoves, ReplyMoves DEF UpdateAvatar
    <2>4. ASSUME NEW next \in {"find", "write"}, FindPeer(s, next) PROVE Moves(s)
      BY <1>1, <2>4, GotoMoves DEF FindPeer
    <2>5. FollowUser(s) => Moves(s)
      BY <1>1, <2>4, ReplyMoves, FoundMoves DEF FollowUser, FindUserFollow, WriteFollow
    <2>6. DeleteAccount(s) => Moves(s)
      BY <1>1, <2>4, ReplyMoves DEF DeleteAccount
    <2> QED
      BY <1>5, <2>1, <2>2, <2>3, <2>5, <2>6, AddImageMoves
      DEF OtherSteps, SendBeerPostLikeRequest, SendBreweryPostLikeRequest,
          SendBeerStyleLikeRequest, ProcessBeerImageData, ProcessBreweryImageData
  <1>6. CASE GetCurrentUser(s)
    <2>1. req[s].op \in Operations /\ req[s].at = "auth"
      BY <1>6, Request DEF GetCurrentUser, Aimed
    <2>2. FirstStage(req[s].op) # "idle"
      BY <2>1 DEF Operations, FirstStage
    <2> QED
      BY <1>1, <1>6, <2>1, <2>2, GotoMoves DEF GetCurrentUser
  <1> QED
    BY <1>3, <1>4, <1>5, <1>6 DEF HandlerStep

(* The lookup and the insertion of a toggle are the only steps that come   *)
(* near to more likes.                                                     *)
LEMMA LikesAndAdders ==
  ASSUME IInv, NEW s \in Slots, HandlerStep(s), NEW u, NEW p
  PROVE  \/ LikesOf(u, p)' \subseteq LikesOf(u, p) /\ Adding(u, p)' \subseteq Adding(u, p)
         \/ LikesOf(u, p)' = {}
         \/ /\ \E n : LikesOf(u, p)' = LikesOf(u, p) \cup {n}
            /\ s \in Adding(u, p) /\ Adding(u, p)' \subseteq Adding(u, p) \ {s}
  <1> DEFINE Mine == req[s].op = "like" /\ req[s].user = u /\ req[s].on = {p}
  <1>1. Moves(s)
    BY RequestMoves
  <1>2. /\ Adding(u, p)' \subseteq Adding(u, p) \cup {s}
        /\ s \in Adding(u, p)' => Mine /\ req'[s].at = "write" /\ req'[s].row = NoRow
    BY <1>1 DEF Moves, Adding
  <1>3. NoNewLikes => LikesOf(u, p)' \subseteq LikesOf(u, p)
    BY DEF NoNewLikes, LikesOf, Rows
  <1>4. CASE AddsLike(s)
    <2> DEFINE n == NewRow("like", req[s].user, req[s].on, NoRow)
    <2>1. /\ n.kind = "like" /\ n.by = req[s].user /\ n.on = req[s].on
          /\ rows' = rows \cup {n}
      BY <1>4 DEF AddsLike, Insert, NewRow
    <2>2. req'[s].at = "done"
      BY <1>4, Replied DEF AddsLike
    <2>3. s \notin Adding(u, p)'
      BY <2>2 DEF Adding
    <2> HIDE DEF n
    <2>4. CASE Mine
      <3>1. LikesOf(u, p)' = LikesOf(u, p) \cup {n}
        BY <2>1, <2>4 DEF LikesOf, Rows
      <3>2. s \in Adding(u, p)
        BY <1>4, <2>4 DEF AddsLike, Adding
      <3> QED
        BY <1>2, <2>3, <3>1, <3>2
    <2>5. CASE ~Mine
      <3>1. LikesOf(u, p)' = LikesOf(u, p)
        BY <2>1, <2>5, <1>4 DEF LikesOf, Rows, AddsLike
      <3> QED
        BY <1>2, <2>3, <3>1
    <2> QED
      BY <2>4, <2>5
  <1>5. CASE NoNewLikes /\ s \notin Adding(u, p)'
    BY <1>2, <1>3, <1>5
  <1>6. CASE s \in Adding(u, p)'
    <2>1. Mine /\ req'[s].at = "write" /\ req'[s].row = NoRow
      BY <1>2, <1>6
    <2>2. FindLike(s)
      <3>1. ~GetCurrentUser(s)
        BY <2>1, GotoMoves, Replied DEF GetCurrentUser, FirstStage, Refuse
      <3>2. ~FindLikedPost(s)
        BY <2>1, GotoMoves, Replied DEF FindLikedPost, Refuse
      <3>3. ~WriteLike(s)
        BY <2>1, Replied DEF WriteLike, Refuse
      <3> QED
        BY <2>1, <3>1, <3>2, <3>3, LikeRoute
    <2>3. req[s].on = {Target(s)}
      BY <1>1, <2>1, TargetIsNamed DEF Moves, PathOps
    <2>4. LikesOf(u, p) = {}
      <3>1. Target(s) = p
        BY <2>1, <2>3
      <3>2. PICK i \in IF LikesOf(u, p) = {} THEN {NoRow} ELSE IdsOf(LikesOf(u, p)) :
              req' = [req EXCEPT ![s].row = i, ![s].at = "write"]
        BY <2>1, <2>2, <3>1 DEF FindLike
      <3>3. i = NoRow
        BY <1>1, <2>1, <3>2, FoundMoves DEF Moves
      <3>4. \A r \in rows : r.id # NoRow
        BY Request, RowTyped, SeedIsSound DEF StoreOK
      <3> QED
        BY <3>2, <3>3, <3>4 DEF IdsOf, LikesOf, Rows
    <2>5. UNCHANGED rows
      BY <2>2 DEF FindLike, store
    <2> QED
      BY <2>4, <2>5 DEF LikesOf, Rows
  <1> QED
    BY <1>4, <1>5, <1>6, RowsAdded

(* A user's likes of a post, and the requests about to add one. *)
BoundedAt(u, p) ==
  \/ LikesOf(u, p) \subseteq SeedRows /\ Adding(u, p) = {}
  \/ /\ IsFiniteSet(LikesOf(u, p))
     /\ Cardinality(LikesOf(u, p)) + Cardinality(Adding(u, p)) <= Cardinality(Slots)

LikesInv == \A u \in Users, p \in Ids : BoundedAt(u, p)

LEMMA AddersAreFinite ==
  ASSUME NEW u, NEW p
  PROVE  IsFiniteSet(Adding(u, p)) /\ Cardinality(Adding(u, p)) <= Cardinality(Slots)
         /\ Cardinality(Adding(u, p)) \in Nat /\ Cardinality(Slots) \in Nat
  BY SlotsAreFinite, FS_Subset, FS_CardinalityType DEF Adding

(* Neither grows. *)
LEMMA FewerStayBounded ==
  ASSUME NEW u, NEW p, BoundedAt(u, p),
         LikesOf(u, p)' \subseteq LikesOf(u, p), Adding(u, p)' \subseteq Adding(u, p)
  PROVE  BoundedAt(u, p)'
  <1>1. CASE LikesOf(u, p) \subseteq SeedRows /\ Adding(u, p) = {}
    BY <1>1 DEF BoundedAt
  <1>2. CASE /\ IsFiniteSet(LikesOf(u, p))
             /\ Cardinality(LikesOf(u, p)) + Cardinality(Adding(u, p)) <= Cardinality(Slots)
    <2>1. /\ IsFiniteSet(LikesOf(u, p)')
          /\ Cardinality(LikesOf(u, p)') \in Nat /\ Cardinality(LikesOf(u, p)) \in Nat
          /\ Cardinality(LikesOf(u, p)') <= Cardinality(LikesOf(u, p))
      BY <1>2, FS_Subset, FS_CardinalityType
    <2>2. /\ Cardinality(Adding(u, p)') \in Nat
          /\ Cardinality(Adding(u, p)') <= Cardinality(Adding(u, p))
      BY AddersAreFinite, FS_Subset, FS_CardinalityType
    <2>3. Cardinality(LikesOf(u, p)') + Cardinality(Adding(u, p)') <= Cardinality(Slots)
      BY <1>2, <2>1, <2>2, AddersAreFinite
    <2> QED
      BY <2>1, <2>3 DEF BoundedAt
  <1> QED
    BY <1>1, <1>2 DEF BoundedAt

(* There is none: no more can be about to add one than there are slots. *)
LEMMA NoLikesAreBounded ==
  ASSUME NEW u, NEW p, LikesOf(u, p)' = {}, IsFiniteSet(Adding(u, p)'),
         Adding(u, p)' \subseteq Slots
  PROVE  BoundedAt(u, p)'
  <1>1. IsFiniteSet({}) /\ Cardinality({}) = 0
    BY FS_EmptySet
  <1>2. /\ Cardinality(Adding(u, p)') \in Nat
        /\ Cardinality(Adding(u, p)') <= Cardinality(Slots)
    BY SlotsAreFinite, FS_Subset, FS_CardinalityType
  <1> QED
    BY <1>1, <1>2 DEF BoundedAt

(* One that was about to add a like has added it. *)
LEMMA AddedStaysBounded ==
  ASSUME NEW u, NEW p, BoundedAt(u, p), NEW s \in Adding(u, p), NEW n,
         LikesOf(u, p)' = LikesOf(u, p) \cup {n}, Adding(u, p)' \subseteq Adding(u, p) \ {s}
  PROVE  BoundedAt(u, p)'
  <1>1. /\ IsFiniteSet(LikesOf(u, p))
        /\ Cardinality(LikesOf(u, p)) + Cardinality(Adding(u, p)) <= Cardinality(Slots)
    BY DEF BoundedAt
  <1>2. /\ IsFiniteSet(LikesOf(u, p)') /\ Cardinality(LikesOf(u, p)') \in Nat
        /\ Cardinality(LikesOf(u, p)) \in Nat
        /\ Cardinality(LikesOf(u, p)') <= Cardinality(LikesOf(u, p)) + 1
    <2> DEFINE old == LikesOf(u, p)
               new == old \cup {n}
    <2>1. /\ IsFiniteSet(new)
          /\ Cardinality(new) = IF n \in old THEN Cardinality(old) ELSE Cardinality(old) + 1
      BY <1>1, FS_AddElement
    <2>2. Cardinality(old) \in Nat /\ Cardinality(new) \in Nat
      BY <1>1, <2>1, FS_CardinalityType
    <2>3. LikesOf(u, p)' = new
      OBVIOUS
    <2> HIDE DEF old, new
    <2>4. Cardinality(new) <= Cardinality(old) + 1
      BY <2>1, <2>2
    <2>5. old = LikesOf(u, p)
      BY DEF old
    <2> QED
      BY <2>1, <2>2, <2>3, <2>4, <2>5
  <1>3. /\ Cardinality(Adding(u, p) \ {s}) = Cardinality(Adding(u, p)) - 1
        /\ IsFiniteSet(Adding(u, p) \ {s})
    BY AddersAreFinite, FS_RemoveElement
  <1>4. /\ Cardinality(Adding(u, p)') \in Nat
        /\ Cardinality(Adding(u, p)') <= Cardinality(Adding(u, p) \ {s})
    BY <1>3, FS_Subset, FS_CardinalityType
  <1>5. Cardinality(LikesOf(u, p)') + Cardinality(Adding(u, p)') <= Cardinality(Slots)
    BY <1>1, <1>2, <1>3, <1>4, AddersAreFinite
  <1> QED
    BY <1>2, <1>5 DEF BoundedAt

LEMMA HandlerStepKeepsBound ==
  ASSUME IInv, LikesInv, NEW s \in Slots, HandlerStep(s)
  PROVE  LikesInv'
  <1> SUFFICES ASSUME NEW u \in Users, NEW p \in Ids PROVE BoundedAt(u, p)'
    BY DEF LikesInv
  <1>1. BoundedAt(u, p)
    BY DEF LikesInv
  <1>2. Adding(u, p)' \subseteq Slots /\ IsFiniteSet(Adding(u, p)')
    BY SlotsAreFinite, FS_Subset DEF Adding
  <1> QED
    BY <1>1, <1>2, LikesAndAdders, FewerStayBounded, NoLikesAreBounded, AddedStaysBounded

(* A step that only begins or ends requests. *)
LEMMA BoundStays ==
  ASSUME IInv, LikesInv, UNCHANGED rows, NEW s \in Slots, \A q \in Slots \ {s} : req'[q] = req[q],
         req'[s].at # "write"
  PROVE  LikesInv'
  <1> SUFFICES ASSUME NEW u \in Users, NEW p \in Ids PROVE BoundedAt(u, p)'
    BY DEF LikesInv
  <1>1. LikesOf(u, p)' = LikesOf(u, p) /\ Adding(u, p)' \subseteq Adding(u, p)
    BY DEF LikesOf, Rows, Adding
  <1> QED
    BY <1>1, FewerStayBounded DEF LikesInv

LEMMA SubmitChanges ==
  ASSUME IInv, NEW s \in Slots, NEW op, NEW kind, NEW u, NEW on, Submit(s, op, kind, u, on)
  PROVE  /\ UNCHANGED store
         /\ req[s].at = "idle" /\ req'[s] = NewRequest(op, kind, u, on, "auth")
         /\ req'[s].op = op /\ req'[s].user = u /\ req'[s].on = on /\ req'[s].at = "auth"
         /\ \A q \in Slots \ {s} : req'[q] = req[q]
  BY Request DEF Submit, NewRequest

LEMMA FinishChanges ==
  ASSUME IInv, NEW s \in Slots, Finish(s)
  PROVE  /\ UNCHANGED store /\ req[s].at = "done" /\ req'[s].at = "idle"
         /\ \A q \in Slots \ {s} : req'[q] = req[q]
  BY Request DEF Finish, Idle, NewRequest

LEMMA UIStepKeepsBound == IInv /\ LikesInv /\ [UINext]_allVars => LikesInv'
  <1> SUFFICES ASSUME IInv, LikesInv, [UINext]_allVars PROVE LikesInv'
    OBVIOUS
  <1>1. ASSUME UNCHANGED vars PROVE LikesInv'
    <2>1. UNCHANGED <<rows, req>>
      BY <1>1 DEF vars, store
    <2>2. ASSUME NEW u \in Users, NEW p \in Ids PROVE BoundedAt(u, p)'
      <3>1. LikesOf(u, p)' = LikesOf(u, p) /\ Adding(u, p)' = Adding(u, p)
        BY <2>1 DEF LikesOf, Rows, Adding
      <3> QED
        BY <3>1, FewerStayBounded DEF LikesInv
    <2> QED
      BY <2>2 DEF LikesInv
  <1>2. ASSUME NEW s \in Slots, Finish(s) PROVE LikesInv'
    BY <1>2, FinishChanges, BoundStays DEF store
  <1>3. ASSUME NEW s \in Slots, NEW op, NEW kind, NEW u, NEW on, Submit(s, op, kind, u, on)
        PROVE  LikesInv'
    <2>1. req'[s].at = "auth" /\ UNCHANGED rows /\ \A q \in Slots \ {s} : req'[q] = req[q]
      BY <1>3, SubmitChanges DEF store
    <2> QED
      BY <2>1, BoundStays
  <1>4. ASSUME NEW s \in Slots, BeginElsewhere(s) \/ ServerStep(s) PROVE LikesInv'
    BY <1>2, <1>3, <1>4, HandlerStepKeepsBound DEF BeginElsewhere, Begin, ServerStep
  <1>5. ASSUME NEW t \in Tabs, NEW s \in Slots,
               Click(t, s) \/ Answered(t, s) \/ AnswerLost(t, s)
        PROVE  LikesInv'
    BY <1>1, <1>2, <1>3, <1>5 DEF Click, Answered, AnswerLost
  <1>6. ASSUME NEW t \in Tabs,
               \/ StatusRead(t) \/ StatusArrives(t) \/ HandlerEnds(t)
               \/ Open(t) \/ Revalidate(t)
        PROVE  LikesInv'
    BY <1>1, <1>6 DEF StatusRead, StatusArrives, HandlerEnds, Open, Revalidate
  <1>7. CASE UNCHANGED allVars
    BY <1>1, <1>7 DEF allVars
  <1> QED
    BY <1>4, <1>5, <1>6, <1>7 DEF UINext

LEMMA LikesBegin == CommunityInit => LikesInv
  <1> SUFFICES ASSUME CommunityInit, NEW u \in Users, NEW p \in Ids PROVE BoundedAt(u, p)
    BY DEF LikesInv
  <1>1. LikesOf(u, p) \subseteq SeedRows
    BY DEF CommunityInit, StoreInit, LikesOf, Rows
  <1>2. Adding(u, p) = {}
    BY DEF CommunityInit, Idle, NewRequest, Adding
  <1> QED
    BY <1>1, <1>2 DEF BoundedAt

LEMMA LikesImplied ==
  ASSUME IInv, LikesInv
  PROVE  LikesBounded
  <1>1. IdsOf(rows) \subseteq Ids
    BY Request, RowTyped DEF IInv, StoreOK, IdsOf
  <1> QED
    BY <1>1 DEF LikesInv, BoundedAt, LikesBounded

-----------------------------------------------------------------------------
(* The like button: what a tab shows, or will show.                        *)

Fetches == [by : {"none", "mount", "click", "again"}, val : {"none", "error", "liked", "unliked"}]

UITypeOK ==
  /\ waiter \in [Slots -> Tabs \cup {NoTab}]
  /\ unsure \in [Tabs -> BOOLEAN]
  /\ fetch \in [Tabs -> Fetches]
  /\ shown \in [Tabs -> {"none", "liked", "unliked"}]
  /\ failed \in [Tabs -> BOOLEAN]

(* The request of s toggles what t shows. *)
Toggles(s, t) ==
  /\ req[s].at # "idle" /\ req[s].op = "like"
  /\ req[s].user = TabUser[t] /\ req[s].on = {TabPost[t]}

(* A tab awaits only toggles of its own post, and while it is sure, all of *)
(* them.                                                                   *)
Awaited ==
  \A s \in Slots, t \in Tabs :
    /\ waiter[s] = t => Toggles(s, t)
    /\ ~unsure[t] /\ Toggles(s, t) => waiter[s] = t

Truth(t) == IF LikesOf(TabUser[t], TabPost[t]) # {} THEN "liked" ELSE "unliked"

Matters(t) ==
  TabKind[t] # "style" /\ ~unsure[t] /\ TabUser[t] \in users /\ Has(TabPost[t])

(* The button shows the truth or nothing yet, or a fetch is under way that *)
(* has read or will read it, or has failed; or an answer is under way that *)
(* will start one.                                                         *)
Converging(t) ==
  \/ \E s \in Slots : waiter[s] = t /\ req[s].at = "done" /\ req[s].code = 200
  \/ fetch[t].by # "none" /\ fetch[t].val \in {"none", "error", Truth(t)}
  \/ fetch[t] = NoFetch /\ (failed[t] \/ shown[t] \in {"none", Truth(t)})

ButtonInv == UITypeOK /\ Awaited /\ \A t \in Tabs : Matters(t) => Converging(t)

LEMMA ButtonImplied ==
  ASSUME ButtonInv
  PROVE  ButtonTellsTruth
  <1> SUFFICES ASSUME NEW t \in Tabs, TabKind[t] # "style", Quiet(t), TabUser[t] \in users,
                      Has(TabPost[t])
               PROVE  shown[t] = Truth(t)
    BY DEF ButtonTellsTruth, Truthful, Truth
  <1>1. Converging(t)
    BY DEF ButtonInv, Matters, Quiet
  <1>2. ~\E s \in Slots : waiter[s] = t
    BY DEF ButtonInv, Awaited, Quiet, Toggles
  <1> QED
    BY <1>1, <1>2 DEF Converging, Quiet, IsOpen, NoFetch

LEMMA ButtonBegins == UIInit => ButtonInv
  <1> SUFFICES ASSUME UIInit PROVE ButtonInv
    OBVIOUS
  <1>1. UITypeOK
    BY DEF UIInit, UITypeOK, NoFetch, Fetches
  <1>2. Awaited
    BY TabsShowPosts DEF UIInit, CommunityInit, Idle, NewRequest, Awaited, Toggles
  <1>3. \A t \in Tabs : Converging(t)
    BY DEF UIInit, Converging
  <1> QED
    BY <1>1, <1>2, <1>3 DEF ButtonInv

(* A tab's post is of the seeding: once gone, it is not there again. *)
LEMMA MattersBefore ==
  ASSUME IInv, NEW s \in Slots, HandlerStep(s), NEW t \in Tabs, unsure[t] => unsure'[t],
         Matters(t)'
  PROVE  Matters(t)
  <1>1. TabPost[t] # serial
    BY Request, TabsShowPosts, SeedIsSound DEF StoreOK, IdsOf
  <1>2. NoNewLikes \/ AddsLike(s)
    BY RowsAdded
  <1>3. CASE NoNewLikes
    BY <1>1, <1>3 DEF NoNewLikes, Matters, Has, IdsOf
  <1>4. CASE AddsLike(s)
    <2>1. users' = users /\ \A r \in rows' : r \in rows \/ r.id = serial
      BY <1>4 DEF AddsLike, Insert, NewRow
    <2> QED
      BY <1>1, <2>1 DEF Matters, Has, IdsOf
  <1> QED
    BY <1>2, <1>3, <1>4

(* Where user and post stay, only a toggle that answers 200 or the PUT of  *)
(* a brewery changes what is true.                                         *)
LEMMA TruthChanges ==
  ASSUME IInv, NEW s \in Slots, HandlerStep(s), NEW t \in Tabs, Matters(t)',
         Truth(t)' # Truth(t)
  PROVE  \/ Toggles(s, t) /\ req'[s].at = "done" /\ req'[s].code = 200
         \/ /\ Route(s, "edit", "brewery")
            /\ LikesOf(TabUser[t], TabPost[t])' # LikesOf(TabUser[t], TabPost[t])
  <1> DEFINE u == TabUser[t]
             p == TabPost[t]
  <1>0. LikesOf(u, p)' # LikesOf(u, p)
    BY DEF Truth
  <1>1. Moves(s)
    BY RequestMoves
  <1>2. CASE AddsLike(s)
    <2> DEFINE n == NewRow("like", req[s].user, req[s].on, NoRow)
    <2>1. /\ n.kind = "like" /\ n.by = req[s].user /\ n.on = req[s].on
          /\ rows' = rows \cup {n}
      BY <1>2 DEF AddsLike, Insert, NewRow
    <2> HIDE DEF n
    <2>2. req[s].user = u /\ req[s].on = {p}
      BY <1>0, <2>1 DEF LikesOf, Rows
    <2> QED
      BY <1>2, <2>2, Replied DEF AddsLike, Toggles
  <1>3. CASE NoNewLikes
    <2>1. PICK r \in LikesOf(u, p) : r \notin rows'
      BY <1>0, <1>3 DEF NoNewLikes, LikesOf, Rows
    <2>2. /\ r \in rows /\ r.kind = "like" /\ r.by = u /\ r.on = {p}
          /\ r.by \in users' /\ r.on \subseteq IdsOf(rows')
      BY <2>1 DEF LikesOf, Rows, Matters, Has
    <2>3. PICK q \in Slots :
            /\ req[q].at # "done" /\ MayChange(q, r)
            /\ req'[q].at = "done" /\ req'[q].code = 200
      BY <2>1, <2>2, HandlerStepExplained DEF Explained
    <2>4. q = s
      BY <1>1, <2>3 DEF Moves
    <2>5. r.id = req[s].row \/ Route(s, "edit", "brewery")
      <3>1. r.id \notin req[s].on
        BY <1>1, <2>2, Request DEF Moves, Aimed, TargetKinds, PostKinds
      <3> QED
        BY <2>2, <2>3, <2>4, <3>1 DEF MayChange
    <2>6. CASE r.id = req[s].row
      <3>1. req[s].op = "like" /\ req[s].user = r.by /\ req[s].on = r.on
        BY <1>1, <2>2, <2>6, Request DEF Moves, Aimed
      <3> QED
        BY <1>1, <2>2, <2>3, <2>4, <3>1 DEF Moves, Toggles
    <2> QED
      BY <1>0, <2>5, <2>6
  <1> QED
    BY <1>2, <1>3, RowsAdded

LEMMA HandlerStepConverges ==
  ASSUME IInv, ButtonInv, NEW s \in Slots, HandlerStep(s), ServerStep(s)
  PROVE  ButtonInv'
  <1>1. /\ UNCHANGED <<waiter, shown, failed, fetch>>
        /\ unsure' = [t \in Tabs |->
             \/ unsure[t]
             \/ /\ Route(s, "edit", "brewery")
                /\ LikesOf(TabUser[t], TabPost[t])' # LikesOf(TabUser[t], TabPost[t])]
    BY DEF ServerStep
  <1>2. Moves(s)
    BY RequestMoves
  <1>3. UITypeOK' /\ \A t \in Tabs : unsure[t] => unsure'[t]
    BY <1>1 DEF ButtonInv, UITypeOK
  <1>4. ASSUME NEW q \in Slots, NEW t PROVE Toggles(q, t)' <=> Toggles(q, t)
    BY <1>2 DEF Moves, Toggles
  <1>5. Awaited'
    BY <1>1, <1>3, <1>4 DEF ButtonInv, Awaited
  <1>6. ASSUME NEW t \in Tabs, Matters(t)' PROVE Converging(t)'
    <2>1. Converging(t) /\ ~unsure[t] /\ ~unsure'[t]
      BY <1>3, <1>6, MattersBefore DEF ButtonInv, Matters
    <2>2. CASE Truth(t)' # Truth(t)
      <3>1. Toggles(s, t) /\ req'[s].at = "done" /\ req'[s].code = 200
        BY <1>1, <1>6, <2>1, <2>2, TruthChanges
      <3>2. waiter'[s] = t
        BY <1>1, <2>1, <3>1 DEF ButtonInv, Awaited
      <3> QED
        BY <3>1, <3>2 DEF Converging
    <2>3. CASE Truth(t)' = Truth(t)
      BY <1>1, <1>2, <2>1, <2>3 DEF Converging, Moves
    <2> QED
      BY <2>2, <2>3
  <1> QED
    BY <1>3, <1>5, <1>6 DEF ButtonInv

(* Requests begin and end: the truth stays. *)
LEMMA TruthStays ==
  ASSUME UNCHANGED store, NEW t
  PROVE  Truth(t)' = Truth(t) /\ (Has(TabPost[t])' <=> Has(TabPost[t]))
  BY DEF store, Truth, LikesOf, Rows, Has

(* A step of one slot that begins or ends a request: the tabs that stay    *)
(* sure keep what they wait for.                                           *)
LEMMA SlotStepAwaits ==
  ASSUME ButtonInv, NEW s \in Slots,
         \A q \in Slots \ {s} : req'[q] = req[q] /\ waiter'[q] = waiter[q],
         \A t \in Tabs : ~unsure'[t] => ~unsure[t],
         \A t \in Tabs : waiter'[s] = t => Toggles(s, t)',
         \A t \in Tabs : ~unsure'[t] /\ Toggles(s, t)' => waiter'[s] = t
  PROVE  Awaited'
  <1> SUFFICES ASSUME NEW q \in Slots, NEW t \in Tabs
               PROVE  /\ waiter'[q] = t => Toggles(q, t)'
                      /\ ~unsure'[t] /\ Toggles(q, t)' => waiter'[q] = t
    BY DEF Awaited
  <1>1. CASE q = s
    BY <1>1
  <1>2. CASE q # s
    <2>1. Toggles(q, t)' <=> Toggles(q, t)
      BY <1>2 DEF Toggles
    <2> QED
      BY <1>2, <2>1 DEF ButtonInv, Awaited
  <1> QED
    BY <1>1, <1>2

(* And what they show or will show stays true. *)
LEMMA SlotStepConverges ==
  ASSUME ButtonInv, NEW s \in Slots, UNCHANGED store,
         \A q \in Slots \ {s} : req'[q] = req[q] /\ waiter'[q] = waiter[q],
         NEW t \in Tabs, fetch'[t] = fetch[t], shown'[t] = shown[t],
         failed'[t] = failed[t],
         ~unsure'[t] => ~unsure[t],
         waiter[s] = t /\ req[s].at = "done" => req[s].code # 200,
         Matters(t)'
  PROVE  Converging(t)'
  <1>1. Truth(t)' = Truth(t) /\ Matters(t)
    BY TruthStays DEF Matters, store
  <1>2. Converging(t)
    BY <1>1 DEF ButtonInv
  <1>3. CASE \E q \in Slots : waiter[q] = t /\ req[q].at = "done" /\ req[q].code = 200
    BY <1>3 DEF Converging
  <1> QED
    BY <1>1, <1>2, <1>3 DEF Converging

LEMMA ClickConverges ==
  ASSUME IInv, ButtonInv, NEW t \in Tabs, NEW s \in Slots, Click(t, s)
  PROVE  ButtonInv'
  <1>1. /\ UNCHANGED store /\ req[s].at = "idle" /\ req'[s].op = "like"
        /\ req'[s].user = TabUser[t] /\ req'[s].on = {TabPost[t]} /\ req'[s].at = "auth"
        /\ \A q \in Slots \ {s} : req'[q] = req[q]
    BY SubmitChanges DEF Click
  <1>2. /\ waiter' = [waiter EXCEPT ![s] = t] /\ UNCHANGED <<shown, failed, fetch>>
        /\ unsure' = [x \in Tabs |->
             unsure[x] \/ (x # t /\ TabUser[x] = TabUser[t] /\ TabPost[x] = TabPost[t])]
    BY DEF Click
  <1>3. waiter \in [Slots -> Tabs \cup {NoTab}] /\ unsure \in [Tabs -> BOOLEAN] /\ UITypeOK
    BY DEF ButtonInv, UITypeOK
  <1>4. UITypeOK'
    BY <1>2, <1>3 DEF UITypeOK
  <1>5. waiter'[s] = t /\ \A q \in Slots \ {s} : waiter'[q] = waiter[q]
    BY <1>2, <1>3
  <1>6. \A x \in Tabs : ~unsure'[x] => ~unsure[x]
    BY <1>2
  <1>7. Toggles(s, t)'
    BY <1>1 DEF Toggles
  <1>8. \A x \in Tabs : ~unsure'[x] /\ Toggles(s, x)' => x = t
    <2>1. \A x \in Tabs : Toggles(s, x)' => TabUser[x] = TabUser[t] /\ TabPost[x] = TabPost[t]
      BY <1>1 DEF Toggles
    <2> QED
      BY <1>2, <2>1
  <1>9. Awaited'
    BY <1>1, <1>5, <1>6, <1>7, <1>8, SlotStepAwaits
  <1>10. \A x \in Tabs : Matters(x)' => Converging(x)'
    BY <1>1, <1>2, <1>5, <1>6, SlotStepConverges
  <1> QED
    BY <1>4, <1>9, <1>10 DEF ButtonInv

LEMMA AnswerConverges ==
  ASSUME IInv, ButtonInv, NEW t \in Tabs, NEW s \in Slots, Answered(t, s)
  PROVE  ButtonInv'
  <1>1. /\ UNCHANGED store /\ req'[s].at = "idle" /\ \A q \in Slots \ {s} : req'[q] = req[q]
    BY FinishChanges DEF Answered
  <1>2. /\ waiter' = [waiter EXCEPT ![s] = NoTab] /\ UNCHANGED <<shown, failed, unsure>>
        /\ waiter[s] = t /\ req[s].at = "done"
        /\ IF TakenForSuccess(t, s) THEN fetch' = [fetch EXCEPT ![t] = Sent("click")]
                                    ELSE fetch' = fetch
        /\ req[s].code = 200 => TakenForSuccess(t, s)
    BY DEF Answered, TakenForSuccess
  <1>3. UITypeOK
    BY DEF ButtonInv
  <1>4. UITypeOK'
    BY <1>2, <1>3 DEF UITypeOK, Sent, Fetches
  <1>5. waiter'[s] = NoTab /\ \A q \in Slots \ {s} : waiter'[q] = waiter[q]
    BY <1>2, <1>3 DEF UITypeOK
  <1>6. Awaited'
    <2>1. \A x : ~Toggles(s, x)'
      BY <1>1 DEF Toggles
    <2> QED
      BY <1>1, <1>2, <1>5, <2>1, TabsShowPosts, SlotStepAwaits
  <1>7. ASSUME NEW x \in Tabs, Matters(x)' PROVE Converging(x)'
    <2>1. CASE x = t /\ TakenForSuccess(t, s)
      <3>1. fetch'[t] = Sent("click")
        BY <1>2, <1>3, <2>1 DEF UITypeOK
      <3> QED
        BY <2>1, <3>1 DEF Converging, Sent
    <2>2. CASE ~(x = t /\ TakenForSuccess(t, s))
      <3>1. fetch'[x] = fetch[x]
        BY <1>2, <1>3, <2>2 DEF UITypeOK
      <3> QED
        BY <1>1, <1>2, <1>5, <1>7, <2>2, <3>1, SlotStepConverges
    <2> QED
      BY <2>1, <2>2
  <1> QED
    BY <1>4, <1>6, <1>7 DEF ButtonInv

LEMMA LossConverges ==
  ASSUME IInv, ButtonInv, NEW t \in Tabs, NEW s \in Slots, AnswerLost(t, s)
  PROVE  ButtonInv'
  <1>1. /\ UNCHANGED <<store, req, shown, failed, fetch>> /\ waiter[s] = t
        /\ waiter' = [waiter EXCEPT ![s] = NoTab] /\ unsure' = [unsure EXCEPT ![t] = TRUE]
    BY DEF AnswerLost, vars, store
  <1>2. UITypeOK
    BY DEF ButtonInv
  <1>3. UITypeOK'
    BY <1>1, <1>2 DEF UITypeOK
  <1>4. /\ waiter'[s] = NoTab /\ \A q \in Slots \ {s} : waiter'[q] = waiter[q]
        /\ unsure'[t] /\ \A x \in Tabs : ~unsure'[x] => ~unsure[x]
    BY <1>1, <1>2 DEF UITypeOK
  <1>5. Awaited'
    <2>1. \A x \in Tabs : ~unsure'[x] => ~Toggles(s, x)'
      <3>1. \A x : Toggles(s, x)' <=> Toggles(s, x)
        BY <1>1 DEF Toggles
      <3> QED
        BY <1>1, <1>4, <3>1 DEF ButtonInv, Awaited
    <2> QED
      BY <1>1, <1>4, <2>1, TabsShowPosts, SlotStepAwaits
  <1>6. \A x \in Tabs : Matters(x)' => Converging(x)'
    <2>1. \A x \in Tabs : Matters(x)' => x # t
      BY <1>4 DEF Matters
    <2> QED
      BY <1>1, <1>4, <2>1, SlotStepConverges
  <1> QED
    BY <1>3, <1>5, <1>6 DEF ButtonInv

(* A status fetch of this tab, and nothing else. *)
LEMMA FetchConverges ==
  ASSUME IInv, ButtonInv, NEW t \in Tabs,
         StatusRead(t) \/ StatusArrives(t) \/ HandlerEnds(t) \/ Open(t) \/ Revalidate(t)
  PROVE  ButtonInv'
  <1>1. UNCHANGED <<store, req, waiter, unsure>>
    BY DEF StatusRead, StatusArrives, HandlerEnds, Open, Revalidate, vars, store
  <1>2. UITypeOK
    BY DEF ButtonInv
  <1>3. /\ fetch \in [Tabs -> Fetches] /\ shown \in [Tabs -> {"none", "liked", "unliked"}]
        /\ fetch[t] \in Fetches /\ failed \in [Tabs -> BOOLEAN]
    BY <1>2 DEF UITypeOK
  <1>4. Awaited'
    <2>1. \A q \in Slots, x \in Tabs : Toggles(q, x)' <=> Toggles(q, x)
      BY <1>1 DEF Toggles
    <2> QED
      BY <1>1, <2>1 DEF ButtonInv, Awaited
  <1>5. \A x \in Tabs : Truth(x)' = Truth(x) /\ (Matters(x)' => Matters(x))
    BY <1>1, TruthStays DEF Matters, store
  <1>6. SUFFICES /\ UITypeOK'
                 /\ \A x \in Tabs \ {t} : /\ fetch'[x] = fetch[x] /\ shown'[x] = shown[x]
                                             /\ failed'[x] = failed[x]
                 /\ Matters(t) /\ Converging(t) => Converging(t)'
    <2>1. ASSUME NEW x \in Tabs \ {t}, fetch'[x] = fetch[x], shown'[x] = shown[x],
                 failed'[x] = failed[x], Converging(x)
          PROVE  Converging(x)'
      BY <1>1, <1>5, <2>1 DEF Converging
    <2> QED
      BY <1>4, <1>5, <2>1 DEF ButtonInv
  <1>7. CASE StatusRead(t)
    <2>1. PICK v \in {"error", "liked", "unliked"} :
            /\ fetch' = [fetch EXCEPT ![t].val = v]
            /\ Matters(t) => v \in {"error", Truth(t)}
      BY <1>7 DEF StatusRead, Matters, IsLiked, Truth
    <2>2. shown' = shown /\ failed' = failed /\ fetch[t].by # "none"
      BY <1>7 DEF StatusRead
    <2>3. [fetch[t] EXCEPT !.val = v] \in Fetches
      BY <1>3 DEF Fetches
    <2>4. fetch' = [fetch EXCEPT ![t] = [fetch[t] EXCEPT !.val = v]]
      BY <2>1
    <2>5. fetch'[t].by # "none" /\ fetch'[t].val = v
      BY <1>3, <2>2, <2>4 DEF Fetches
    <2>6. UITypeOK'
      BY <1>1, <1>2, <2>2, <2>3, <2>4 DEF UITypeOK
    <2>7. Matters(t) => Converging(t)'
      BY <1>5, <2>1, <2>5 DEF Converging
    <2> QED
      BY <1>3, <2>2, <2>4, <2>6, <2>7
  <1>8. CASE StatusArrives(t)
    <2>1. fetch[t].val # "none" /\ fetch' = [fetch EXCEPT ![t] = NoFetch]
      BY <1>8 DEF StatusArrives
    <2>2. shown' = IF fetch[t].val = "error" THEN shown ELSE [shown EXCEPT ![t] = fetch[t].val]
      BY <1>8 DEF StatusArrives
    <2>3. /\ NoFetch \in Fetches /\ NoFetch.val = "none"
          /\ failed' = [failed EXCEPT ![t] = fetch[t].val = "error"]
      BY <1>8 DEF StatusArrives, NoFetch, Fetches
    <2>4. fetch[t].val \in {"error", "liked", "unliked"}
      BY <1>3, <2>1 DEF Fetches
    <2>5. UITypeOK'
      BY <1>1, <1>2, <2>1, <2>2, <2>3, <2>4 DEF UITypeOK
    <2>6. Converging(t) => Converging(t)'
      <3>1. CASE \E q \in Slots : waiter[q] = t /\ req[q].at = "done" /\ req[q].code = 200
        BY <1>1, <3>1 DEF Converging
      <3>2. CASE fetch[t].val = Truth(t)
        <4>1. Truth(t) # "error"
          BY DEF Truth
        <4>2. fetch'[t] = NoFetch /\ shown'[t] = Truth(t)
          BY <1>3, <2>1, <2>2, <3>2, <4>1
        <4> QED
          BY <1>5, <4>2 DEF Converging
      <3>3. CASE fetch[t].val = "error"
        <4>1. fetch'[t] = NoFetch /\ failed'[t]
          BY <1>3, <2>1, <2>3, <3>3
        <4> QED
          BY <4>1 DEF Converging
      <3> QED
        BY <2>1, <2>3, <3>1, <3>2, <3>3 DEF Converging
    <2> QED
      BY <1>3, <2>1, <2>2, <2>3, <2>5, <2>6
  <1>9. CASE HandlerEnds(t)
    <2>1. UNCHANGED <<fetch, shown, failed>>
      BY <1>9 DEF HandlerEnds
    <2> QED
      BY <1>1, <1>2, <1>5, <2>1 DEF UITypeOK, Converging
  <1>10. CASE Open(t) \/ Revalidate(t)
    <2>1. PICK by \in {"mount", "again"} :
            fetch' = [fetch EXCEPT ![t] = Sent(by)] /\ UNCHANGED <<shown, failed>>
      BY <1>10 DEF Open, Revalidate
    <2>2. Sent(by) \in Fetches /\ Sent(by).by # "none" /\ Sent(by).val = "none"
      BY DEF Sent, Fetches
    <2>3. UITypeOK' /\ Converging(t)'
      BY <1>1, <1>2, <1>3, <2>1, <2>2 DEF UITypeOK, Converging
    <2> QED
      BY <1>3, <2>1, <2>3
  <1> QED
    BY <1>7, <1>8, <1>9, <1>10

LEMMA BeginConverges ==
  ASSUME IInv, ButtonInv, NEW s \in Slots, BeginElsewhere(s)
  PROVE  ButtonInv'
  <1>0. PICK op \in Operations, kind \in PostKinds, u \in Users :
          \E on \in Targets(op, kind) : Submit(s, op, kind, u, on)
    BY DEF BeginElsewhere, Begin
  <1>1. /\ UNCHANGED store /\ req[s].at = "idle" /\ \A q \in Slots \ {s} : req'[q] = req[q]
    BY <1>0, SubmitChanges
  <1>2. /\ UNCHANGED <<waiter, shown, failed, fetch>>
        /\ unsure' = [t \in Tabs |->
             \/ unsure[t]
             \/ req'[s].op = "like" /\ req'[s].user = TabUser[t] /\ req'[s].on = {TabPost[t]}]
    BY DEF BeginElsewhere
  <1>3. UITypeOK'
    BY <1>2 DEF ButtonInv, UITypeOK
  <1>4. /\ \A t \in Tabs : ~unsure'[t] => ~unsure[t]
        /\ \A t \in Tabs : ~unsure'[t] => ~Toggles(s, t)'
    BY <1>2 DEF Toggles
  <1>5. waiter[s] \notin Tabs
    BY <1>1 DEF ButtonInv, Awaited, Toggles
  <1>6. Awaited'
    BY <1>1, <1>2, <1>4, <1>5, SlotStepAwaits
  <1>7. \A t \in Tabs : Matters(t)' => Converging(t)'
    BY <1>1, <1>2, <1>4, <1>5, SlotStepConverges
  <1> QED
    BY <1>3, <1>6, <1>7 DEF ButtonInv

LEMMA UnawaitedFinishConverges ==
  ASSUME IInv, ButtonInv, NEW s \in Slots, Finish(s), waiter[s] = NoTab, ServerStep(s)
  PROVE  ButtonInv'
  <1>1. /\ UNCHANGED store /\ req'[s].at = "idle" /\ \A q \in Slots \ {s} : req'[q] = req[q]
    BY FinishChanges
  <1>2. /\ UNCHANGED <<waiter, shown, failed, fetch>> /\ waiter[s] \notin Tabs
        /\ unsure' \in [Tabs -> BOOLEAN] /\ \A t \in Tabs : ~unsure'[t] => ~unsure[t]
    BY TabsShowPosts DEF ServerStep, ButtonInv, UITypeOK
  <1>3. UITypeOK'
    BY <1>2 DEF ButtonInv, UITypeOK
  <1>4. Awaited'
    <2>1. \A x : ~Toggles(s, x)'
      BY <1>1 DEF Toggles
    <2> QED
      BY <1>1, <1>2, <2>1, SlotStepAwaits
  <1>5. \A t \in Tabs : Matters(t)' => Converging(t)'
    BY <1>1, <1>2, SlotStepConverges
  <1> QED
    BY <1>3, <1>4, <1>5 DEF ButtonInv

LEMMA ButtonContinues == IInv /\ ButtonInv /\ [UINext]_allVars => ButtonInv'
  <1> SUFFICES ASSUME IInv, ButtonInv, [UINext]_allVars PROVE ButtonInv'
    OBVIOUS
  <1>1. ASSUME NEW s \in Slots, BeginElsewhere(s) \/ ServerStep(s) PROVE ButtonInv'
    BY <1>1, BeginConverges, HandlerStepConverges, UnawaitedFinishConverges DEF ServerStep
  <1>2. ASSUME NEW t \in Tabs, NEW s \in Slots,
               Click(t, s) \/ Answered(t, s) \/ AnswerLost(t, s)
        PROVE  ButtonInv'
    BY <1>2, ClickConverges, AnswerConverges, LossConverges
  <1>3. CASE UNCHANGED allVars
    <2>1. UNCHANGED <<store, users, rows, req, waiter, shown, failed, fetch, unsure>>
      BY <1>3 DEF allVars, vars, store, uiVars
    <2>2. \A t : Truth(t)' = Truth(t) /\ (Has(TabPost[t])' <=> Has(TabPost[t]))
      BY <2>1, TruthStays
    <2>3. UITypeOK' /\ Awaited'
      BY <2>1 DEF ButtonInv, UITypeOK, Awaited, Toggles
    <2>4. \A t \in Tabs : Matters(t)' => Converging(t)'
      BY <2>1, <2>2 DEF ButtonInv, Matters, Converging
    <2> QED
      BY <2>3, <2>4 DEF ButtonInv
  <1> QED
    BY <1>1, <1>2, <1>3, FetchConverges DEF UINext

-----------------------------------------------------------------------------

(* Rows, requests and their ids are always what the routes expect: an id   *)
(* is the key of one row, whatever is deleted beside its request.          *)
THEOREM CommunityTypeCorrect == UISpec => []CommunityTypeOK
  BY Implied, UIInvariant, PTL

(* Cascades and RESTRICT keys leave no row, file or follow that refers to  *)
(* something gone, in any interleaving of the routes' statements.          *)
THEOREM NothingDangles == UISpec => []NoDangling
  BY Implied, UIInvariant, PTL

(* And so without the tabs, for the API alone. *)
THEOREM NothingDanglesInTheApi == CommunitySpec => []NoDangling
  BY Implied, CommunityInvariant, PTL

(* The owner that a request has checked is still the owner when a later    *)
(* statement of it changes the row, unless the row is a brewery that was   *)
(* edited, and nobody else's request changes it, unless it is the PUT of   *)
(* a brewery, which nothing validates, by that brewery's owner.            *)
THEOREM OwnersHold == UISpec => OnlyOwnersChange
  BY UIInvariant, UIStepExplained, PTL DEF UISpec, OnlyOwnersChange, Explained

(* However toggles overtake each other, they leave no more likes of a user *)
(* on a post than requests run at once, unless all come from the seeding.  *)
THEOREM LikesHold == UISpec => []LikesBounded
  <1>1. UIInit => LikesInv
    BY LikesBegin DEF UIInit
  <1> QED
    BY <1>1, UIInvariant, UIStepKeepsBound, LikesImplied, PTL DEF UISpec

(* Once nothing is under way a beer's or a brewery's button shows whether  *)
(* its user likes the post: the answer of every toggle begins a fetch that *)
(* reads the database after it, and if that fails, SWR keeps the error     *)
(* until a later one reads.                                                *)
THEOREM ButtonHolds == UISpec => []ButtonTellsTruth
  BY ButtonBegins, UIInvariant, ButtonContinues, ButtonImplied, PTL DEF UISpec
=============================================================================
