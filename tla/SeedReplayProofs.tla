--------------------------- MODULE SeedReplayProofs ---------------------------
(***************************************************************************)
(* Theorems about SeedReplay for any number of runs, any files and any     *)
(* number of strangers.                                                    *)
(***************************************************************************)
EXTENDS SeedReplay, TLAPS

RowOf(r, u) == [name |-> Users[u].name, by |-> r]
PosterOf(b) == ((b - 1) % Len(Users)) + 1
Posting(r, b) == [brewery |-> b, poster |-> RowOf(r, PosterOf(b)),
                  city |-> CityRow(CityOf(Breweries[b])), by |-> r]

(* The types of a row of UserAccount and of BreweryPost.                   *)
AnyRow == {[name |-> ReadUsers(f)[u].name, by |-> r] :
             f \in Files, u \in Nat, r \in Runs}
AnyPosting == [brewery : Nat, poster : AnyRow,
               city : {CityRow(f.cities[c]) : f \in Files, c \in Nat}, by : Runs]

UserSteps == {"register", "profile"}
AvatarSteps == {"bio", "photo", "avatar"}
CitySteps == {"country", "newCountry", "province", "newProvince", "city"}
BrewerySteps == {"find", "post"}
Places == UserSteps \cup AvatarSteps \cup CitySteps \cup BrewerySteps
            \cup {"idle", "ok", "failed"}

(* The first n entries of a loop are done, by run r or, for the cities, by *)
(* anybody.                                                                *)
Registered(r, n) ==
  /\ Len(userIds[r]) = n
  /\ \A u \in 1 .. n : userIds[r][u] = RowOf(r, u) /\ RowOf(r, u) \in account \cap profile
Portrayed(r, n) == \A u \in DOMAIN Users : u <= n => RowOf(r, u) \in bio \cap avatar
Located(n) == \A c \in DOMAIN Cities : c <= n => CityRow(Cities[c]) \in city
Posted(r, n) == \A b \in DOMAIN Breweries : b <= n =>
                  \E i \in DOMAIN post : post[i] = Posting(r, b)

AllUsers(r) == Registered(r, Len(Users)) /\ Portrayed(r, Len(Users))
AllCities(r) == AllUsers(r) /\ Located(Len(Cities)) /\ Len(Users) > 0

(* What run r has made, wherever it is.                                    *)
RunInv(r) ==
  /\ at[r] \in Places \X Nat
  /\ userIds[r] \in Seq(AnyRow)
  /\ at[r][1] = "idle" => Registered(r, 0)
  /\ at[r][1] \in UserSteps =>
       /\ at[r][2] \in DOMAIN Users
       /\ Registered(r, at[r][2] - 1)
       /\ at[r][1] = "profile" => RowOf(r, at[r][2]) \in account
  /\ at[r][1] \in AvatarSteps =>
       /\ at[r][2] \in DOMAIN Users
       /\ Registered(r, Len(Users))
       /\ Portrayed(r, at[r][2] - 1)
       /\ at[r][1] # "bio" => RowOf(r, at[r][2]) \in bio
  /\ at[r][1] \in CitySteps =>
       /\ at[r][2] \in DOMAIN Cities
       /\ AllUsers(r)
       /\ Located(at[r][2] - 1)
  /\ at[r][1] \in BrewerySteps =>
       /\ at[r][2] \in DOMAIN Breweries
       /\ AllCities(r)
       /\ Posted(r, at[r][2] - 1)
  /\ at[r][1] = "ok" => AllCities(r) /\ Posted(r, Len(Breweries))

(* The keys of the tables, and who stands behind their rows.               *)
NamesUnique == \A a, b \in account : a.name = b.name => a = b

FirstIsThere == \A a \in account :
  a.by \in Runs => Len(Users) > 0 /\ RowOf(a.by, 1) \in account

(* The run behind a brewery has passed it, and has the first user's name.  *)
Behind(r, b) == /\ r \in Runs
                /\ Len(Users) > 0 /\ RowOf(r, 1) \in account
                /\ \/ at[r][1] \in {"ok", "failed"}
                   \/ at[r][1] \in BrewerySteps /\ b < at[r][2]

PostsRight ==
  /\ post \in Seq(AnyPosting)
  /\ \A i \in DOMAIN post : Behind(post[i].by, post[i].brewery)
  /\ \A i, j \in DOMAIN post : post[i].brewery = post[j].brewery => i = j

Typed == /\ file \in Files
         /\ at = [r \in Runs |-> at[r]]
         /\ userIds = [r \in Runs |-> userIds[r]]

IInv == /\ Typed
        /\ \A r \in Runs : RunInv(r)
        /\ NamesUnique /\ FirstIsThere /\ PostsRight

-----------------------------------------------------------------------------
(* The file, and where a loop goes on.                                     *)

LEMMA FileFacts ==
    ASSUME file \in Files
    PROVE  /\ Len(Users) \in Nat /\ DOMAIN Users = 1 .. Len(Users)
           /\ Len(Breweries) \in Nat /\ DOMAIN Breweries = 1 .. Len(Breweries)
           /\ Len(Cities) \in Nat /\ DOMAIN Cities = 1 .. Len(Cities)
           /\ \A b \in DOMAIN Breweries : Breweries[b].city \in DOMAIN Cities
           /\ Stranger \notin Runs
  BY FilesAssumption DEF Users, Breweries, Cities

LEMMA FileStays ==
    ASSUME file' = file
    PROVE  Users' = Users /\ Breweries' = Breweries /\ Cities' = Cities
  BY DEF Users, Breweries, Cities, ReadUsers, ReadBreweries

LEMMA RowsTyped ==
    ASSUME file \in Files, NEW r \in Runs, NEW u \in DOMAIN Users
    PROVE  RowOf(r, u) \in AnyRow
  BY FileFacts DEF RowOf, AnyRow, Users

(* The user who posts brewery b, for any number of users.                  *)
LEMMA PosterInRange ==
    ASSUME NEW n \in Nat, n > 0, NEW b \in Nat, b > 0
    PROVE  ((b - 1) % n) + 1 \in 1 .. n
  OBVIOUS

LEMMA InitHolds == Init => IInv
  <1> SUFFICES ASSUME Init
               PROVE  IInv
    OBVIOUS
  <1>1. file \in Files /\ at = [r \in Runs |-> <<"idle", 0>>]
        /\ userIds = [r \in Runs |-> <<>>] /\ post = <<>> /\ account = {}
    BY DEF Init
  <1>2. \A r \in Runs : RunInv(r)
    <2> SUFFICES ASSUME NEW r \in Runs
                 PROVE  RunInv(r)
      OBVIOUS
    <2>1. at[r] = <<"idle", 0>> /\ userIds[r] = <<>>
      BY <1>1
    <2> QED
      BY <2>1 DEF RunInv, Registered, Places, UserSteps, AvatarSteps, CitySteps, BrewerySteps
  <1>3. NamesUnique /\ FirstIsThere /\ PostsRight
    BY <1>1 DEF NamesUnique, FirstIsThere, PostsRight
  <1> QED
    BY <1>1, <1>2, <1>3 DEF IInv, Typed

(* Each hypothesis says what is done when the loop gets to entry i.        *)
LEMMA ToBreweries ==
    ASSUME file \in Files, file' = file, NEW r \in Runs, NEW i \in Nat, i > 0,
           at'[r] = AtBreweries(i), userIds'[r] \in Seq(AnyRow),
           AllUsers(r)', Located(Len(Cities))', Posted(r, i - 1)'
    PROVE  RunInv(r)'
  <1> USE FileFacts, FileStays
      DEF Places, UserSteps, AvatarSteps, CitySteps, BrewerySteps
  <1>1. CASE Len(Users) = 0
    BY <1>1 DEF AtBreweries, RunInv
  <1>2. CASE Len(Users) # 0 /\ i \in DOMAIN Breweries
    <2>1. at'[r] = <<"find", i>> /\ AllCities(r)'
      BY <1>2 DEF AtBreweries, AllCities
    <2> QED
      BY <2>1, <1>2 DEF RunInv, Posted
  <1>3. CASE Len(Users) # 0 /\ i \notin DOMAIN Breweries
    <2>1. at'[r] = <<"ok", 0>> /\ AllCities(r)'
      BY <1>3 DEF AtBreweries, AllCities
    <2>2. Posted(r, Len(Breweries))'
      BY <1>3 DEF Posted
    <2> QED
      BY <2>1, <2>2 DEF RunInv
  <1> QED
    BY <1>1, <1>2, <1>3

LEMMA ToCities ==
    ASSUME file \in Files, file' = file, NEW r \in Runs, NEW i \in Nat, i > 0,
           at'[r] = AtCities(i), userIds'[r] \in Seq(AnyRow),
           AllUsers(r)', Located(i - 1)'
    PROVE  RunInv(r)'
  <1> USE FileFacts, FileStays
  <1>1. CASE i \in DOMAIN Cities
    <2>1. at'[r] = <<"country", i>>
      BY <1>1 DEF AtCities
    <2> QED
      BY <2>1, <1>1 DEF RunInv, Located, Places, UserSteps, AvatarSteps, CitySteps, BrewerySteps
  <1>2. CASE i \notin DOMAIN Cities
    <2>1. at'[r] = AtBreweries(1)
      BY <1>2 DEF AtCities
    <2>2. Located(Len(Cities))' /\ Posted(r, 1 - 1)'
      BY <1>2 DEF Located, Posted
    <2> QED
      BY <2>1, <2>2, ToBreweries
  <1> QED
    BY <1>1, <1>2

LEMMA ToAvatars ==
    ASSUME file \in Files, file' = file, NEW r \in Runs, NEW i \in Nat, i > 0,
           at'[r] = AtAvatars(i), userIds'[r] \in Seq(AnyRow),
           Registered(r, Len(Users))', Portrayed(r, i - 1)'
    PROVE  RunInv(r)'
  <1> USE FileFacts, FileStays
  <1>1. CASE i \in DOMAIN Users
    <2>1. at'[r] = <<"bio", i>>
      BY <1>1 DEF AtAvatars
    <2> QED
      BY <2>1, <1>1 DEF RunInv, Portrayed, Places, UserSteps, AvatarSteps, CitySteps, BrewerySteps
  <1>2. CASE i \notin DOMAIN Users
    <2>1. at'[r] = AtCities(1)
      BY <1>2 DEF AtAvatars
    <2>2. AllUsers(r)' /\ Located(1 - 1)'
      BY <1>2 DEF AllUsers, Located, Portrayed
    <2> QED
      BY <2>1, <2>2, ToCities
  <1> QED
    BY <1>1, <1>2

LEMMA ToUsers ==
    ASSUME file \in Files, file' = file, NEW r \in Runs, NEW i \in Nat, i > 0,
           i <= Len(Users) + 1,
           at'[r] = AtUsers(i), userIds'[r] \in Seq(AnyRow),
           Registered(r, i - 1)'
    PROVE  RunInv(r)'
  <1> USE FileFacts, FileStays
  <1>1. CASE i \in DOMAIN Users
    <2>1. at'[r] = <<"register", i>>
      BY <1>1 DEF AtUsers
    <2> QED
      BY <2>1, <1>1 DEF RunInv, Registered, Places, UserSteps, AvatarSteps, CitySteps, BrewerySteps
  <1>2. CASE i \notin DOMAIN Users
    <2>1. at'[r] = AtAvatars(1)
      BY <1>2 DEF AtUsers
    <2>2. Registered(r, Len(Users))' /\ Portrayed(r, 1 - 1)'
      BY <1>2 DEF Registered, Portrayed
    <2> QED
      BY <2>1, <2>2, ToAvatars
  <1> QED
    BY <1>1, <1>2

-----------------------------------------------------------------------------
(* Only strangers leave; everything else stays, whoever made it.           *)
Grows ==
  /\ file' = file
  /\ \A row \in account : row.by # Stranger => row \in account'
  /\ \A row \in profile : row.by # Stranger => row \in profile'
  /\ bio \subseteq bio' /\ avatar \subseteq avatar' /\ city \subseteq city'
  /\ \A i \in DOMAIN post : i \in DOMAIN post' /\ post'[i] = post[i]

LEMMA StepsGrow ==
    ASSUME IInv, SeedNext
    PROVE  Grows
  <1> USE DEF people, places, Throw
  <1>1. post \in Seq(AnyPosting)
    BY DEF IInv, PostsRight
  <1>2. ASSUME NEW r \in Runs, Run(r)
        PROVE  Grows
    <2>1. CASE Begin(r)
      BY <1>2, <2>1 DEF Run, Begin, Grows
    <2>2. CASE Registers(r)
      BY <1>2, <2>2 DEF Run, Registers, Grows
    <2>3. CASE CreatesProfile(r)
      BY <1>2, <2>3 DEF Run, CreatesProfile, Grows
    <2>4. CASE UpdatesBiography(r)
      BY <1>2, <2>4 DEF Run, UpdatesBiography, Grows
    <2>5. CASE UploadsPhoto(r)
      BY <1>2, <2>5 DEF Run, UploadsPhoto, Grows
    <2>6. CASE SavesAvatar(r)
      BY <1>2, <2>6 DEF Run, SavesAvatar, Grows
    <2>7. CASE FindsCountry(r)
      BY <1>2, <2>7 DEF Run, FindsCountry, Grows
    <2>8. CASE CreatesCountry(r)
      BY <1>2, <2>8 DEF Run, CreatesCountry, Grows
    <2>9. CASE FindsProvince(r)
      BY <1>2, <2>9 DEF Run, FindsProvince, Grows
    <2>10. CASE CreatesProvince(r)
      BY <1>2, <2>10 DEF Run, CreatesProvince, Grows
    <2>11. CASE CreatesCity(r)
      BY <1>2, <2>11 DEF Run, CreatesCity, Grows
    <2>12. CASE FindsCity(r)
      BY <1>2, <2>12 DEF Run, FindsCity, Grows
    <2>13. CASE PostsBrewery(r)
      <3>1. PICK x : post' = post \/ post' = Append(post, x)
        BY <2>13 DEF PostsBrewery
      <3>2. \A i \in DOMAIN post : i \in DOMAIN post' /\ post'[i] = post[i]
        BY <1>1, <3>1
      <3> QED
        BY <1>2, <2>13, <3>2 DEF Run, PostsBrewery, Grows
    <2> QED
      BY <1>2, <2>1, <2>2, <2>3, <2>4, <2>5, <2>6, <2>7, <2>8, <2>9, <2>10, <2>11, <2>12,
         <2>13 DEF Run
  <1>3. ASSUME NEW r \in Runs, Dies(r)
        PROVE  Grows
    BY <1>3 DEF Dies, Grows
  <1>4. CASE StrangerRegisters
    BY <1>4 DEF StrangerRegisters, Grows
  <1>5. CASE StrangerLeaves
    BY <1>5 DEF StrangerLeaves, Grows
  <1> QED
    BY <1>2, <1>3, <1>4, <1>5 DEF SeedNext

LEMMA PartsStay ==
    ASSUME file \in Files, Grows, NEW r \in Runs, userIds'[r] = userIds[r]
    PROVE  /\ \A n \in Nat : Registered(r, n) => Registered(r, n)'
           /\ \A n \in Nat : Portrayed(r, n) => Portrayed(r, n)'
           /\ \A n \in Nat : Located(n) => Located(n)'
           /\ \A n \in Nat : Posted(r, n) => Posted(r, n)'
           /\ AllUsers(r) => AllUsers(r)'
           /\ AllCities(r) => AllCities(r)'
           /\ \A u \in DOMAIN Users : RowOf(r, u) \in account => RowOf(r, u)' \in account'
           /\ \A u \in DOMAIN Users : RowOf(r, u) \in bio => RowOf(r, u)' \in bio'
  <1> USE FileFacts, FileStays DEF Grows
  <1>1. \A n \in Nat : Registered(r, n) => Registered(r, n)'
    BY DEF Registered, RowOf
  <1>2. \A n \in Nat : Portrayed(r, n) => Portrayed(r, n)'
    BY DEF Portrayed, RowOf
  <1>3. \A n \in Nat : Located(n) => Located(n)'
    BY DEF Located
  <1>4. \A n \in Nat : Posted(r, n) => Posted(r, n)'
    BY DEF Posted, Posting, PosterOf, RowOf, CityOf
  <1>5. \A u \in DOMAIN Users : /\ RowOf(r, u) \in account => RowOf(r, u)' \in account'
                                /\ RowOf(r, u) \in bio => RowOf(r, u)' \in bio'
    BY DEF RowOf
  <1>6. AllUsers(r) => AllUsers(r)'
    BY DEF AllUsers, Registered, Portrayed, RowOf
  <1>7. AllCities(r) => AllCities(r)'
    BY <1>6 DEF AllCities, Located
  <1> QED
    BY <1>1, <1>2, <1>3, <1>4, <1>5, <1>6, <1>7

LEMMA PostingStays ==
    ASSUME file' = file, NEW r, NEW b
    PROVE  Posting(r, b)' = Posting(r, b)
  BY FileStays DEF Posting, PosterOf, RowOf, CityOf

LEMMA OthersStay ==
    ASSUME file \in Files, Grows, NEW r \in Runs, RunInv(r),
           userIds'[r] = userIds[r], at'[r] = at[r]
    PROVE  RunInv(r)'
  <1>1. at'[r] \in Places \X Nat /\ userIds'[r] \in Seq(AnyRow)
    BY DEF RunInv
  <1>2. ASSUME at'[r][1] = "idle" PROVE Registered(r, 0)'
    BY <1>2, PartsStay DEF RunInv
  <1>3. ASSUME at'[r][1] \in UserSteps
        PROVE  /\ (at[r][2] \in DOMAIN Users)'
               /\ Registered(r, at[r][2] - 1)'
               /\ (at[r][1] = "profile" => RowOf(r, at[r][2]) \in account)'
    <2>1. at[r][2] \in DOMAIN Users /\ Registered(r, at[r][2] - 1)
          /\ (at[r][1] = "profile" => RowOf(r, at[r][2]) \in account)
      BY <1>3 DEF RunInv
    <2>2. (at[r][2] \in DOMAIN Users)'
      BY <2>1, FileStays DEF Grows
    <2>3. Registered(r, at[r][2] - 1)'
      BY <2>1, FileFacts, FileStays DEF Registered, RowOf, Grows
    <2>4. (at[r][1] = "profile" => RowOf(r, at[r][2]) \in account)'
      BY <2>1, FileFacts, FileStays DEF RowOf, Grows
    <2> QED
      BY <2>2, <2>3, <2>4
  <1>4. ASSUME at'[r][1] \in AvatarSteps
        PROVE  /\ (at[r][2] \in DOMAIN Users)'
               /\ Registered(r, Len(Users))'
               /\ Portrayed(r, at[r][2] - 1)'
               /\ (at[r][1] # "bio" => RowOf(r, at[r][2]) \in bio)'
    <2>1. /\ at[r][2] \in DOMAIN Users /\ Registered(r, Len(Users))
          /\ Portrayed(r, at[r][2] - 1)
          /\ (at[r][1] # "bio" => RowOf(r, at[r][2]) \in bio)
      BY <1>4 DEF RunInv
    <2>2. Registered(r, Len(Users))'
      BY <2>1, FileFacts, FileStays DEF Registered, RowOf, Grows
    <2>3. Portrayed(r, at[r][2] - 1)'
      BY <2>1, FileFacts, FileStays DEF Portrayed, RowOf, Grows
    <2>4. (at[r][2] \in DOMAIN Users)' /\ (at[r][1] # "bio" => RowOf(r, at[r][2]) \in bio)'
      BY <2>1, FileFacts, FileStays DEF RowOf, Grows
    <2> QED
      BY <2>2, <2>3, <2>4
  <1>5. ASSUME at'[r][1] \in CitySteps
        PROVE  (at[r][2] \in DOMAIN Cities)' /\ AllUsers(r)' /\ Located(at[r][2] - 1)'
    <2>1. at[r][2] \in DOMAIN Cities /\ AllUsers(r) /\ Located(at[r][2] - 1)
      BY <1>5 DEF RunInv
    <2>2. Located(at[r][2] - 1)'
      BY <2>1, FileFacts, FileStays DEF Located, Grows
    <2> QED
      BY <2>1, <2>2, PartsStay, FileStays DEF Grows
  <1>6. ASSUME at'[r][1] \in BrewerySteps
        PROVE  (at[r][2] \in DOMAIN Breweries)' /\ AllCities(r)' /\ Posted(r, at[r][2] - 1)'
    <2>1. at[r][2] \in DOMAIN Breweries /\ AllCities(r) /\ Posted(r, at[r][2] - 1)
      BY <1>6 DEF RunInv
    <2>2. Posted(r, at[r][2] - 1)'
      BY <2>1, FileFacts, FileStays, PostingStays DEF Posted, Grows
    <2> QED
      BY <2>1, <2>2, PartsStay, FileStays DEF Grows
  <1>7. ASSUME at'[r][1] = "ok" PROVE AllCities(r)' /\ Posted(r, Len(Breweries))'
    <2>1. AllCities(r) /\ Posted(r, Len(Breweries))
      BY <1>7 DEF RunInv
    <2>2. Posted(r, Len(Breweries))'
      BY <2>1, FileFacts, FileStays, PostingStays DEF Posted, Grows
    <2> QED
      BY <2>1, <2>2, PartsStay
  <1> QED
    BY <1>1, <1>2, <1>3, <1>4, <1>5, <1>6, <1>7 DEF RunInv

LEMMA AccountStays ==
    ASSUME file' = file, account' = account, NamesUnique, FirstIsThere
    PROVE  NamesUnique' /\ FirstIsThere'
  BY FileStays DEF NamesUnique, FirstIsThere, RowOf

(* A step of run r that posts nothing.                                     *)
LEMMA PostsStay ==
    ASSUME IInv, Grows, NEW r \in Runs, NEW p, at' = [at EXCEPT ![r] = p], post' = post,
           \/ at[r][1] \notin BrewerySteps \cup {"ok", "failed"}
           \/ p[1] = "failed"
           \/ p[1] \in BrewerySteps /\ at[r][1] \in BrewerySteps /\ p[2] = at[r][2]
    PROVE  PostsRight'
  <1>1. PostsRight /\ file \in Files /\ at = [s \in Runs |-> at[s]]
    BY DEF IInv, Typed
  <1>2. \A i \in DOMAIN post : post[i] \in AnyPosting
    BY <1>1 DEF PostsRight
  <1>3. ASSUME NEW i \in DOMAIN post
        PROVE  Behind(post[i].by, post[i].brewery)'
    <2> DEFINE s == post[i].by
               b == post[i].brewery
    <2>1. Behind(s, b) /\ b \in Nat
      BY <1>1, <1>2, <1>3 DEF PostsRight, AnyPosting
    <2>2. s \in Runs /\ Len(Users') > 0 /\ RowOf(s, 1)' \in account'
      BY <1>1, <2>1, FileFacts, FileStays DEF Behind, RowOf, Grows
    <2>3. CASE s # r
      BY <1>1, <2>1, <2>2, <2>3 DEF Behind
    <2>4. CASE s = r
      <3>1. at'[r] = p
        BY <1>1
      <3> QED
        BY <2>1, <2>2, <2>4, <3>1 DEF Behind, BrewerySteps
    <2> QED
      BY <2>3, <2>4
  <1> QED
    BY <1>1, <1>3 DEF PostsRight

-----------------------------------------------------------------------------
(* One step of a run, for the run itself and the tables.                   *)

Acted(r) == RunInv(r)' /\ NamesUnique' /\ FirstIsThere' /\ PostsRight'

LEMMA FailedHolds ==
    ASSUME IInv, Grows, NEW r \in Runs, at' = [at EXCEPT ![r] = <<"failed", 0>>],
           userIds' = userIds, account' = account, post' = post
    PROVE  Acted(r)
  <1>1. Typed /\ RunInv(r) /\ NamesUnique /\ FirstIsThere /\ file' = file
    BY DEF IInv, Grows
  <1>2. at'[r] = <<"failed", 0>> /\ userIds'[r] \in Seq(AnyRow)
    BY <1>1 DEF Typed, RunInv
  <1>3. RunInv(r)'
    BY <1>2 DEF RunInv, Places, UserSteps, AvatarSteps, CitySteps, BrewerySteps
  <1>4. PostsRight'
    BY PostsStay
  <1> QED
    BY <1>1, <1>3, <1>4, AccountStays DEF Acted

LEMMA BeginsHolds ==
    ASSUME IInv, Grows, NEW r \in Runs, Begin(r)
    PROVE  Acted(r)
  <1>1. Typed /\ RunInv(r) /\ NamesUnique /\ FirstIsThere /\ file' = file
    BY DEF IInv, Grows
  <1>2. at[r][1] = "idle" /\ at' = [at EXCEPT ![r] = AtUsers(1)] /\ userIds' = userIds
        /\ account' = account /\ post' = post
    BY DEF Begin, GoTo, people
  <1>3. at'[r] = AtUsers(1) /\ userIds'[r] \in Seq(AnyRow) /\ file \in Files
    BY <1>1, <1>2 DEF Typed, RunInv
  <1>4. Registered(r, 1 - 1)'
    <2>1. Registered(r, 0)
      BY <1>1, <1>2 DEF RunInv
    <2> QED
      BY <1>2, <2>1 DEF Registered
  <1>5. RunInv(r)'
    BY <1>1, <1>3, <1>4, FileFacts, ToUsers
  <1>6. PostsRight'
    BY <1>2, PostsStay DEF BrewerySteps
  <1> QED
    BY <1>1, <1>2, <1>5, <1>6, AccountStays DEF Acted

LEMMA RegistersHolds ==
    ASSUME IInv, Grows, NEW r \in Runs, Registers(r)
    PROVE  Acted(r)
  <1>1. Typed /\ RunInv(r) /\ NamesUnique /\ FirstIsThere /\ file' = file /\ file \in Files
    BY DEF IInv, Typed, Grows
  <1>2. at[r][1] = "register" /\ userIds' = userIds /\ post' = post
    BY DEF Registers, Throw, places, people
  <1>3. CASE Taken(UserName(r)) /\ Throw(r)
    BY <1>3, FailedHolds DEF Throw, Fail, GoTo, people
  <1>4. CASE /\ ~Taken(UserName(r))
             /\ account' = account \cup {Row(r)}
             /\ Step(r, "profile")
    <2>0. PICK u : u = at[r][2]
      OBVIOUS
    <2>1. u \in DOMAIN Users /\ Registered(r, u - 1) /\ at[r] \in Places \X Nat
          /\ userIds[r] \in Seq(AnyRow)
      BY <1>1, <1>2, <2>0 DEF RunInv, UserSteps
    <2>2. at'[r] = <<"profile", u>> /\ Row(r) = RowOf(r, u)
      BY <1>1, <1>4, <2>0 DEF Typed, Step, GoTo, Index, Row, UserName, RowOf
    <2>3. Registered(r, u - 1)' /\ userIds'[r] = userIds[r]
      BY <1>1, <1>2, <2>1, FileFacts, PartsStay
    <2>4. RunInv(r)'
      <3>1. Registered(r, at[r][2] - 1)'
        BY <2>2, <2>3, FileFacts, <1>1, <2>1 DEF Registered
      <3>2. (RowOf(r, at[r][2]) \in account)'
        BY <1>1, <1>4, <2>2, FileStays DEF RowOf
      <3> QED
        BY <1>1, <2>1, <2>2, <2>3, <3>1, <3>2, FileFacts, FileStays
        DEF RunInv, Places, UserSteps, AvatarSteps, CitySteps, BrewerySteps
    <2>5. NamesUnique'
      BY <1>1, <1>4 DEF NamesUnique, Taken, Row
    <2>6. FirstIsThere'
      <3>1. RowOf(r, 1) \in account' /\ Len(Users) > 0
        <4>1. CASE u = 1
          BY <1>1, <1>4, <2>1, <2>2, <4>1, FileFacts
        <4>2. CASE u # 1
          BY <1>1, <1>4, <2>1, <4>2, FileFacts DEF Registered
        <4> QED
          BY <4>1, <4>2
      <3>2. Row(r).by = r
        BY DEF Row
      <3> QED
        BY <1>1, <1>4, <3>1, <3>2, FileStays DEF FirstIsThere, RowOf
    <2>7. PostsRight'
      BY <1>2, <1>4, PostsStay DEF Step, GoTo, BrewerySteps
    <2> QED
      BY <2>4, <2>5, <2>6, <2>7 DEF Acted
  <1> QED
    BY <1>3, <1>4 DEF Registers

LEMMA CreatesProfileHolds ==
    ASSUME IInv, Grows, NEW r \in Runs, CreatesProfile(r)
    PROVE  Acted(r)
  <1>1. Typed /\ RunInv(r) /\ NamesUnique /\ FirstIsThere /\ file' = file /\ file \in Files
    BY DEF IInv, Typed, Grows
  <1>2. at[r][1] = "profile" /\ post' = post /\ account' = account
    BY DEF CreatesProfile
  <1>0. PICK u : u = at[r][2]
    OBVIOUS
  <1>3. u \in DOMAIN Users /\ Registered(r, u - 1) /\ RowOf(r, u) \in account
        /\ userIds[r] \in Seq(AnyRow)
    BY <1>0, <1>1, <1>2 DEF RunInv, UserSteps
  <1>4. Row(r) = RowOf(r, u) /\ RowOf(r, u) \in AnyRow
    BY <1>0, <1>1, <1>3, RowsTyped DEF Row, UserName, RowOf, Index
  <1>5. at'[r] = AtUsers(u + 1) /\ userIds'[r] = Append(userIds[r], RowOf(r, u))
    BY <1>0, <1>1, <1>4 DEF CreatesProfile, Typed, GoTo, Index
  <1>6. userIds'[r] \in Seq(AnyRow)
    BY <1>3, <1>4, <1>5
  <1>7. Registered(r, u)'
    <2>1. Len(userIds'[r]) = u /\ userIds'[r][u] = RowOf(r, u)
          /\ \A k \in 1 .. u - 1 : userIds'[r][k] = userIds[r][k]
      BY <1>1, <1>3, <1>5, FileFacts DEF Registered
    <2>2. RowOf(r, u) \in account' \cap profile'
      BY <1>2, <1>3, <1>4 DEF CreatesProfile
    <2>3. \A k \in 1 .. u - 1 : userIds'[r][k] = RowOf(r, k)
                                /\ RowOf(r, k) \in account' \cap profile'
      BY <1>2, <1>3, <2>1 DEF Registered, CreatesProfile
    <2>4. u \in Nat
      BY <1>1, <1>3, FileFacts
    <2>5. ASSUME NEW k \in 1 .. u
          PROVE  userIds'[r][k] = RowOf(r, k) /\ RowOf(r, k) \in account' \cap profile'
      <3>1. k = u \/ k \in 1 .. u - 1
        BY <2>4, <2>5
      <3> QED
        BY <2>1, <2>2, <2>3, <3>1
    <2>6. ASSUME NEW k \in 1 .. u
          PROVE  userIds'[r][k] = RowOf(r, k)' /\ RowOf(r, k)' \in account' \cap profile'
      BY <1>1, <2>5, FileStays DEF RowOf
    <2> QED
      BY <2>1, <2>6 DEF Registered
  <1>8. RunInv(r)'
    <2>1. u + 1 \in Nat /\ u + 1 > 0 /\ u + 1 <= Len(Users) + 1 /\ (u + 1) - 1 = u
      BY <1>1, <1>3, FileFacts
    <2>2. Registered(r, (u + 1) - 1)'
      BY <1>7, <2>1 DEF Registered
    <2> QED
      BY <1>1, <1>5, <1>6, <2>1, <2>2, ToUsers
  <1>9. PostsRight'
    BY <1>2, PostsStay DEF CreatesProfile, GoTo, BrewerySteps
  <1> QED
    BY <1>1, <1>2, <1>8, <1>9, AccountStays DEF Acted

LEMMA UpdatesBiographyHolds ==
    ASSUME IInv, Grows, NEW r \in Runs, UpdatesBiography(r)
    PROVE  Acted(r)
  <1>1. Typed /\ RunInv(r) /\ NamesUnique /\ FirstIsThere /\ file' = file /\ file \in Files
    BY DEF IInv, Typed, Grows
  <1>2. at[r][1] = "bio" /\ post' = post /\ account' = account /\ userIds' = userIds
    BY DEF UpdatesBiography
  <1>0. PICK u : u = at[r][2]
    OBVIOUS
  <1>3. u \in DOMAIN Users /\ Registered(r, Len(Users)) /\ Portrayed(r, u - 1)
        /\ userIds[r] \in Seq(AnyRow)
    BY <1>0, <1>1, <1>2 DEF RunInv, AvatarSteps
  <1>4. UserId(r) = RowOf(r, u) /\ RowOf(r, u) \in profile
    BY <1>0, <1>1, <1>3, FileFacts DEF Registered, UserId, Index
  <1>5. at' = [at EXCEPT ![r] = <<"photo", u>>] /\ RowOf(r, u) \in bio'
    BY <1>0, <1>4 DEF UpdatesBiography, Step, GoTo, Index
  <1>6. RunInv(r)'
    <2>1. at'[r] = <<"photo", u>> /\ userIds'[r] = userIds[r]
      BY <1>1, <1>2, <1>5 DEF Typed
    <2>2. Registered(r, Len(Users))'
      BY <1>1, <1>3, <2>1, FileFacts, FileStays DEF Registered, RowOf, Grows
    <2>3. Portrayed(r, at[r][2] - 1)'
      BY <1>1, <1>3, <2>1, FileStays DEF Portrayed, RowOf, Grows
    <2>4. (RowOf(r, at[r][2]) \in bio)'
      BY <1>1, <1>5, <2>1, FileStays DEF RowOf
    <2> QED
      BY <1>1, <1>3, <2>1, <2>2, <2>3, <2>4, FileFacts, FileStays
      DEF RunInv, Places, UserSteps, AvatarSteps, CitySteps, BrewerySteps
  <1>7. PostsRight'
    BY <1>2, <1>5, PostsStay DEF BrewerySteps
  <1> QED
    BY <1>1, <1>2, <1>6, <1>7, AccountStays DEF Acted

LEMMA UploadsPhotoHolds ==
    ASSUME IInv, Grows, NEW r \in Runs, UploadsPhoto(r)
    PROVE  Acted(r)
  <1>1. Typed /\ RunInv(r) /\ NamesUnique /\ FirstIsThere /\ file' = file /\ file \in Files
    BY DEF IInv, Typed, Grows
  <1>2. at[r][1] = "photo" /\ post' = post /\ account' = account /\ userIds' = userIds
    BY DEF UploadsPhoto
  <1>0. PICK u : u = at[r][2]
    OBVIOUS
  <1>3. u \in DOMAIN Users /\ Registered(r, Len(Users)) /\ Portrayed(r, u - 1)
        /\ userIds[r] \in Seq(AnyRow) /\ RowOf(r, u) \in bio
    BY <1>0, <1>1, <1>2 DEF RunInv, AvatarSteps
  <1>5. at' = [at EXCEPT ![r] = <<"avatar", u>>]
    BY <1>0 DEF UploadsPhoto, Step, GoTo, Index
  <1>6. RunInv(r)'
    <2>1. at'[r] = <<"avatar", u>> /\ userIds'[r] = userIds[r]
      BY <1>1, <1>2, <1>5 DEF Typed
    <2>2. Registered(r, Len(Users))'
      BY <1>1, <1>3, <2>1, FileFacts, FileStays DEF Registered, RowOf, Grows
    <2>3. Portrayed(r, at[r][2] - 1)'
      BY <1>1, <1>3, <2>1, FileStays DEF Portrayed, RowOf, Grows
    <2>4. (RowOf(r, at[r][2]) \in bio)'
      BY <1>1, <1>3, <2>1, FileStays DEF RowOf, Grows
    <2> QED
      BY <1>1, <1>3, <2>1, <2>2, <2>3, <2>4, FileFacts, FileStays
      DEF RunInv, Places, UserSteps, AvatarSteps, CitySteps, BrewerySteps
  <1>7. PostsRight'
    BY <1>2, <1>5, PostsStay DEF BrewerySteps
  <1> QED
    BY <1>1, <1>2, <1>6, <1>7, AccountStays DEF Acted

LEMMA SavesAvatarHolds ==
    ASSUME IInv, Grows, NEW r \in Runs, SavesAvatar(r)
    PROVE  Acted(r)
  <1>1. Typed /\ RunInv(r) /\ NamesUnique /\ FirstIsThere /\ file' = file /\ file \in Files
    BY DEF IInv, Typed, Grows
  <1>2. at[r][1] = "avatar" /\ post' = post /\ account' = account /\ userIds' = userIds
        /\ bio' = bio
    BY DEF SavesAvatar
  <1>0. PICK u : u = at[r][2]
    OBVIOUS
  <1>3. u \in DOMAIN Users /\ Registered(r, Len(Users)) /\ Portrayed(r, u - 1)
        /\ userIds[r] \in Seq(AnyRow) /\ RowOf(r, u) \in bio
    BY <1>0, <1>1, <1>2 DEF RunInv, AvatarSteps
  <1>4. UserId(r) = RowOf(r, u) /\ RowOf(r, u) \in profile
    BY <1>0, <1>1, <1>3, FileFacts DEF Registered, UserId, Index
  <1>5. at' = [at EXCEPT ![r] = AtAvatars(u + 1)] /\ RowOf(r, u) \in avatar'
    BY <1>0, <1>4 DEF SavesAvatar, GoTo, Index
  <1>6. RunInv(r)'
    <2>1. at'[r] = AtAvatars(u + 1) /\ userIds'[r] = userIds[r]
      BY <1>1, <1>2, <1>5 DEF Typed
    <2>2. Registered(r, Len(Users))'
      BY <1>1, <1>3, <2>1, FileFacts, FileStays DEF Registered, RowOf, Grows
    <2>3. Portrayed(r, (u + 1) - 1)'
      <3>1. ASSUME NEW k \in DOMAIN Users, k <= (u + 1) - 1
            PROVE  RowOf(r, k) \in bio' \cap avatar'
        <4>1. k = u \/ k <= u - 1
          BY <1>1, <1>3, <3>1, FileFacts
        <4> QED
          BY <1>2, <1>3, <1>5, <4>1 DEF Portrayed, Grows
      <3> QED
        BY <1>1, <3>1, FileStays DEF Portrayed, RowOf
    <2>4. u + 1 \in Nat /\ u + 1 > 0
      BY <1>1, <1>3, FileFacts
    <2> QED
      BY <1>1, <1>3, <2>1, <2>2, <2>3, <2>4, ToAvatars
  <1>7. PostsRight'
    BY <1>2, <1>5, PostsStay DEF BrewerySteps
  <1> QED
    BY <1>1, <1>2, <1>6, <1>7, AccountStays DEF Acted

(* The steps of one city, up to its row.                                   *)
LEMMA CityStepHolds ==
    ASSUME IInv, Grows, NEW r \in Runs, NEW step \in CitySteps, at[r][1] \in CitySteps,
           Step(r, step), userIds' = userIds, account' = account, post' = post
    PROVE  Acted(r)
  <1>1. Typed /\ RunInv(r) /\ NamesUnique /\ FirstIsThere /\ file' = file /\ file \in Files
    BY DEF IInv, Typed, Grows
  <1>0. PICK c : c = at[r][2]
    OBVIOUS
  <1>2. c \in DOMAIN Cities /\ AllUsers(r) /\ Located(c - 1) /\ userIds[r] \in Seq(AnyRow)
    BY <1>0, <1>1 DEF RunInv
  <1>3. at' = [at EXCEPT ![r] = <<step, c>>]
    BY <1>0 DEF Step, GoTo, Index
  <1>4. at'[r] = <<step, c>> /\ userIds'[r] = userIds[r]
    BY <1>1, <1>3 DEF Typed
  <1>5. AllUsers(r)'
    BY <1>1, <1>2, <1>4, PartsStay
  <1>6. Located(at[r][2] - 1)'
    BY <1>1, <1>2, <1>4, FileStays DEF Located, Grows
  <1>7. RunInv(r)'
    BY <1>1, <1>2, <1>4, <1>5, <1>6, FileFacts, FileStays
    DEF RunInv, Places, UserSteps, AvatarSteps, CitySteps, BrewerySteps
  <1>8. PostsRight'
    BY <1>3, PostsStay DEF CitySteps, BrewerySteps
  <1> QED
    BY <1>1, <1>7, <1>8, AccountStays DEF Acted

LEMMA CreatesCityHolds ==
    ASSUME IInv, Grows, NEW r \in Runs, CreatesCity(r)
    PROVE  Acted(r)
  <1>1. Typed /\ RunInv(r) /\ NamesUnique /\ FirstIsThere /\ file' = file /\ file \in Files
    BY DEF IInv, Typed, Grows
  <1>2. at[r][1] = "city" /\ post' = post /\ account' = account /\ userIds' = userIds
    BY DEF CreatesCity, Throw, people
  <1>3. CASE Throw(r)
    BY <1>3, FailedHolds DEF Throw, Fail, GoTo, people
  <1>4. CASE city' = city \cup {CityRow(City(r))} /\ GoTo(r, AtCities(Index(r) + 1))
    <2>0. PICK c : c = at[r][2]
      OBVIOUS
    <2>1. c \in DOMAIN Cities /\ AllUsers(r) /\ Located(c - 1) /\ userIds[r] \in Seq(AnyRow)
      BY <1>1, <1>2, <2>0 DEF RunInv, CitySteps
    <2>2. at' = [at EXCEPT ![r] = AtCities(c + 1)] /\ CityRow(Cities[c]) \in city'
      BY <1>4, <2>0 DEF GoTo, Index, City
    <2>3. at'[r] = AtCities(c + 1) /\ userIds'[r] = userIds[r]
      BY <1>1, <1>2, <2>2 DEF Typed
    <2>4. AllUsers(r)'
      BY <1>1, <2>1, <2>3, PartsStay
    <2>5. Located((c + 1) - 1)'
      <3>1. ASSUME NEW k \in DOMAIN Cities, k <= (c + 1) - 1
            PROVE  CityRow(Cities[k]) \in city'
        <4>1. k = c \/ k <= c - 1
          BY <1>1, <2>1, <3>1, FileFacts
        <4> QED
          BY <2>1, <2>2, <4>1 DEF Located, Grows
      <3> QED
        BY <1>1, <3>1, FileStays DEF Located
    <2>6. c + 1 \in Nat /\ c + 1 > 0
      BY <1>1, <2>1, FileFacts
    <2>7. RunInv(r)'
      BY <1>1, <2>1, <2>3, <2>4, <2>5, <2>6, ToCities
    <2>8. PostsRight'
      BY <1>2, <2>2, PostsStay DEF BrewerySteps
    <2> QED
      BY <1>1, <1>2, <2>7, <2>8, AccountStays DEF Acted
  <1> QED
    BY <1>3, <1>4 DEF CreatesCity

LEMMA FindsCityHolds ==
    ASSUME IInv, Grows, NEW r \in Runs, FindsCity(r)
    PROVE  Acted(r)
  <1>1. Typed /\ RunInv(r) /\ NamesUnique /\ FirstIsThere /\ file' = file /\ file \in Files
    BY DEF IInv, Typed, Grows
  <1>2. at[r][1] = "find" /\ post' = post /\ account' = account /\ userIds' = userIds
    BY DEF FindsCity, people
  <1>3. CASE Fail(r)
    BY <1>2, <1>3, FailedHolds DEF Fail, GoTo
  <1>4. CASE Step(r, "post")
    <2>0. PICK b : b = at[r][2]
      OBVIOUS
    <2>1. b \in DOMAIN Breweries /\ AllCities(r) /\ Posted(r, b - 1)
          /\ userIds[r] \in Seq(AnyRow)
      BY <1>1, <1>2, <2>0 DEF RunInv, BrewerySteps
    <2>2. at' = [at EXCEPT ![r] = <<"post", b>>]
      BY <1>4, <2>0 DEF Step, GoTo, Index
    <2>3. at'[r] = <<"post", b>> /\ userIds'[r] = userIds[r]
      BY <1>1, <1>2, <2>2 DEF Typed
    <2>4. AllCities(r)'
      BY <1>1, <2>1, <2>3, PartsStay
    <2>5. Posted(r, at[r][2] - 1)'
      BY <1>1, <2>1, <2>3, FileStays, PostingStays DEF Posted, Grows
    <2>6. RunInv(r)'
      BY <1>1, <2>1, <2>3, <2>4, <2>5, FileFacts, FileStays
      DEF RunInv, Places, UserSteps, AvatarSteps, CitySteps, BrewerySteps
    <2>7. PostsRight'
      BY <1>2, <2>0, <2>2, PostsStay DEF BrewerySteps
    <2> QED
      BY <1>1, <1>2, <2>6, <2>7, AccountStays DEF Acted
  <1> QED
    BY <1>3, <1>4 DEF FindsCity

LEMMA PostsBreweryHolds ==
    ASSUME IInv, Grows, NEW r \in Runs, PostsBrewery(r)
    PROVE  Acted(r)
  <1>1. /\ Typed /\ RunInv(r) /\ NamesUnique /\ FirstIsThere /\ PostsRight
        /\ file' = file /\ file \in Files
    BY DEF IInv, Typed, Grows
  <1>2. at[r][1] = "post" /\ account' = account /\ userIds' = userIds
    BY DEF PostsBrewery, people
  <1>0. PICK b : b = at[r][2]
    OBVIOUS
  <1>3. b \in DOMAIN Breweries /\ AllCities(r) /\ Posted(r, b - 1) /\ userIds[r] \in Seq(AnyRow)
    BY <1>0, <1>1, <1>2 DEF RunInv, BrewerySteps
  <1>4. Poster(r) = RowOf(r, PosterOf(b)) /\ RowOf(r, PosterOf(b)) \in account
        /\ PosterOf(b) \in DOMAIN Users
    <2>1. Len(userIds[r]) = Len(Users) /\ Len(Users) > 0 /\ Len(Users) \in Nat /\ b \in Nat /\ b > 0
          /\ DOMAIN Users = 1 .. Len(Users)
      BY <1>1, <1>3, FileFacts DEF AllCities, AllUsers, Registered
    <2>2. PosterOf(b) \in 1 .. Len(Users)
      BY <2>1, PosterInRange DEF PosterOf
    <2>3. Poster(r) = userIds[r][PosterOf(b)]
      BY <1>0, <2>1 DEF Poster, PosterOf, Index
    <2> QED
      BY <1>3, <2>1, <2>2, <2>3 DEF AllCities, AllUsers, Registered
  <1>5. at' = [at EXCEPT ![r] = AtBreweries(b + 1)] /\ post' = Append(post, Posting(r, b))
    BY <1>0, <1>4 DEF PostsBrewery, GoTo, Index, Matches, Posting, Brewery
  <1>6. at'[r] = AtBreweries(b + 1) /\ userIds'[r] = userIds[r]
    BY <1>1, <1>2, <1>5 DEF Typed
  <1>7. Posting(r, b) \in AnyPosting /\ post \in Seq(AnyPosting) /\ post' \in Seq(AnyPosting)
    <2>1. RowOf(r, PosterOf(b)) \in AnyRow
      BY <1>1, <1>4, RowsTyped
    <2>2. CityRow(CityOf(Breweries[b])) \in {CityRow(f.cities[c]) : f \in Files, c \in Nat}
      <3>1. Breweries[b].city \in Nat /\ file \in Files
        BY <1>1, <1>3, FileFacts
      <3> QED
        BY <3>1 DEF CityOf, Cities
    <2>3. Posting(r, b) \in AnyPosting
      BY <1>1, <1>3, <2>1, <2>2, FileFacts DEF Posting, AnyPosting
    <2> QED
      BY <1>1, <1>5, <2>3 DEF PostsRight
  <1>8. RunInv(r)'
    <2>1. AllCities(r)'
      BY <1>1, <1>3, <1>6, PartsStay
    <2>2. Posted(r, (b + 1) - 1)'
      <3>1. ASSUME NEW k \in DOMAIN Breweries, k <= (b + 1) - 1
            PROVE  \E i \in DOMAIN post' : post'[i] = Posting(r, k)
        <4>1. k = b \/ k <= b - 1
          BY <1>1, <1>3, <3>1, FileFacts
        <4>2. CASE k = b
          BY <1>5, <1>7, <4>2
        <4>3. CASE k <= b - 1
          BY <1>3, <4>3 DEF Posted, Grows
        <4> QED
          BY <4>1, <4>2, <4>3
      <3> QED
        BY <1>1, <3>1, FileStays, PostingStays DEF Posted
    <2>3. b + 1 \in Nat /\ b + 1 > 0
      BY <1>1, <1>3, FileFacts
    <2>4. AllUsers(r)' /\ Located(Len(Cities))'
      BY <2>1 DEF AllCities
    <2> QED
      BY <1>1, <1>3, <1>6, <2>2, <2>3, <2>4, ToBreweries
  <1>9. PostsRight'
    <2>1. /\ RowOf(r, 1) \in account /\ Len(Users) > 0
          /\ b \in Nat /\ b + 1 \in Nat
      BY <1>1, <1>3, FileFacts DEF AllCities, AllUsers, Registered
    <2>2. \A i \in DOMAIN post : post[i] \in AnyPosting /\ Behind(post[i].by, post[i].brewery)
      BY <1>1, <1>7 DEF PostsRight
    <2>3. ASSUME NEW i \in DOMAIN post
          PROVE  post[i].by = r /\ post[i].brewery < b /\ post[i].brewery \in Nat
      <3>1. RowOf(post[i].by, 1) = RowOf(r, 1)
        BY <1>1, <2>1, <2>2 DEF Behind, NamesUnique, RowOf
      <3>2. post[i].by = r
        BY <3>1 DEF RowOf
      <3> QED
        BY <1>0, <1>2, <2>2, <3>2 DEF Behind, AnyPosting, BrewerySteps
    <2>4. ASSUME NEW k \in Nat, k <= b
          PROVE  Behind(r, k)'
      <3>1. RowOf(r, 1)' \in account' /\ Len(Users') > 0
        BY <1>1, <1>2, <2>1, FileStays DEF RowOf
      <3>2. \/ at'[r] = <<"ok", 0>>
            \/ at'[r] = <<"find", b + 1>>
        BY <1>1, <1>6, <2>1, FileFacts DEF AtBreweries
      <3>3. \/ at'[r][1] \in {"ok", "failed"}
            \/ at'[r][1] \in BrewerySteps /\ k < at'[r][2]
        BY <2>1, <2>4, <3>2 DEF BrewerySteps
      <3> QED
        BY <3>1, <3>3 DEF Behind
    <2>5. Posting(r, b).by = r /\ Posting(r, b).brewery = b
      BY DEF Posting
    <2>6. ASSUME NEW i \in DOMAIN post'
          PROVE  \/ i \in DOMAIN post /\ post'[i] = post[i]
                 \/ i = Len(post) + 1 /\ post'[i] = Posting(r, b)
      BY <1>5, <1>7
    <2>7. ASSUME NEW i \in DOMAIN post'
          PROVE  Behind(post[i].by, post[i].brewery)'
      <3>1. post'[i].by = r /\ post'[i].brewery \in Nat /\ post'[i].brewery <= b
        BY <2>1, <2>3, <2>5, <2>6, <2>7
      <3>2. PICK k : k = post'[i].brewery
        OBVIOUS
      <3>3. Behind(r, k)'
        BY <2>4, <3>1, <3>2
      <3> QED
        BY <3>1, <3>2, <3>3 DEF Behind
    <2>8. \A i, j \in DOMAIN post' : post'[i].brewery = post'[j].brewery => i = j
      <3> TAKE i, j \in DOMAIN post'
      <3> QED
        BY <1>1, <2>1, <2>3, <2>5, <2>6 DEF PostsRight
    <2>9. \A i \in DOMAIN post' : Behind(post[i].by, post[i].brewery)'
      BY <2>7
    <2> QED
      BY <1>7, <2>8, <2>9 DEF PostsRight
  <1> QED
    BY <1>1, <1>2, <1>8, <1>9, AccountStays DEF Acted

LEMMA ActorHolds ==
    ASSUME IInv, Grows, NEW r \in Runs, Run(r)
    PROVE  Acted(r)
  <1>1. CASE FindsCountry(r)
    BY <1>1, CityStepHolds DEF FindsCountry, CitySteps, people
  <1>2. CASE CreatesCountry(r)
    <2>1. CASE Throw(r)
      BY <2>1, FailedHolds DEF Throw, Fail, GoTo, people
    <2>2. CASE ~Throw(r)
      BY <1>2, <2>2, CityStepHolds DEF CreatesCountry, CitySteps, people
    <2> QED
      BY <2>1, <2>2
  <1>3. CASE FindsProvince(r)
    BY <1>3, CityStepHolds DEF FindsProvince, CitySteps, people
  <1>4. CASE CreatesProvince(r)
    <2>1. CASE Throw(r)
      BY <2>1, FailedHolds DEF Throw, Fail, GoTo, people
    <2>2. CASE ~Throw(r)
      BY <1>4, <2>2, CityStepHolds DEF CreatesProvince, CitySteps, people
    <2> QED
      BY <2>1, <2>2
  <1> QED
    BY <1>1, <1>2, <1>3, <1>4, BeginsHolds, RegistersHolds, CreatesProfileHolds,
       UpdatesBiographyHolds, UploadsPhotoHolds, SavesAvatarHolds, CreatesCityHolds,
       FindsCityHolds, PostsBreweryHolds DEF Run

(* A run touches only its own place and memory.                            *)
LEMMA OnlyOwn ==
    ASSUME Typed, NEW r \in Runs, Run(r)
    PROVE  /\ at' = [s \in Runs |-> at'[s]] /\ userIds' = [s \in Runs |-> userIds'[s]]
           /\ \A s \in Runs \ {r} : at'[s] = at[s] /\ userIds'[s] = userIds[s]
  <1>1. \E p : at' = [at EXCEPT ![r] = p]
    BY DEF Run, Begin, Registers, CreatesProfile, UpdatesBiography, UploadsPhoto, SavesAvatar,
       FindsCountry, CreatesCountry, FindsProvince, CreatesProvince, CreatesCity, FindsCity,
       PostsBrewery, Throw, Fail, Step, GoTo
  <1>2. userIds' = userIds \/ \E x : userIds' = [userIds EXCEPT ![r] = x]
    BY DEF Run, Begin, Registers, CreatesProfile, UpdatesBiography, UploadsPhoto, SavesAvatar,
       FindsCountry, CreatesCountry, FindsProvince, CreatesProvince, CreatesCity, FindsCity,
       PostsBrewery, Throw
  <1>3. /\ at' = [s \in Runs |-> at'[s]] /\ \A s \in Runs \ {r} : at'[s] = at[s]
    BY <1>1 DEF Typed
  <1>4. /\ userIds' = [s \in Runs |-> userIds'[s]]
        /\ \A s \in Runs \ {r} : userIds'[s] = userIds[s]
    BY <1>2 DEF Typed
  <1> QED
    BY <1>3, <1>4

LEMMA StrangersHold ==
    ASSUME IInv, Grows, StrangerRegisters \/ StrangerLeaves
    PROVE  NamesUnique' /\ FirstIsThere' /\ PostsRight'
  <1>1. /\ NamesUnique /\ FirstIsThere /\ PostsRight /\ file' = file /\ file \in Files
        /\ post' = post /\ at' = at /\ Stranger \notin Runs
    BY FileFacts DEF IInv, Typed, StrangerRegisters, StrangerLeaves
  <1>2. NamesUnique'
    BY <1>1 DEF NamesUnique, StrangerRegisters, StrangerLeaves, Taken
  <1>3. \A a \in account' : a.by \in Runs => a \in account
    BY <1>1 DEF StrangerRegisters, StrangerLeaves
  <1>4. FirstIsThere'
    BY <1>1, <1>3, FileStays DEF FirstIsThere, RowOf, Grows
  <1>5. ASSUME NEW i \in DOMAIN post
        PROVE  Behind(post[i].by, post[i].brewery)'
    BY <1>1, FileStays DEF PostsRight, Behind, RowOf, Grows
  <1> QED
    BY <1>1, <1>2, <1>4, <1>5 DEF PostsRight

LEMMA StepHolds == IInv /\ [SeedNext]_vars => IInv'
  <1> SUFFICES ASSUME IInv, [SeedNext]_vars
               PROVE  IInv'
    OBVIOUS
  <1>1. CASE UNCHANGED vars
    <2>1. /\ file' = file /\ at' = at /\ userIds' = userIds /\ post' = post
          /\ account' = account /\ Grows
      BY <1>1 DEF vars, people, places, Grows
    <2>2. Typed' /\ NamesUnique' /\ FirstIsThere'
      BY <2>1, AccountStays DEF IInv, Typed
    <2>3. PostsRight'
      BY <2>1, FileStays DEF IInv, PostsRight, Behind, RowOf
    <2>4. \A r \in Runs : RunInv(r)'
      BY <2>1, OthersStay DEF IInv, Typed
    <2> QED
      BY <2>2, <2>3, <2>4 DEF IInv
  <1>2. CASE SeedNext
    <2>1. Grows /\ Typed /\ (\A s \in Runs : RunInv(s)) /\ file \in Files /\ file' = file
      BY <1>2, StepsGrow DEF IInv, Typed, Grows
    <2>2. ASSUME NEW r \in Runs, Run(r)
          PROVE  IInv'
      <3>1. Acted(r)
        BY <2>1, <2>2, ActorHolds
      <3>2. Typed'
        BY <2>1, <2>2, OnlyOwn DEF Typed
      <3>3. \A s \in Runs \ {r} : RunInv(s)'
        BY <2>1, <2>2, OnlyOwn, OthersStay
      <3> QED
        BY <3>1, <3>2, <3>3 DEF IInv, Acted
    <2>3. ASSUME NEW r \in Runs, Dies(r)
          PROVE  IInv'
      <3>1. at' = [at EXCEPT ![r] = <<"failed", 0>>] /\ userIds' = userIds
            /\ account' = account /\ post' = post
        BY <2>3 DEF Dies, Throw, Fail, GoTo, people
      <3>2. Acted(r)
        BY <2>1, <3>1, FailedHolds
      <3>3. Typed' /\ \A s \in Runs \ {r} : at'[s] = at[s] /\ userIds'[s] = userIds[s]
        BY <2>1, <3>1 DEF Typed
      <3>4. \A s \in Runs \ {r} : RunInv(s)'
        BY <2>1, <3>3, OthersStay
      <3> QED
        BY <3>2, <3>3, <3>4 DEF IInv, Acted
    <2>4. CASE StrangerRegisters \/ StrangerLeaves
      <3>1. at' = at /\ userIds' = userIds
        BY <2>4 DEF StrangerRegisters, StrangerLeaves
      <3>2. Typed' /\ \A s \in Runs : RunInv(s)'
        BY <2>1, <3>1, OthersStay DEF Typed
      <3> QED
        BY <2>1, <2>4, <3>2, StrangersHold DEF IInv
    <2> QED
      BY <1>2, <2>2, <2>3, <2>4 DEF SeedNext
  <1> QED
    BY <1>1, <1>2

-----------------------------------------------------------------------------
(* However often the seeder is started, wherever its runs die, whoever     *)
(* else registers: one run at most gets accounts, and no brewery is posted *)
(* twice.                                                                  *)
THEOREM NothingIsTwice == SeedSpec => []NothingTwice
  <1>1. IInv => NothingTwice
    <2> SUFFICES ASSUME IInv
                 PROVE  NothingTwice
      OBVIOUS
    <2>1. ASSUME NEW a \in account, NEW b \in account, a.by \in Runs, b.by \in Runs
          PROVE  a.by = b.by
      <3>1. RowOf(a.by, 1) \in account /\ RowOf(b.by, 1) \in account
        BY <2>1 DEF IInv, FirstIsThere
      <3>2. RowOf(a.by, 1) = RowOf(b.by, 1)
        BY <3>1 DEF IInv, NamesUnique, RowOf
      <3> QED
        BY <3>2 DEF RowOf
    <2> QED
      BY <2>1 DEF NothingTwice, IInv, PostsRight
  <1> QED
    BY InitHolds, StepHolds, <1>1, PTL DEF SeedSpec

(* A run that ends well leaves the whole file in the database.             *)
THEOREM SuccessIsTheFile == SeedSpec => []SuccessIsWholeFile
  <1>1. IInv => SuccessIsWholeFile
    <2> SUFFICES ASSUME IInv, NEW r \in Runs, at[r][1] = "ok"
                 PROVE  /\ \A u \in DOMAIN Users : RowOf(r, u) \in account \cap profile \cap bio \cap avatar
                        /\ \A c \in DOMAIN Cities : CityRow(Cities[c]) \in city
                        /\ \A b \in DOMAIN Breweries : \E i \in DOMAIN post :
                             post[i] = Posting(r, b)
      BY DEF SuccessIsWholeFile, RowOf, Posting, PosterOf
    <2>1. AllCities(r) /\ Posted(r, Len(Breweries)) /\ file \in Files
      BY DEF IInv, RunInv, Typed
    <2>2. \A u \in DOMAIN Users : RowOf(r, u) \in account \cap profile \cap bio \cap avatar
      BY <2>1, FileFacts DEF AllCities, AllUsers, Registered, Portrayed
    <2>3. \A c \in DOMAIN Cities : CityRow(Cities[c]) \in city
      BY <2>1, FileFacts DEF AllCities, Located
    <2>4. \A b \in DOMAIN Breweries : \E i \in DOMAIN post : post[i] = Posting(r, b)
      BY <2>1, FileFacts DEF Posted
    <2> QED
      BY <2>2, <2>3, <2>4
  <1> QED
    BY InitHolds, StepHolds, <1>1, PTL DEF SeedSpec

-----------------------------------------------------------------------------
(* Why a run fails.  A run that nothing disturbs meets in the tables only  *)
(* what it has put there itself from earlier entries of the file.          *)
Alone(r) == /\ r \notin killed
            /\ Loadable
            /\ strangers = 0
            /\ \A s \in Runs \ {r} : at[s][1] = "idle"

ProvinceOf(c) == [code |-> c.code, name |-> c.province, country |-> c.country]

OwnAccounts(r) == \A a \in account : \E u \in DOMAIN Users :
  /\ a = RowOf(r, u)
  /\ at[r][1] # "idle"
  /\ at[r][1] \in UserSteps => (u < at[r][2] \/ (at[r][1] = "profile" /\ u = at[r][2]))

OwnCities(r) == \A row \in city : \E c \in DOMAIN Cities :
  /\ row = CityRow(Cities[c])
  /\ at[r][1] \notin {"idle"} \cup UserSteps \cup AvatarSteps
  /\ at[r][1] \in CitySteps => c < at[r][2]

OwnProvinces(r) ==
  /\ \A p \in province : \E c \in DOMAIN Cities : p = ProvinceOf(Cities[c])
  /\ at[r][1] = "newProvince" => \A p \in province : p.code # Cities[at[r][2]].code
  /\ at[r][1] = "newCountry" => Cities[at[r][2]].country \notin country

Clean(r) == at[r][1] # "failed" /\ OwnAccounts(r) /\ OwnCities(r) /\ OwnProvinces(r)

FInv == strangers \in Nat /\ \A r \in Runs : Alone(r) => Clean(r)

LEMMA FInvInit == Init => FInv
  <1> SUFFICES ASSUME Init
               PROVE  FInv
    OBVIOUS
  <1>1. \A r \in Runs : at[r] = <<"idle", 0>>
    BY DEF Init
  <1> QED
    BY <1>1 DEF Init, FInv, Clean, OwnAccounts, OwnCities, OwnProvinces

(* Where the loops can go on when there are users.                         *)
LEMMA GoesOn ==
    ASSUME file \in Files, Len(Users) > 0, NEW i \in Nat
    PROVE  /\ AtBreweries(i)[1] \in {"find", "ok"}
           /\ AtCities(i) = <<"country", i>> \/ AtCities(i)[1] \in {"find", "ok"}
           /\ AtAvatars(i)[1] \in {"bio", "country", "find", "ok"}
           /\ AtUsers(i) = <<"register", i>> \/ AtUsers(i)[1] \in {"bio", "country", "find", "ok"}
  <1>1. \A k \in Nat : AtBreweries(k)[1] \in {"find", "ok"}
    BY DEF AtBreweries
  <1>2. \A k \in Nat : AtCities(k) = <<"country", k>> \/ AtCities(k)[1] \in {"find", "ok"}
    BY <1>1 DEF AtCities
  <1>3. \A k \in Nat : AtAvatars(k)[1] \in {"bio", "country", "find", "ok"}
    BY <1>2 DEF AtAvatars
  <1>4. AtUsers(i) = <<"register", i>> \/ AtUsers(i)[1] \in {"bio", "country", "find", "ok"}
    BY <1>3 DEF AtUsers
  <1> QED
    BY <1>1, <1>2, <1>3, <1>4

(* What holds before a step of a run that nothing disturbs.                *)
LEMMA AloneFacts ==
    ASSUME IInv, FInv, NEW r \in Runs, Alone(r)
    PROVE  /\ file \in Files /\ at = [s \in Runs |-> at[s]] /\ Len(Users) > 0
           /\ RunInv(r) /\ Clean(r)
           /\ \A i, j \in DOMAIN Users : Users[i].name = Users[j].name => i = j
           /\ \A i, j \in DOMAIN Cities : CityRow(Cities[i]) = CityRow(Cities[j]) => i = j
           /\ \A i, j \in DOMAIN Cities :
                Cities[i].province = Cities[j].province /\ Cities[i].country = Cities[j].country
                  => Cities[i].code = Cities[j].code
  BY DEF IInv, FInv, Typed, Alone, Loadable

LEMMA UsersClean ==
    ASSUME IInv, FInv, NEW r \in Runs, Alone(r), file' = file,
           Begin(r) \/ Registers(r) \/ CreatesProfile(r)
    PROVE  Clean(r)'
  <1> USE AloneFacts, FileFacts
  <1>1. /\ at[r][1] \in {"idle"} \cup UserSteps
        /\ city = {} /\ city' = {} /\ province' = province /\ OwnProvinces(r)
        /\ at[r][1] = "idle" => account = {}
    <2>1. at[r][1] \in {"idle"} \cup UserSteps /\ city' = city /\ province' = province
      BY DEF Begin, Registers, CreatesProfile, UserSteps, places, Throw
    <2>2. OwnCities(r) /\ OwnProvinces(r) /\ OwnAccounts(r)
      BY DEF Clean
    <2> QED
      BY <2>1, <2>2 DEF OwnCities, OwnAccounts
  <1>2. \A p \in province : \E c \in DOMAIN Cities : p = ProvinceOf(Cities[c])
    BY <1>1 DEF OwnProvinces
  <1>3. ASSUME at'[r][1] \notin {"idle", "failed", "newProvince", "newCountry"}, OwnAccounts(r)'
        PROVE  Clean(r)'
    BY <1>1, <1>2, <1>3, FileStays DEF Clean, OwnCities, OwnProvinces
  <1>4. CASE Begin(r)
    <2>1. at'[r] = AtUsers(1) /\ account' = {}
      BY <1>1, <1>4 DEF Begin, GoTo, people
    <2>2. OwnAccounts(r)'
      BY <2>1 DEF OwnAccounts
    <2>3. AtUsers(1) = <<"register", 1>> \/ AtUsers(1)[1] \in {"bio", "country", "find", "ok"}
      BY GoesOn
    <2> QED
      BY <1>3, <2>1, <2>2, <2>3
  <1>5. CASE Registers(r)
    <2>0. PICK k : k = at[r][2]
      OBVIOUS
    <2>1. at[r][1] = "register" /\ k \in DOMAIN Users
      BY <1>5, <2>0 DEF Registers, RunInv, UserSteps
    <2>2. \A a \in account : \E u \in DOMAIN Users : a = RowOf(r, u) /\ u < k
      BY <2>0, <2>1 DEF Clean, OwnAccounts, UserSteps
    <2>3. UserName(r) = Users[k].name /\ Row(r) = RowOf(r, k)
      BY <2>0 DEF UserName, Row, RowOf, Index
    <2>4. ~Taken(UserName(r))
      BY <2>1, <2>2, <2>3 DEF Taken, RowOf
    <2>5. account' = account \cup {RowOf(r, k)} /\ at'[r] = <<"profile", k>>
      BY <1>5, <2>0, <2>3, <2>4 DEF Registers, Step, GoTo, Index
    <2>6. OwnAccounts(r)'
      <3>1. ASSUME NEW a \in account'
            PROVE  \E u \in DOMAIN Users : a = [name |-> Users[u].name, by |-> r]
                                           /\ (u < k \/ u = k)
        BY <2>1, <2>2, <2>5, <3>1 DEF RowOf
      <3>2. at'[r][1] = "profile" /\ at'[r][2] = k
        BY <2>5
      <3> QED
        BY ONLY <3>1, <3>2, FileStays, file' = file DEF OwnAccounts, RowOf
    <2> QED
      BY <1>3, <2>5, <2>6
  <1>6. CASE CreatesProfile(r)
    <2>0. PICK k : k = at[r][2]
      OBVIOUS
    <2>1. at[r][1] = "profile" /\ k \in DOMAIN Users
      BY <1>6, <2>0 DEF CreatesProfile, RunInv, UserSteps
    <2>2. \A a \in account : \E u \in DOMAIN Users : a = RowOf(r, u) /\ u < k + 1
      BY <2>0, <2>1 DEF Clean, OwnAccounts, UserSteps
    <2>3. at'[r] = AtUsers(k + 1) /\ account' = account /\ k + 1 \in Nat
      BY <1>6, <2>0, <2>1 DEF CreatesProfile, GoTo, Index
    <2>4. at'[r] = <<"register", k + 1>> \/ at'[r][1] \in {"bio", "country", "find", "ok"}
      BY <2>3, GoesOn
    <2>5. OwnAccounts(r)'
      <3>1. ASSUME NEW a \in account'
            PROVE  \E u \in DOMAIN Users : a = [name |-> Users[u].name, by |-> r] /\ u < k + 1
        BY <2>2, <2>3, <3>1 DEF RowOf
      <3>2. at'[r][1] # "idle" /\ (at'[r][1] \in UserSteps => at'[r][2] = k + 1)
        BY <2>4 DEF UserSteps
      <3> QED
        BY ONLY <3>1, <3>2, FileStays, file' = file DEF OwnAccounts, RowOf
    <2> QED
      BY <1>3, <2>4, <2>5
  <1> QED
    BY <1>4, <1>5, <1>6

(* After the users: their rows are there, no matter which.                 *)
LEMMA AccountsClean ==
    ASSUME IInv, FInv, NEW r \in Runs, Alone(r), file' = file, account' = account,
           at[r][1] \notin {"idle"} \cup UserSteps, at'[r][1] \notin {"idle"} \cup UserSteps
    PROVE  OwnAccounts(r)'
  BY AloneFacts, FileStays DEF Clean, OwnAccounts, RowOf

LEMMA AvatarsClean ==
    ASSUME IInv, FInv, NEW r \in Runs, Alone(r), file' = file,
           UpdatesBiography(r) \/ UploadsPhoto(r) \/ SavesAvatar(r)
    PROVE  Clean(r)'
  <1> USE AloneFacts, FileFacts
  <1>0. PICK k : k = at[r][2]
    OBVIOUS
  <1>1. at[r][1] \in AvatarSteps /\ city' = city /\ province' = province /\ account' = account
        /\ k \in DOMAIN Users /\ Registered(r, Len(Users))
    BY <1>0 DEF UpdatesBiography, UploadsPhoto, SavesAvatar, AvatarSteps, places, RunInv
  <1>2. UserId(r) \in profile
    BY <1>0, <1>1 DEF Registered, UserId, Index
  <1>3. city = {} /\ \A p \in province : \E c \in DOMAIN Cities : p = ProvinceOf(Cities[c])
    BY <1>1 DEF Clean, OwnCities, OwnProvinces
  <1>4. at'[r] = <<"photo", k>> \/ at'[r] = <<"avatar", k>> \/ at'[r] = AtAvatars(k + 1)
    BY <1>0, <1>2 DEF UpdatesBiography, UploadsPhoto, SavesAvatar, Step, GoTo, Index
  <1>5. at'[r][1] \in {"bio", "photo", "avatar", "country", "find", "ok"}
    BY <1>1, <1>4, GoesOn
  <1>6. OwnAccounts(r)'
    BY <1>1, <1>5, AccountsClean DEF AvatarSteps, UserSteps
  <1> QED
    BY <1>1, <1>3, <1>5, <1>6, FileStays DEF Clean, OwnCities, OwnProvinces

LEMMA CitiesClean ==
    ASSUME IInv, FInv, NEW r \in Runs, Alone(r), file' = file,
           \/ FindsCountry(r) \/ CreatesCountry(r)
           \/ FindsProvince(r) \/ CreatesProvince(r) \/ CreatesCity(r)
    PROVE  Clean(r)'
  <1> USE AloneFacts, FileFacts, FileStays
  <1>0. PICK k : k = at[r][2]
    OBVIOUS
  <1>1. at[r][1] \in CitySteps /\ account' = account /\ k \in DOMAIN Cities
        /\ City(r) = Cities[k]
    BY <1>0 DEF FindsCountry, CreatesCountry, FindsProvince, CreatesProvince, CreatesCity,
       CitySteps, people, RunInv, City, Index, Throw
  <1>2. /\ \A row \in city : \E c \in DOMAIN Cities : row = CityRow(Cities[c]) /\ c < k
        /\ \A p \in province : \E c \in DOMAIN Cities : p = ProvinceOf(Cities[c])
        /\ at[r][1] = "newProvince" => \A p \in province : p.code # Cities[k].code
        /\ at[r][1] = "newCountry" => Cities[k].country \notin country
    BY <1>0, <1>1 DEF Clean, OwnCities, OwnProvinces
  <1>3. ASSUME at'[r][1] \notin {"idle", "failed"} \cup UserSteps \cup AvatarSteps
        PROVE  at'[r][1] # "failed" /\ OwnAccounts(r)'
    BY <1>1, <1>3, AccountsClean DEF CitySteps, UserSteps
  <1>4. CASE FindsCountry(r)
    <2>1. /\ at'[r] = <<"province", k>> \/ at'[r] = <<"newCountry", k>>
          /\ at'[r] = <<"newCountry", k>> => Cities[k].country \notin country
          /\ city' = city /\ province' = province /\ country' = country
      BY <1>0, <1>1, <1>4 DEF FindsCountry, Step, GoTo, Index, places
    <2> QED
      BY <1>2, <1>3, <2>1
      DEF Clean, OwnCities, OwnProvinces, UserSteps, AvatarSteps, CitySteps
  <1>5. CASE CreatesCountry(r)
    <2>1. at'[r] = <<"province", k>> /\ city' = city /\ province' = province
      BY <1>0, <1>1, <1>2, <1>5 DEF CreatesCountry, Step, GoTo, Index
    <2> QED
      BY <1>2, <1>3, <2>1
      DEF Clean, OwnCities, OwnProvinces, UserSteps, AvatarSteps, CitySteps
  <1>6. CASE FindsProvince(r)
    <2>1. /\ at'[r] = <<"city", k>> \/ at'[r] = <<"newProvince", k>>
          /\ at'[r] = <<"newProvince", k>> => \A p \in province : p.code # Cities[k].code
          /\ city' = city /\ province' = province
      BY <1>0, <1>1, <1>6 DEF FindsProvince, Step, GoTo, Index, places
    <2> QED
      BY <1>2, <1>3, <2>1
      DEF Clean, OwnCities, OwnProvinces, UserSteps, AvatarSteps, CitySteps
  <1>7. CASE CreatesProvince(r)
    <2>1. Province(r) = ProvinceOf(Cities[k]) /\ at[r][1] = "newProvince"
      BY <1>1, <1>7 DEF Province, ProvinceOf, CreatesProvince
    <2>2. ~ProvinceCollides(r)
      BY <1>1, <1>2, <2>1 DEF ProvinceCollides, ProvinceOf
    <2>3. at'[r] = <<"city", k>> /\ city' = city
          /\ province' = province \cup {ProvinceOf(Cities[k])}
      BY <1>0, <1>7, <2>1, <2>2 DEF CreatesProvince, Step, GoTo, Index
    <2> QED
      BY <1>1, <1>2, <1>3, <2>3
      DEF Clean, OwnCities, OwnProvinces, UserSteps, AvatarSteps, CitySteps
  <1>8. CASE CreatesCity(r)
    <2>1. CityRow(City(r)) \notin city
      BY <1>1, <1>2
    <2>2. at'[r] = AtCities(k + 1) /\ city' = city \cup {CityRow(Cities[k])}
          /\ province' = province /\ k + 1 \in Nat
      BY <1>0, <1>1, <1>8, <2>1 DEF CreatesCity, GoTo, Index
    <2>3. at'[r] = <<"country", k + 1>> \/ at'[r][1] \in {"find", "ok"}
      BY <2>2, GoesOn
    <2>4. \A row \in city' : \E c \in DOMAIN Cities : row = CityRow(Cities[c]) /\ c < k + 1
      BY <1>1, <1>2, <2>2
    <2>5. OwnCities(r)'
      BY <2>3, <2>4 DEF OwnCities, UserSteps, AvatarSteps, CitySteps
    <2>6. OwnProvinces(r)'
      BY <1>2, <2>2, <2>3 DEF OwnProvinces
    <2> QED
      BY <1>3, <2>3, <2>5, <2>6 DEF Clean, UserSteps, AvatarSteps
  <1> QED
    BY <1>4, <1>5, <1>6, <1>7, <1>8

LEMMA BreweriesClean ==
    ASSUME IInv, FInv, NEW r \in Runs, Alone(r), file' = file,
           FindsCity(r) \/ PostsBrewery(r)
    PROVE  Clean(r)'
  <1> USE AloneFacts, FileFacts
  <1>0. PICK b : b = at[r][2]
    OBVIOUS
  <1>1. at[r][1] \in BrewerySteps /\ city' = city /\ province' = province /\ account' = account
        /\ b \in DOMAIN Breweries /\ AllCities(r) /\ userIds[r] \in Seq(AnyRow)
    BY <1>0 DEF FindsCity, PostsBrewery, BrewerySteps, people, places, RunInv
  <1>2. at'[r] = <<"post", b>> \/ at'[r] = AtBreweries(b + 1)
    <2>1. CASE FindsCity(r)
      <3>1. CityRow(CityOf(Brewery(r))) \in city
        BY <1>0, <1>1 DEF AllCities, Located, CityOf, Brewery, Index
      <3> QED
        BY <1>0, <2>1, <3>1 DEF FindsCity, Matches, Step, GoTo, Index
    <2>2. CASE PostsBrewery(r)
      <3>1. Len(userIds[r]) = Len(Users) /\ Len(Users) \in Nat /\ b \in Nat /\ b > 0
            /\ DOMAIN Users = 1 .. Len(Users)
        BY <1>1 DEF AllCities, AllUsers, Registered
      <3>2. PosterOf(b) \in 1 .. Len(Users) /\ Poster(r) = userIds[r][PosterOf(b)]
        BY <1>0, <3>1, PosterInRange DEF PosterOf, Poster, Index
      <3>3. Poster(r) \in account
        BY <1>1, <3>2 DEF AllCities, AllUsers, Registered
      <3> QED
        BY <1>0, <2>2, <3>3 DEF PostsBrewery, GoTo, Index
    <2> QED
      BY <2>1, <2>2
  <1>3. at'[r][1] \in {"post", "find", "ok"}
    <2>1. b + 1 \in Nat
      BY <1>1
    <2>2. AtBreweries(b + 1)[1] \in {"find", "ok"}
      BY <2>1, GoesOn
    <2> QED
      BY <1>2, <2>2
  <1>4. OwnAccounts(r)'
    BY <1>1, <1>3, AccountsClean DEF BrewerySteps, UserSteps
  <1>5. OwnCities(r) /\ OwnProvinces(r)
    BY DEF Clean
  <1> QED
    <2>1. OwnCities(r)'
      BY <1>1, <1>3, <1>5, FileStays
      DEF OwnCities, BrewerySteps, CitySteps, UserSteps, AvatarSteps
    <2>2. OwnProvinces(r)'
      BY <1>1, <1>3, <1>5, FileStays DEF OwnProvinces
    <2> QED
      BY <1>3, <1>4, <2>1, <2>2 DEF Clean

LEMMA FInvStep == IInv /\ FInv /\ [SeedNext]_vars => FInv'
  <1> SUFFICES ASSUME IInv, FInv, [SeedNext]_vars
               PROVE  FInv'
    OBVIOUS
  <1>1. CASE UNCHANGED vars
    <2>1. file' = file /\ at' = at /\ killed' = killed /\ strangers' = strangers
          /\ account' = account /\ city' = city /\ province' = province /\ country' = country
      BY <1>1 DEF vars, people, places
    <2>2. ASSUME NEW r \in Runs, Alone(r)'
          PROVE  Clean(r)'
      <3>1. Alone(r)
        BY <2>1, <2>2, FileStays DEF Alone, Loadable
      <3>2. Clean(r)
        BY <3>1 DEF FInv
      <3> QED
        BY <2>1, <3>2, FileStays
        DEF Clean, OwnAccounts, OwnCities, OwnProvinces, RowOf
    <2> QED
      BY <2>1, <2>2 DEF FInv
  <1>2. ASSUME NEW r \in Runs, Run(r)
        PROVE  FInv'
    <2>1. file' = file /\ killed' = killed /\ strangers' = strangers /\ Typed
      BY <1>2 DEF Run, IInv
    <2>2. at'[r][1] # "idle"
      BY <1>2, <2>1 DEF Typed, Run, Begin, Registers, CreatesProfile, UpdatesBiography,
         UploadsPhoto, SavesAvatar, FindsCountry, CreatesCountry, FindsProvince,
         CreatesProvince, CreatesCity, FindsCity, PostsBrewery, Throw, Fail, Step, GoTo,
         AtUsers, AtAvatars, AtCities, AtBreweries
    <2>3. ASSUME NEW s \in Runs, Alone(s)'
          PROVE  Clean(s)'
      <3>1. s = r
        BY <2>2, <2>3 DEF Alone
      <3>2. Alone(r)
        BY <1>2, <2>1, <2>3, <3>1, OnlyOwn, FileStays DEF Alone, Loadable
      <3>3. Clean(r)'
        BY <1>2, <2>1, <3>2, UsersClean, AvatarsClean, CitiesClean, BreweriesClean DEF Run
      <3> QED
        BY <3>1, <3>3
    <2> QED
      BY <2>1, <2>3 DEF FInv
  <1>3. ASSUME NEW r \in Runs, Dies(r)
        PROVE  FInv'
    <2>1. /\ at' = [at EXCEPT ![r] = <<"failed", 0>>] /\ Typed
          /\ killed' = killed \cup {r} /\ strangers' = strangers
      BY <1>3 DEF Dies, Throw, Fail, GoTo, IInv
    <2>2. ASSUME NEW s \in Runs
          PROVE  ~Alone(s)'
      BY <2>1, <2>2 DEF Alone, Typed
    <2> QED
      BY <2>1, <2>2 DEF FInv
  <1>4. CASE StrangerRegisters
    BY <1>4 DEF StrangerRegisters, FInv, Alone
  <1>5. CASE StrangerLeaves
    <2>1. file' = file /\ at' = at /\ killed' = killed /\ strangers' = strangers
          /\ account' \subseteq account /\ city' = city /\ province' = province
          /\ country' = country
      BY <1>5 DEF StrangerLeaves, places
    <2>2. ASSUME NEW r \in Runs, Alone(r)'
          PROVE  Clean(r)'
      <3>1. Alone(r)
        BY <2>1, <2>2, FileStays DEF Alone, Loadable
      <3>2. Clean(r)
        BY <3>1 DEF FInv
      <3> QED
        BY <2>1, <3>2, FileStays
        DEF Clean, OwnAccounts, OwnCities, OwnProvinces, RowOf
    <2> QED
      BY <2>1, <2>2 DEF FInv
  <1> QED
    BY <1>1, <1>2, <1>3, <1>4, <1>5 DEF SeedNext

(* A run fails because it was killed, because the file breaks a key of the *)
(* API's tables, or because somebody else was there: never over its own    *)
(* rows.                                                                   *)
THEOREM FailuresHaveReasons == SeedSpec => []FailsForAReason
  <1>1. FInv => FailsForAReason
    <2> SUFFICES ASSUME FInv, NEW r \in Runs, at[r][1] = "failed",
                        r \notin killed, Loadable, ~(strangers > 0),
                        \A s \in Runs \ {r} : at[s][1] = "idle"
                 PROVE  FALSE
      BY DEF FailsForAReason
    <2>1. strangers = 0
      BY DEF FInv
    <2> QED
      BY <2>1 DEF FInv, Alone, Clean
  <1> QED
    BY InitHolds, StepHolds, FInvInit, FInvStep, <1>1, PTL DEF SeedSpec
=============================================================================
