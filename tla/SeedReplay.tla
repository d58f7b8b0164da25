------------------------------ MODULE SeedReplay ------------------------------
(***************************************************************************)
(* Database.Seed: a run reads a file that the pipeline has exported and    *)
(* replays it into the database of the web API, one command after the      *)
(* other: accounts, avatars, cities, breweries.  Nothing records how far a *)
(* run has come.  Runs may be killed anywhere, started again, and overlap; *)
(* in production the API is up, and strangers register.  One action is one *)
(* statement of a command, or one transaction.                             *)
(***************************************************************************)
EXTENDS Naturals, Sequences

CONSTANTS Runs,          \* the processes that are started at some time
          Files,         \* the exported files considered
          Stranger,      \* whoever registers through the API meanwhile
          MaxStrangers   \* bound: registrations of strangers

VARIABLES file,     \* the SQLite file, the same for all runs: it is in the image
          account,  \* Auth.UserAccount
          profile,  \* the accounts with a row of Social.UserProfile
          bio,      \* those whose Biography has been set
          photo,    \* those with a row of Media.Photo
          avatar,   \* those with an open period in Social.UserAvatar
          country, province, city,  \* Geolocation.*
          post,     \* Brewery.BreweryPost with its location, in order of insertion
          at,       \* the next statement of a run and the index of its loop
          userIds,  \* the ids that LoadUsersIntoDatabaseAsync has collected
          killed,   \* the runs that a failure, a signal or a crash has ended
          strangers \* registrations of strangers so far

people == <<account, profile, bio, photo, avatar>>
places == <<country, province, city>>
vars == <<file, people, places, post, at, userIds, killed, strangers>>

Steps == {"register", "profile", "bio", "photo", "avatar", "country", "newCountry",
          "province", "newProvince", "city", "find", "post"}

(* What ReadSeedDataAsync makes of the file.  The inner joins leave out an *)
(* owner whose address the exporter could not insert.                      *)
Addressed(owner) == owner.addressed
ReadUsers(f) == SelectSeq(f.users, Addressed)
ReadBreweries(f) == SelectSeq(f.breweries, Addressed)

Cities == file.cities
Users == ReadUsers(file)
Breweries == ReadBreweries(file)

(* Sequences, and the foreign key of an address to its city.               *)
ASSUME FilesAssumption ==
  /\ Stranger \notin Runs
  /\ \A f \in Files :
       /\ Len(f.cities) \in Nat /\ DOMAIN f.cities = 1 .. Len(f.cities)
       /\ Len(ReadUsers(f)) \in Nat /\ DOMAIN ReadUsers(f) = 1 .. Len(ReadUsers(f))
       /\ Len(ReadBreweries(f)) \in Nat
       /\ DOMAIN ReadBreweries(f) = 1 .. Len(ReadBreweries(f))
       /\ \A b \in DOMAIN ReadBreweries(f) : ReadBreweries(f)[b].city \in DOMAIN f.cities

(* Where the four loops go on, each with its entry i.                      *)
AtBreweries(i) == IF Len(Users) = 0 THEN <<"failed", 0>>
                  ELSE IF i \in DOMAIN Breweries THEN <<"find", i>> ELSE <<"ok", 0>>
AtCities(i) == IF i \in DOMAIN Cities THEN <<"country", i>> ELSE AtBreweries(1)
AtAvatars(i) == IF i \in DOMAIN Users THEN <<"bio", i>> ELSE AtCities(1)
AtUsers(i) == IF i \in DOMAIN Users THEN <<"register", i>> ELSE AtAvatars(1)

Index(r) == at[r][2]
GoTo(r, place) == at' = [at EXCEPT ![r] = place]
Step(r, step) == GoTo(r, <<step, Index(r)>>)
Fail(r) == GoTo(r, <<"failed", 0>>)
Throw(r) == Fail(r) /\ UNCHANGED <<people, places, post, userIds>>

Init == /\ file \in Files
        /\ account = {} /\ profile = {} /\ bio = {} /\ photo = {} /\ avatar = {}
        /\ country = {} /\ province = {} /\ city = {}
        /\ post = <<>>
        /\ at = [r \in Runs |-> <<"idle", 0>>]
        /\ userIds = [r \in Runs |-> <<>>]
        /\ killed = {}
        /\ strangers = 0

Begin(r) == /\ at[r][1] = "idle"
            /\ GoTo(r, AtUsers(1))
            /\ UNCHANGED <<people, places, post, userIds>>

-----------------------------------------------------------------------------
(* RegisterUserCommand.  The queries of UserManager and the unique keys    *)
(* agree: the name must be free.  Account and credential are one           *)
(* transaction, the profile is another.                                    *)
UserName(r) == Users[Index(r)].name
Taken(name) == \E row \in account : row.name = name
Row(r) == [name |-> UserName(r), by |-> r]

(* Slip: a seeder that passes over the users that are there already.       *)
RegistersOrSkips(r) ==
  /\ at[r][1] = "register"
  /\ \/ /\ Taken(UserName(r))
        /\ userIds' = [userIds EXCEPT ![r] =
                         Append(@, CHOOSE row \in account : row.name = UserName(r))]
        /\ GoTo(r, AtUsers(Index(r) + 1))
        /\ UNCHANGED <<people, places, post>>
     \/ /\ ~Taken(UserName(r))
        /\ account' = account \cup {Row(r)}
        /\ Step(r, "profile")
        /\ UNCHANGED <<profile, bio, photo, avatar, places, post, userIds>>

Registers(r) ==
  /\ at[r][1] = "register"
  /\ \/ Taken(UserName(r)) /\ Throw(r)
     \/ /\ ~Taken(UserName(r))
        /\ account' = account \cup {Row(r)}
        /\ Step(r, "profile")
        /\ UNCHANGED <<profile, bio, photo, avatar, places, post, userIds>>

CreatesProfile(r) ==
  /\ at[r][1] = "profile"
  /\ profile' = profile \cup {Row(r)}
  /\ userIds' = [userIds EXCEPT ![r] = Append(@, Row(r))]
  /\ GoTo(r, AtUsers(Index(r) + 1))
  /\ UNCHANGED <<account, bio, photo, avatar, places, post>>

-----------------------------------------------------------------------------
(* LoadAvatarsIntoDatabaseAsync: UpdateBiographyCommand, then              *)
(* UploadAvatarCommand, which stores a photo before the avatar.            *)
UserId(r) == userIds[r][Index(r)]

UpdatesBiography(r) ==
  /\ at[r][1] = "bio"
  /\ bio' = bio \cup ({UserId(r)} \cap profile)
  /\ IF UserId(r) \in profile THEN Step(r, "photo") ELSE Fail(r)
  /\ UNCHANGED <<account, profile, photo, avatar, places, post, userIds>>

UploadsPhoto(r) ==
  /\ at[r][1] = "photo"
  /\ photo' = photo \cup {UserId(r)}
  /\ Step(r, "avatar")
  /\ UNCHANGED <<account, profile, bio, avatar, places, post, userIds>>

SavesAvatar(r) ==
  /\ at[r][1] = "avatar"
  /\ avatar' = avatar \cup ({UserId(r)} \cap profile)
  /\ IF UserId(r) \in profile THEN GoTo(r, AtAvatars(Index(r) + 1)) ELSE Fail(r)
  /\ UNCHANGED <<account, profile, bio, photo, places, post, userIds>>

-----------------------------------------------------------------------------
(* LoadCitiesIntoDatabaseAsync.  The two dictionaries of a run only save   *)
(* queries: rows of Geolocation are never deleted.                         *)
City(r) == Cities[Index(r)]

FindsCountry(r) ==
  /\ at[r][1] = "country"
  /\ Step(r, IF City(r).country \in country THEN "province" ELSE "newCountry")
  /\ UNCHANGED <<people, places, post, userIds>>

CreatesCountry(r) ==
  /\ at[r][1] = "newCountry"
  /\ \/ City(r).country \in country /\ Throw(r)
     \/ /\ City(r).country \notin country
        /\ country' = country \cup {City(r).country}
        /\ Step(r, "province")
        /\ UNCHANGED <<people, province, city, post, userIds>>

(* Slip: the query for a province is forgotten.                            *)
FindsNoProvince(r) ==
  /\ at[r][1] = "province"
  /\ Step(r, "newProvince")
  /\ UNCHANGED <<people, places, post, userIds>>

FindsProvince(r) ==
  /\ at[r][1] = "province"
  /\ Step(r, IF \E p \in province : p.code = City(r).code THEN "city" ELSE "newProvince")
  /\ UNCHANGED <<people, places, post, userIds>>

Province(r) == [code |-> City(r).code, name |-> City(r).province, country |-> City(r).country]

(* AK_StateProvince_ISO3166_2 and AK_StateProvince_Country.                *)
ProvinceCollides(r) ==
  \E p \in province : \/ p.code = Province(r).code
                      \/ p.name = Province(r).name /\ p.country = Province(r).country

CreatesProvince(r) ==
  /\ at[r][1] = "newProvince"
  /\ \/ ProvinceCollides(r) /\ Throw(r)
     \/ /\ ~ProvinceCollides(r)
        /\ province' = province \cup {Province(r)}
        /\ Step(r, "city")
        /\ UNCHANGED <<people, country, city, post, userIds>>

CityRow(c) == [name |-> c.name, code |-> c.code]

CreatesCity(r) ==
  /\ at[r][1] = "city"
  /\ \/ CityRow(City(r)) \in city /\ Throw(r)
     \/ /\ CityRow(City(r)) \notin city
        /\ city' = city \cup {CityRow(City(r))}
        /\ GoTo(r, AtCities(Index(r) + 1))
        /\ UNCHANGED <<people, country, province, post, userIds>>

-----------------------------------------------------------------------------
(* LoadBreweriesIntoDatabaseAsync: GetCityQuery by name and code, then     *)
(* CreateBreweryCommand for the users in turn, post and location in one    *)
(* transaction.                                                            *)
Brewery(r) == Breweries[Index(r)]
CityOf(brewery) == Cities[brewery.city]
(* Slip: the query for a city forgets the province.                        *)
MatchesName(row, c) == row.name = c.name

Matches(row, c) == row = CityRow(c)

Poster(r) == userIds[r][((Index(r) - 1) % Len(userIds[r])) + 1]

FindsCity(r) ==
  /\ at[r][1] = "find"
  /\ IF \E row \in city : Matches(row, CityOf(Brewery(r))) THEN Step(r, "post") ELSE Fail(r)
  /\ UNCHANGED <<people, places, post, userIds>>

(* CreateAsync looks for the user and for the city again.                  *)
PostsBrewery(r) ==
  /\ at[r][1] = "post"
  /\ \E row \in city :
       /\ Matches(row, CityOf(Brewery(r)))
       /\ post' = IF Poster(r) \notin account THEN post
                  ELSE Append(post, [brewery |-> Index(r), poster |-> Poster(r),
                                     city |-> row, by |-> r])
  /\ IF Poster(r) \in account THEN GoTo(r, AtBreweries(Index(r) + 1)) ELSE Fail(r)
  /\ UNCHANGED <<people, places, userIds>>

-----------------------------------------------------------------------------
(* A signal, a lost connection or a crash between two statements, or       *)
(* before the answer to one has arrived: Main returns 1, or never returns. *)
Dies(r) == /\ at[r][1] \in Steps
           /\ Throw(r)
           /\ killed' = killed \cup {r}
           /\ UNCHANGED <<file, strangers>>

StrangerRegisters ==
  /\ strangers < MaxStrangers
  /\ strangers' = strangers + 1
  /\ \E i \in DOMAIN Users :
       /\ ~Taken(Users[i].name)
       /\ account' = account \cup {[name |-> Users[i].name, by |-> Stranger]}
       /\ profile' = profile \cup {[name |-> Users[i].name, by |-> Stranger]}
  /\ UNCHANGED <<file, bio, photo, avatar, places, post, at, userIds, killed>>

(* Seeded accounts stay: nobody knows their 64 random characters.          *)
StrangerLeaves ==
  /\ \E row \in account : /\ row.by = Stranger
                          /\ account' = account \ {row}
                          /\ profile' = profile \ {row}
  /\ UNCHANGED <<file, bio, photo, avatar, places, post, at, userIds, killed, strangers>>

Run(r) == /\ \/ Begin(r) \/ Registers(r) \/ CreatesProfile(r)
             \/ UpdatesBiography(r) \/ UploadsPhoto(r) \/ SavesAvatar(r)
             \/ FindsCountry(r) \/ CreatesCountry(r)
             \/ FindsProvince(r) \/ CreatesProvince(r) \/ CreatesCity(r)
             \/ FindsCity(r) \/ PostsBrewery(r)
          /\ UNCHANGED <<file, killed, strangers>>

SeedNext == \/ \E r \in Runs : Run(r) \/ Dies(r)
            \/ StrangerRegisters \/ StrangerLeaves

SeedSpec == Init /\ [][SeedNext]_vars

-----------------------------------------------------------------------------
(* Only one run ever gets accounts, so only one gets to breweries, and no  *)
(* brewery of the file is posted twice, however often the seeder is        *)
(* started and wherever it dies: the unique name of the first user is all  *)
(* that stands between a second run and a second copy of everything        *)
(* (docs/web/docker.md: "the next run fails").                             *)
NothingTwice ==
  /\ \A a, b \in account : {a.by, b.by} \subseteq Runs => a.by = b.by
  /\ \A i, j \in DOMAIN post : post[i].brewery = post[j].brewery => i = j

(* When Main returns 0, the database holds the whole file: an account of   *)
(* this run with profile, biography and avatar for every user, every city  *)
(* under its province, and every brewery, posted by the users in turn, in  *)
(* the city that the file says; though each command found by a query what  *)
(* an earlier one had made.                                                *)
SuccessIsWholeFile ==
  \A r \in Runs : at[r][1] = "ok" =>
    /\ \A u \in DOMAIN Users :
         [name |-> Users[u].name, by |-> r] \in account \cap profile \cap bio \cap avatar
    /\ \A c \in DOMAIN Cities : CityRow(Cities[c]) \in city
    /\ \A b \in DOMAIN Breweries : \E i \in DOMAIN post :
         post[i] = [brewery |-> b, by |-> r, city |-> CityRow(CityOf(Breweries[b])),
                    poster |-> [name |-> Users[((b - 1) % Len(Users)) + 1].name, by |-> r]]

(* What the tables of the API ask of a file beyond those of the pipeline:  *)
(* names unlike each other, cities unlike in name and code, provinces of a *)
(* country unlike in name.                                                 *)
Loadable ==
  /\ Len(Users) > 0
  /\ \A i, j \in DOMAIN Users : Users[i].name = Users[j].name => i = j
  /\ \A i, j \in DOMAIN Cities :
       /\ CityRow(Cities[i]) = CityRow(Cities[j]) => i = j
       /\ Cities[i].province = Cities[j].province /\ Cities[i].country = Cities[j].country
            => Cities[i].code = Cities[j].code

(* A run fails for a reason only: it was killed, the file cannot be loaded, *)
(* a stranger or another run was there.  A file that can be loaded never   *)
(* runs into a row that the same run has made itself.                      *)
FailsForAReason ==
  \A r \in Runs : at[r][1] = "failed" =>
    \/ r \in killed
    \/ ~Loadable
    \/ strangers > 0
    \/ \E s \in Runs \ {r} : at[s][1] # "idle"
=============================================================================
