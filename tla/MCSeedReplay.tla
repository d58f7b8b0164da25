---------------------------- MODULE MCSeedReplay ----------------------------
(* Two or three runs over files of three cities, two users and three       *)
(* breweries.                                                              *)
EXTENDS SeedReplay, TLC

CONSTANTS r1, r2, r3

AnyRun == {r1, r2, r3}
Symmetry == Permutations(AnyRun)

User(name, addressed) == [name |-> name, addressed |-> addressed]
Place(name, region, code) ==
  [name |-> name, province |-> region, code |-> code, country |-> "GB"]

(* Two users; two with one name; one whose address is missing; none.       *)
UserLists == {<<User("ann", TRUE), User("bob", TRUE)>>,
              <<User("ann", TRUE), User("ann", TRUE)>>,
              <<User("bob", FALSE), User("ann", TRUE)>>,
              <<>>}

(* Two cities of one name and two of one province; the same city twice for *)
(* the API; two provinces of one name.                                     *)
CityLists == {<<Place("Ashford", "Kent", "KEN"), Place("Dover", "Kent", "KEN"),
                Place("Ashford", "Surrey", "SRY")>>,
              <<Place("Ashford", "Kent", "KEN"), Place("Ashford", "Kent County", "KEN")>>,
              <<Place("Dover", "Kent", "KEN"), Place("Deal", "Kent", "KET")>>}

(* One brewery for each city; the address of one may be missing.           *)
BreweriesOf(cities, orphan) ==
  [i \in DOMAIN cities |-> [city |-> i, addressed |-> i # orphan]]

SomeFiles == {[users |-> u, cities |-> c, breweries |-> BreweriesOf(c, o)] :
              u \in UserLists, c \in CityLists, o \in {0, 2}}
=============================================================================
