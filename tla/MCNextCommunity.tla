--------------------------- MODULE MCNextCommunity ---------------------------
(***************************************************************************)
(* A small community for TLC: a brewery at a location that another user    *)
(* posted, as the seeding leaves it, a beer and a style on it, a comment   *)
(* on the beer, and three likes of one user; a browser tab of the other    *)
(* user on the beer and one of his own on the brewery.                     *)
(***************************************************************************)
EXTENDS NextLikeButton, TLC

CONSTANTS ann, bob, brewery, beer, style, glass, place, remark, like1, like2, like3,
          beerTab, breweryTab

SeedRow(i, kind, u, on, ref) ==
  [id |-> i, kind |-> kind, by |-> u, on |-> on, ref |-> ref, edits |-> 0]

SmallSeed ==
  {SeedRow(glass, "glassware", ann, {}, NoRow),
   SeedRow(style, "style", bob, {glass}, NoRow),
   SeedRow(place, "location", bob, {}, NoRow),
   SeedRow(brewery, "brewery", ann, {}, place),
   SeedRow(beer, "beer", bob, {brewery, style}, NoRow),
   SeedRow(remark, "comment", bob, {beer}, NoRow)}
    \cup {SeedRow(i, "like", bob, {beer}, NoRow) : i \in {like1, like2, like3}}

SlotSymmetry == Permutations(Slots)

TwoTabs(x, y) == [t \in Tabs |-> IF t = beerTab THEN x ELSE y]
TwoTabUsers == TwoTabs(ann, bob)
TwoTabPosts == TwoTabs(beer, brewery)
TwoTabKinds == TwoTabs("beer", "brewery")
=============================================================================
