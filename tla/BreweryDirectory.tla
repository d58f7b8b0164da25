-------------------------- MODULE BreweryDirectory --------------------------
(***************************************************************************)
(* The brewery directory of the web frontend, which loads page after page  *)
(* while its last element, the sentinel, is in view, beside the API, whose *)
(* breweries come and go.  A page is addressed by its offset in an order   *)
(* by creation time alone.  React renders what the router has of a fetcher *)
(* before the sentinel can leave and come into view again: an answer and   *)
(* its rendering are one step.                                             *)
(***************************************************************************)
EXTENDS Integers, Sequences, FiniteSets, SequencesExt

CONSTANTS PageSize,
          MaxBorn   \* bound: how many breweries there ever are

ASSUME DirectoryAssumption == PageSize \in Nat \ {0} /\ MaxBorn \in Nat

VARIABLES rows,     \* Brewery.BreweryPost: the breweries that are there
          born,     \* CreatedAt of every brewery that ever was, in order
          page,     \* "absent", "open" or "failed"
          shown,    \* allBreweries
          offset, hasMore,
          fetch,    \* the fetcher: the offset it loads and what has been read
          visible,  \* the sentinel is in view
          notice,   \* the IntersectionObserver owes a callback
          opened, created, deleted  \* history, since the page was opened

server == <<rows, born>>
client == <<page, shown, offset, hasMore, fetch, notice>>
history == <<opened, created, deleted>>
directoryVars == <<server, client, visible, history>>

NotLoading == [at |-> "idle", offset |-> 0, read |-> <<>>]

(* Whether a page was the last one is told by its length. *)
IsOverfull(p) == Len(p) > PageSize
IsFull(p) == Len(p) = PageSize

(* ORDER BY CreatedAt DESC: those of one instant stand in any order. *)
CanStandAt(b, k) ==
  /\ Cardinality({c \in rows : born[c] > born[b]}) < k
  /\ k <= Cardinality({c \in rows : born[c] >= born[b]})

(* OFFSET ... FETCH NEXT ... ROWS ONLY *)
Pages(off) ==
  LET left == Max({0, Cardinality(rows) - off})
  IN  {p \in [1..Min({PageSize, left}) -> rows] :
         /\ IsInjective(p)
         /\ \A j \in DOMAIN p : CanStandAt(p[j], off + j)}

-----------------------------------------------------------------------------

DirectoryInit ==
  /\ \E n \in 0..MaxBorn : born \in [1..n -> 1..n]
  /\ \A i \in DOMAIN born : born[i] \in IF i = 1 THEN {1} ELSE {born[i - 1], born[i - 1] + 1}
  /\ rows = DOMAIN born
  /\ page = "absent" /\ shown = <<>> /\ offset = 0 /\ hasMore = FALSE
  /\ fetch = NotLoading
  /\ visible = FALSE /\ notice = FALSE
  /\ opened = {} /\ created = 0 /\ deleted = 0

(* The server-side loader; the first page is the initial state of the      *)
(* component, whose effect then observes the sentinel.                     *)
Open ==
  /\ page = "absent"
  /\ \E p \in Pages(0) :
       /\ shown' = p
       /\ offset' = Len(p)
       /\ hasMore' = IsFull(p)
  /\ page' = "open"
  /\ notice' = TRUE
  /\ opened' = rows /\ created' = 0 /\ deleted' = 0
  /\ UNCHANGED <<server, fetch, visible>>

(* The user scrolls, or the page grows. *)
Scroll ==
  /\ visible' = ~visible
  /\ notice' = TRUE
  /\ UNCHANGED <<server, page, shown, offset, hasMore, fetch, history>>

(* The callback of the observer: fetcher.load.  The new state of the       *)
(* fetcher runs the effect again, which observes afresh.                   *)
Intersect ==
  /\ page = "open" /\ hasMore /\ notice
  /\ IF visible /\ fetch = NotLoading
     THEN fetch' = [NotLoading EXCEPT !.at = "sent", !.offset = offset] /\ notice' = TRUE
     ELSE notice' = FALSE /\ UNCHANGED fetch
  /\ UNCHANGED <<server, page, shown, offset, hasMore, visible, history>>

(* getBreweries on the server *)
Read ==
  /\ fetch.at = "sent"
  /\ \E p \in Pages(fetch.offset) : fetch' = [fetch EXCEPT !.at = "read", !.read = p]
  /\ UNCHANGED <<server, page, shown, offset, hasMore, visible, notice, history>>

(* The offset stays. *)
AppendKeepsOffset ==
  /\ fetch.at = "read"
  /\ shown' = shown \o fetch.read
  /\ hasMore' = IsFull(fetch.read)
  /\ fetch' = NotLoading
  /\ notice' = TRUE
  /\ UNCHANGED <<server, page, offset, visible, history>>

(* The effect does not depend on the fetcher. *)
AppendObservesNot ==
  /\ fetch.at = "read"
  /\ shown' = shown \o fetch.read
  /\ offset' = offset + Len(fetch.read)
  /\ hasMore' = IsFull(fetch.read)
  /\ fetch' = NotLoading
  /\ UNCHANGED <<server, page, notice, visible, history>>

(* The page that was loaded is appended, and the sentinel observed afresh. *)
AppendPage ==
  /\ fetch.at = "read"
  /\ shown' = shown \o fetch.read
  /\ offset' = offset + Len(fetch.read)
  /\ hasMore' = IsFull(fetch.read)
  /\ fetch' = NotLoading
  /\ notice' = TRUE
  /\ UNCHANGED <<server, page, visible, history>>

(* The API answers with an error or not at all: the error boundary of the  *)
(* route replaces the page.                                                *)
Fail ==
  /\ page = "absent" \/ fetch.at = "sent"
  /\ page' = "failed"
  /\ fetch' = NotLoading
  /\ UNCHANGED <<server, shown, offset, hasMore, visible, notice, history>>

(* CreateBrewery and DeleteBrewery of other users.  CreatedAt does not go  *)
(* back, but ticks slowly.                                                 *)
Create ==
  /\ Len(born) < MaxBorn
  /\ \E t \in IF born = <<>> THEN {1} ELSE {Last(born), Last(born) + 1} :
       born' = Append(born, t)
  /\ rows' = rows \cup {Len(born')}
  /\ created' = created + 1
  /\ UNCHANGED <<client, visible, opened, deleted>>

Delete ==
  /\ \E b \in rows : rows' = rows \ {b}
  /\ deleted' = deleted + 1
  /\ UNCHANGED <<born, client, visible, opened, created>>

DirectoryNext ==
  \/ Open \/ Scroll \/ Intersect \/ Read \/ AppendPage \/ Fail
  \/ Create \/ Delete

(* Browsers deliver callbacks, the API answers or fails. *)
DirectorySpec ==
  /\ DirectoryInit /\ [][DirectoryNext]_directoryVars
  /\ WF_directoryVars(Open) /\ WF_directoryVars(Intersect)
  /\ WF_directoryVars(Read) /\ WF_directoryVars(AppendPage)
-----------------------------------------------------------------------------

(* No two breweries were created in the same instant. *)
Distinct == \A i, j \in DOMAIN born : i # j => born[i] # born[j]

(* A brewery is shown again only because others were created meanwhile,    *)
(* which push it to a later page: not more often than that.                *)
RepeatsAreNewcomers ==
  Distinct => Len(shown) <= Cardinality(ToSet(shown)) + created

(* The directory that ends without a sentinel shows every brewery there    *)
(* was when it was opened and still is, but for as many as were deleted    *)
(* meanwhile, which pull others to an earlier page.                        *)
MissesAreDeletions ==
  Distinct /\ page = "open" /\ ~hasMore =>
    Cardinality((opened \cap rows) \ ToSet(shown)) <= deleted

(* As long as the sentinel stays in view the pages follow each other to    *)
(* the last one, or to the error page.                                     *)
ReachesTheEnd == <>[]visible => <>(page = "failed" \/ (page = "open" /\ ~hasMore))
=============================================================================
