--------------------------- MODULE NextLikeButton ---------------------------
(***************************************************************************)
(* The like button of the archived application beside its API: browser     *)
(* tabs that show one post each, with BeerPostLikeButton, BeerStyleLike-   *)
(* Button or BreweryPostLikeButton and the SWR cache of the like status.   *)
(* A click posts the toggle, then has SWR fetch count and status again.    *)
(* Requests that no tab waits for come from other pages and programs.      *)
(***************************************************************************)
EXTENDS NextCommunity

CONSTANTS Tabs,
          TabUser,  \* who is logged in: the user of each tab
          TabPost,  \* the seeded post it shows
          TabKind,  \* and its kind
          NoTab,
          MaxWork   \* bound: a request counts two; opening a tab, a click
                    \* and a revalidation one each

ASSUME TabsShowPosts ==
  /\ NoTab \notin Tabs
  /\ \A t \in Tabs :
       /\ TabUser[t] \in Users /\ TabKind[t] \in PostKinds
       /\ \E p \in SeedRows : p.id = TabPost[t] /\ p.kind = TabKind[t]

VARIABLES waiter,   \* the tab that awaits the answer of a request, or NoTab
          shown,    \* useSWR's data: isLiked, "none" while undefined
          failed,   \* useSWR's error: the last fetch it accepted has failed
          loading,  \* useState of the button: it is disabled
          fetch,    \* the status fetch in flight that SWR would accept
          settling, \* handlers that await the two mutations
          unsure,   \* it has lost an answer, or something else made or took
                    \* its user's likes of the post
          work      \* what counts towards MaxWork so far

uiVars == <<waiter, shown, failed, loading, fetch, settling, unsure, work>>
allVars == <<vars, uiVars>>

(* by: what began the fetch; val: what the server has read for it *)
NoFetch == [by |-> "none", val |-> "none"]
Sent(by) == [by |-> by, val |-> "none"]

UIInit ==
  /\ CommunityInit
  /\ waiter = [s \in Slots |-> NoTab]
  /\ shown = [t \in Tabs |-> "none"]
  /\ failed = [t \in Tabs |-> FALSE]
  /\ loading = [t \in Tabs |-> FALSE]
  /\ fetch = [t \in Tabs |-> NoFetch]
  /\ settling = [t \in Tabs |-> 0]
  /\ unsure = [t \in Tabs |-> FALSE]
  /\ work = 0

(* The page of the post is shown, and with it the button, which fetches. *)
IsOpen(t) == fetch[t] # NoFetch \/ failed[t] \/ shown[t] # "none"
Open(t) ==
  /\ work < MaxWork
  /\ work' = work + 1
  /\ ~IsOpen(t)
  /\ fetch' = [fetch EXCEPT ![t] = Sent("mount")]
  /\ UNCHANGED <<vars, waiter, shown, failed, loading, settling, unsure>>

(* handleLike: the button is not disabled. *)
Click(t, s) ==
  /\ work < MaxWork
  /\ IsOpen(t)
  /\ ~loading[t]
  /\ Submit(s, "like", TabKind[t], TabUser[t], {TabPost[t]})
  /\ waiter' = [waiter EXCEPT ![s] = t]
  /\ loading' = [loading EXCEPT ![t] = TRUE]
  /\ work' = work + 1
  /\ unsure' = [x \in Tabs |->
       unsure[x] \/ (x # t /\ TabUser[x] = TabUser[t] /\ TabPost[x] = TabPost[t])]
  /\ UNCHANGED <<served, shown, failed, fetch, settling>>

(* mutate() joins the fetch in flight. *)
AnsweredJoinsFetch(t, s) ==
  /\ waiter[s] = t
  /\ req[s].at = "done"
  /\ Finish(s)
  /\ waiter' = [waiter EXCEPT ![s] = NoTab]
  /\ fetch' = [fetch EXCEPT ![t] = IF @ = NoFetch THEN Sent("click") ELSE @]
  /\ settling' = [settling EXCEPT ![t] = @ + 1]
  /\ UNCHANGED <<shown, failed, loading, unsure, work>>

(* sendBreweryPostLikeRequest never looks at response.ok: an error, which  *)
(* is as good JSON as any answer, passes for success.  Those of beers and  *)
(* styles throw.                                                           *)
TakenForSuccess(t, s) == req[s].code = 200 \/ TabKind[t] = "brewery"

(* The answer arrives: mutate() starts a fetch that supersedes the one in  *)
(* flight.  An error that is noticed only enables the button.              *)
Answered(t, s) ==
  /\ waiter[s] = t
  /\ req[s].at = "done"
  /\ Finish(s)
  /\ waiter' = [waiter EXCEPT ![s] = NoTab]
  /\ IF TakenForSuccess(t, s)
     THEN /\ fetch' = [fetch EXCEPT ![t] = Sent("click")]
          /\ settling' = [settling EXCEPT ![t] = @ + 1]
          /\ UNCHANGED loading
     ELSE /\ loading' = [loading EXCEPT ![t] = FALSE]
          /\ UNCHANGED <<fetch, settling>>
  /\ UNCHANGED <<shown, failed, unsure, work>>

(* fetch() rejects: the connection is lost, the server may go on. *)
AnswerLost(t, s) ==
  /\ waiter[s] = t
  /\ waiter' = [waiter EXCEPT ![s] = NoTab]
  /\ loading' = [loading EXCEPT ![t] = FALSE]
  /\ unsure' = [unsure EXCEPT ![t] = TRUE]
  /\ UNCHANGED <<vars, shown, failed, fetch, settling, work>>

(* checkIfBeerPostIsLiked and its brewery sibling look for a like of the   *)
(* post.  checkIfBeerStyleIsLiked reads req.query.id, which its route does *)
(* not have: Prisma ignores the undefined filter.                          *)
IsLiked(t) ==
  IF TabKind[t] = "style"
  THEN \E r \in Rows("like") : r.by = TabUser[t]
                               /\ \E p \in Rows("style") : r.on = {p.id}
  ELSE LikesOf(TabUser[t], TabPost[t]) # {}

(* The fetcher of the hook throws when the connection is lost, when the    *)
(* session is, and on any answer but a good one; the server has none for a *)
(* user who is gone.                                                       *)
StatusRead(t) ==
  /\ fetch[t].by # "none" /\ fetch[t].val = "none"
  /\ \E val \in {"error"} \cup IF TabUser[t] \notin users THEN {}
                             ELSE {IF IsLiked(t) THEN "liked" ELSE "unliked"} :
       fetch' = [fetch EXCEPT ![t].val = val]
  /\ UNCHANGED <<vars, waiter, shown, failed, loading, settling, unsure, work>>

(* SWR stores the data, or the error beside the data it has.  The effect   *)
(* on isLiked enables the button, also while a handler still runs; the     *)
(* brewery's button has no such effect.  None of them reads the error.     *)
StatusArrives(t) ==
  /\ fetch[t].val # "none"
  /\ failed' = [failed EXCEPT ![t] = fetch[t].val = "error"]
  /\ IF fetch[t].val = "error"
     THEN UNCHANGED <<shown, loading>>
     ELSE /\ shown' = [shown EXCEPT ![t] = fetch[t].val]
          /\ loading' = [loading EXCEPT ![t] =
               IF shown[t] # fetch[t].val /\ TabKind[t] # "brewery" THEN FALSE ELSE @]
  /\ fetch' = [fetch EXCEPT ![t] = NoFetch]
  /\ UNCHANGED <<vars, waiter, settling, unsure, work>>

(* Both mutations of a handler have resolved: its own status fetch is done *)
(* or was superseded, and the count has arrived.                           *)
HandlerEnds(t) ==
  /\ settling[t] > IF fetch[t].by = "click" THEN 1 ELSE 0
  /\ settling' = [settling EXCEPT ![t] = @ - 1]
  /\ loading' = [loading EXCEPT ![t] = FALSE]
  /\ UNCHANGED <<vars, waiter, shown, failed, fetch, unsure, work>>

(* revalidateOnFocus, revalidateOnReconnect and the retry after an error,  *)
(* SWR's defaults: each joins a fetch that is in flight.                   *)
Revalidate(t) ==
  /\ work < MaxWork
  /\ work' = work + 1
  /\ IsOpen(t) /\ fetch[t] = NoFetch
  /\ fetch' = [fetch EXCEPT ![t] = Sent("again")]
  /\ UNCHANGED <<vars, waiter, shown, failed, loading, settling, unsure>>

(* A request from another page or program, and the steps of the handlers,  *)
(* which do not know who waits for them.                                   *)
BeginElsewhere(s) ==
  /\ work + 2 <= MaxWork
  /\ work' = work + 2
  /\ Begin(s)
  /\ unsure' = [t \in Tabs |->
       \/ unsure[t]
       \/ req'[s].op = "like" /\ req'[s].user = TabUser[t] /\ req'[s].on = {TabPost[t]}]
  /\ UNCHANGED <<waiter, shown, failed, loading, fetch, settling>>

(* The PUT of a brewery can take its likes away.                           *)
ServerStep(s) ==
  /\ HandlerStep(s) \/ (waiter[s] = NoTab /\ Finish(s))
  /\ unsure' = [t \in Tabs |->
       \/ unsure[t]
       \/ /\ Route(s, "edit", "brewery")
          /\ LikesOf(TabUser[t], TabPost[t])' # LikesOf(TabUser[t], TabPost[t])]
  /\ UNCHANGED <<waiter, shown, failed, loading, fetch, settling, work>>

UINext ==
  \/ \E s \in Slots : BeginElsewhere(s) \/ ServerStep(s)
  \/ \E t \in Tabs, s \in Slots : Click(t, s) \/ Answered(t, s) \/ AnswerLost(t, s)
  \/ \E t \in Tabs : StatusRead(t) \/ StatusArrives(t) \/ HandlerEnds(t)
                  \/ Open(t) \/ Revalidate(t)

UISpec == UIInit /\ [][UINext]_allVars

-----------------------------------------------------------------------------

(* Nothing is under way: no request of the user, no fetch, and none that   *)
(* has failed and is to be tried again; no answer was lost, and only this  *)
(* button has made or taken the user's likes of this post.                 *)
Quiet(t) ==
  /\ IsOpen(t)
  /\ fetch[t] = NoFetch
  /\ ~failed[t]
  /\ ~unsure[t]
  /\ \A s \in Slots : req[s].user # TabUser[t]

Truthful(t) ==
  Quiet(t) /\ TabUser[t] \in users /\ Has(TabPost[t]) =>
    (shown[t] = "liked" <=> LikesOf(TabUser[t], TabPost[t]) # {})

(* Once a tab is quiet the button of a beer or a brewery tells the truth   *)
(* about the user's likes of it, however clicks, answers and fetches       *)
(* overtook each other, and whichever fetches failed before the last.      *)
ButtonTellsTruth == \A t \in Tabs : TabKind[t] # "style" => Truthful(t)
=============================================================================
