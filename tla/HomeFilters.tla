----------------------------- MODULE HomeFilters -----------------------------
(***************************************************************************)
(* The filters of the home page (MarketFilters.tsx, app/page.tsx), which   *)
(* live in its URL.  A choice replaces the URL that the page was rendered  *)
(* with; what is typed in the search box replaces, 300 ms later, the one it *)
(* was rendered with when it was typed.  The router is external: it takes   *)
(* its time, and a later navigation takes the place of one under way.  One  *)
(* parameter, the status, stands for the other filters.                     *)
(*                                                                         *)
(* The page hands status and page to useMarkets, whose list is asked for    *)
(* when they change and every half minute.  It never reads the search term: *)
(* what is typed reaches the URL and no further.                            *)
(***************************************************************************)
EXTENDS Naturals

CONSTANTS
    Terms,         \* what can be searched for
    TotalPages,
    MaxClicks      \* bound: what the user does

Home == [search |-> "", status |-> "", page |-> 1]
Nowhere == [search |-> "nowhere", status |-> "", page |-> 0]
NoTimer == [search |-> "none", from |-> Home]

(* What useMarkets is called with on the page at u.                         *)
Filters(u) == [status |-> u.status, page |-> u.page]

VARIABLES
    url,
    going,         \* the navigation under way
    searchInput,   \* what the box shows
    debounce,      \* the timer, with the URL its closure has
    asked,         \* the lists asked for
    listed,        \* the list that is shown, or the skeleton of the first
    overtaken,     \* history: a navigation took the place of another
    clicks

filterVars == <<url, going, searchInput, debounce, asked, listed, overtaken,
                clicks>>

FilterInit ==
    /\ url = Home /\ going = Nowhere
    /\ searchInput = ""
    /\ debounce = NoTimer
    /\ asked = {Filters(Home)} /\ listed = Filters(Nowhere)
    /\ overtaken = FALSE
    /\ clicks = 0

-----------------------------------------------------------------------------
Go(to) ==
    /\ going' = to
    /\ overtaken' = (overtaken \/ going # Nowhere)

(* setParam: a filter that is set puts the page back to the first.          *)
SetStatus(from, status) == Go([from EXCEPT !.status = status, !.page = 1])
SetSearch(from, search) == Go([from EXCEPT !.search = search, !.page = 1])
SetPage(from, page) == Go([from EXCEPT !.page = page])

Click == clicks < MaxClicks /\ clicks' = clicks + 1

PickStatus(status) ==
    /\ Click /\ status # url.status
    /\ SetStatus(url, status)
    /\ UNCHANGED <<url, searchInput, debounce, asked, listed>>

TypeSearch(search) ==
    /\ Click /\ search # searchInput
    /\ searchInput' = search
    /\ debounce' = [search |-> search, from |-> url]
    /\ UNCHANGED <<url, going, asked, listed, overtaken>>

Debounced ==
    /\ debounce # NoTimer
    /\ debounce' = NoTimer
    /\ SetSearch(debounce.from, debounce.search)
    /\ UNCHANGED <<url, searchInput, asked, listed, clicks>>

(* The buttons below the list.                                              *)
TurnPage(page) ==
    /\ Click /\ page \in {url.page - 1, url.page + 1} \cap 1..TotalPages
    /\ SetPage(url, page)
    /\ UNCHANGED <<url, searchInput, debounce, asked, listed>>

(* The header's link, or the browser's history.                             *)
FollowLink ==
    /\ Click
    /\ Go(Home)
    /\ UNCHANGED <<url, searchInput, debounce, asked, listed>>

(* The effect on the URL's search term puts it in the box.  (A mutant leaves*)
(* the box alone.)                                                          *)
KeepBox(to) == searchInput
BoxAfter(to) == IF to.search # url.search THEN to.search ELSE searchInput

Arrive ==
    /\ going # Nowhere
    /\ url' = going
    /\ going' = Nowhere
    /\ searchInput' = BoxAfter(going)
    /\ asked' = IF Filters(going) = Filters(url) THEN asked
                                                ELSE asked \cup {Filters(going)}
    /\ UNCHANGED <<debounce, listed, overtaken, clicks>>

(* useMarkets: the interval, begun again whenever the filters change.  (A   *)
(* mutant keeps the filters that the first of them was begun with.)         *)
FirstFilters == Filters(Home)
PolledFilters == Filters(url)

Poll ==
    /\ PolledFilters \notin asked
    /\ asked' = asked \cup {PolledFilters}
    /\ UNCHANGED <<url, going, searchInput, debounce, listed, overtaken, clicks>>

(* Answers come in any order, and the last to come is shown.  One that fails*)
(* leaves the list as it is.                                                *)
Answer(f) ==
    /\ f \in asked
    /\ asked' = asked \ {f}
    /\ listed' = f
    /\ UNCHANGED <<url, going, searchInput, debounce, overtaken, clicks>>

AnswerFails(f) ==
    /\ f \in asked
    /\ asked' = asked \ {f}
    /\ UNCHANGED <<url, going, searchInput, debounce, listed, overtaken, clicks>>

FilterNext ==
    \/ Debounced \/ Arrive \/ FollowLink \/ Poll
    \/ \E f \in asked : Answer(f) \/ AnswerFails(f)
    \/ \E status \in {"", "open"} : PickStatus(status)
    \/ \E search \in Terms \cup {""} : TypeSearch(search)
    \/ \E page \in 1..TotalPages : TurnPage(page)

(* The timer fires, and navigations end; the interval goes on, and requests *)
(* that are made again and again are answered at last (apiFetch gives a     *)
(* request up after ten seconds, before the next one).                      *)
Settling == Debounced \/ Arrive
Answered == \E f \in asked : Answer(f)

FilterSpec ==
    /\ FilterInit /\ [][FilterNext]_filterVars
    /\ WF_filterVars(Settling) /\ WF_filterVars(Poll) /\ SF_filterVars(Answered)

-----------------------------------------------------------------------------
(* Properties *)

(* However typing, timers, navigations and answers interleave: box and URL  *)
(* come to agree, unless a navigation overtook another, and the list comes  *)
(* to be the one of the URL's status and page.  Of the search term it is    *)
(* not: that term narrows no list.                                          *)
SearchSettles ==
    <>[](/\ url.search = searchInput \/ overtaken
         /\ listed = Filters(url))
==============================================================================
