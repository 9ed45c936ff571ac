----------------------------- MODULE MarketPages -----------------------------
(***************************************************************************)
(* What a page shows of the backend's data: the hooks useMarkets (the list,*)
(* for some filters), usePlatformStats (sums over it) and useMarket (one    *)
(* market) of frontend/src/hooks, over apiFetch                            *)
(* (frontend/src/services/api.ts).  The hook in use is chosen in the initial*)
(* state; a key is what it asks for, filters or a market id.                *)
(*                                                                         *)
(* A request is read by the backend and answered later, so answers arrive  *)
(* in any order.  apiFetch gives up after ten seconds, and the next request*)
(* follows sixty, thirty or, for one market, ten seconds later.             *)
(***************************************************************************)
EXTENDS Naturals

CONSTANTS
    Keys,
    MaxFetches,     \* bound: requests under way
    MaxMoves,        \* bound: what the user does
    MaxPageFaults    \* bound: requests that fail

Slots == 1..MaxFetches
Statuses == <<"open", "locked", "resolved">>
Live(i) == i < 3       \* Statuses[i] is open or locked: the page polls
Nothing == [key |-> "none", row |-> 0]
Free == [key |-> "none", by |-> "none", answer |-> 0]

VARIABLES
    hook,        \* "useMarkets", "usePlatformStats" or "useMarket"
    stored,      \* the backend's row for each key, an index of Statuses
    shownKey,    \* the key the hook was last called with
    fetches,     \* its requests
    shown,       \* what the page shows
    error,
    polling,     \* an interval is set
    moves, pageFaults

pageVars == <<hook, stored, shownKey, fetches, shown, error, polling, moves,
              pageFaults>>

(* Hooks whose interval begins with the page and ends with it, and that     *)
(* show whatever arrives.  usePlatformStats asks for one thing only.        *)
Steady == {"useMarkets", "usePlatformStats"}

Request(k, who) ==
    /\ \E r \in Slots : fetches[r] = Free
    /\ LET r == CHOOSE r \in Slots : fetches[r] = Free
       IN fetches' = [fetches EXCEPT ![r] = [key |-> k, by |-> who, answer |-> 0]]

PageInit ==
    /\ hook \in Steady \cup {"useMarket"}
    /\ stored = [k \in Keys |-> 1]
    /\ shownKey \in Keys
    /\ fetches = [[r \in Slots |-> Free] EXCEPT
                      ![1] = [key |-> shownKey, by |-> "load", answer |-> 0]]
    /\ shown = Nothing /\ error = FALSE
    /\ polling = (hook \in Steady)
    /\ moves = 0 /\ pageFaults = 0

-----------------------------------------------------------------------------
(* The key changes: the effect's cleanup clears the interval, and the effect*)
(* asks anew.  useMarket sets an interval only when that answer has come,  *)
(* and its cleanup marks what the old effect has under way as cancelled.   *)
Navigate(k) ==
    /\ moves < MaxMoves /\ k # shownKey /\ hook # "usePlatformStats"
    /\ moves' = moves + 1
    /\ shownKey' = k
    /\ LET kept == [r \in Slots |->
                      IF hook = "useMarket" /\ fetches[r].by \in {"load", "poll"}
                      THEN [fetches[r] EXCEPT !.by = "cancelled"] ELSE fetches[r]]
       IN \E r \in Slots :
             /\ kept[r] = Free /\ \A q \in 1..r - 1 : kept[q] # Free
             /\ fetches' = [kept EXCEPT ![r] = [key |-> k, by |-> "load", answer |-> 0]]
    /\ polling' = (hook \in Steady)
    /\ UNCHANGED <<hook, stored, shown, error, pageFaults>>

(* refetch of useMarkets, and useMarket's listener for a claim's success,   *)
(* which blanks the page first and whose request nothing cancels.           *)
Refresh ==
    /\ moves < MaxMoves /\ hook # "usePlatformStats"
    /\ moves' = moves + 1
    /\ Request(shownKey, "refresh")
    /\ shown' = IF hook = "useMarket" THEN Nothing ELSE shown
    /\ UNCHANGED <<hook, stored, shownKey, error, polling, pageFaults>>

(* The interval.  (A mutant has none.)                                      *)
Unset == FALSE
Due == polling

Poll ==
    /\ Due
    /\ Request(shownKey, "poll")
    /\ UNCHANGED <<hook, stored, shownKey, shown, error, polling, moves, pageFaults>>

(* External: the backend's data change, and the backend reads them.         *)
Change(k) ==
    /\ Live(stored[k])
    /\ stored' = [stored EXCEPT ![k] = @ + 1]
    /\ UNCHANGED <<hook, shownKey, fetches, shown, error, polling, moves, pageFaults>>

Serve(r) ==
    /\ fetches[r] # Free /\ fetches[r].answer = 0
    /\ fetches' = [fetches EXCEPT ![r].answer = stored[fetches[r].key]]
    /\ UNCHANGED <<hook, stored, shownKey, shown, error, polling, moves, pageFaults>>

-----------------------------------------------------------------------------
Drop(r) == fetches' = [fetches EXCEPT ![r] = Free]

(* fetchAndUpdate of useMarkets, load of usePlatformStats.                  *)
ListAnswer(r) ==
    /\ shown' = [key |-> fetches[r].key, row |-> fetches[r].answer]
    /\ error' = FALSE
    /\ UNCHANGED polling

(* useMarket: the first answer starts the interval while the market is open*)
(* or locked; an interval's answer ends it when it no longer is, and leaves*)
(* an earlier error on the page.                                           *)
PageAnswer(r) ==
    IF fetches[r].by = "cancelled" THEN UNCHANGED <<shown, error, polling>>
    ELSE /\ shown' = [key |-> fetches[r].key, row |-> fetches[r].answer]
         /\ error' = (fetches[r].by = "poll" /\ error)
         /\ polling' = CASE fetches[r].by = "load" ->
                               polling \/ Live(fetches[r].answer)
                         [] fetches[r].by = "poll" ->
                               polling /\ Live(fetches[r].answer)
                         [] OTHER -> polling

Answer(r) ==
    /\ fetches[r].answer # 0
    /\ Drop(r)
    /\ IF hook \in Steady THEN ListAnswer(r) ELSE PageAnswer(r)
    /\ UNCHANGED <<hook, stored, shownKey, moves, pageFaults>>

(* apiFetch throws: a timeout, no connection, a status that is not a        *)
(* success.                                                                 *)
FetchFails(r) ==
    /\ fetches[r] # Free /\ pageFaults < MaxPageFaults
    /\ pageFaults' = pageFaults + 1
    /\ Drop(r)
    /\ error' = (error \/ fetches[r].by # "cancelled")
    /\ UNCHANGED <<hook, stored, shownKey, shown, polling, moves>>

PageNext ==
    \/ Refresh \/ Poll
    \/ \E k \in Keys : Navigate(k) \/ Change(k)
    \/ \E r \in Slots : Serve(r) \/ Answer(r) \/ FetchFails(r)

(* The interval fires or some request ends (apiFetch gives each ten         *)
(* seconds), as long as one can.                                            *)
PageProgress == Poll \/ \E r \in Slots : Serve(r) \/ Answer(r)

PageSpec == PageInit /\ [][PageNext]_pageVars /\ WF_pageVars(PageProgress)

-----------------------------------------------------------------------------
(* Properties *)

(* However answers overtake each other, and whatever was asked for before,  *)
(* a page that polls comes to show the backend's row for its key and goes on*)
(* showing it; the hooks that always poll also without an error.            *)
PagesCatchUp ==
    <>[](polling => /\ shown = [key |-> shownKey, row |-> stored[shownKey]]
                    /\ hook \in Steady => ~error)
==============================================================================
