------------------------------ MODULE OddsStream ------------------------------
(***************************************************************************)
(* The stream of a market's odds: streamMarketOdds of the backend's        *)
(* MarketController.ts, which pushes at once and then every five seconds,   *)
(* and the hook useMarketOdds.ts that listens to it.  A push reads the      *)
(* market and then its odds, and may outlast the interval: pushes overlap.  *)
(* A browser that is told of an error, or finds the response ended, closes  *)
(* the stream and does not come back.                                       *)
(***************************************************************************)
EXTENDS Naturals

CONSTANTS
    MaxPushes,       \* bound: pushes under way
    MaxPlaced,       \* bound: bets that change the odds
    MaxPushFaults    \* bound: reads that fail

Slots == 1..MaxPushes
NoPush == [reads |-> "nothing", terminal |-> FALSE, odds |-> 0]

VARIABLES
    settled,      \* the market is resolved or cancelled
    placed,       \* the bets placed, which the odds follow from
    pushes,       \* each with what it reads next, and what it has read
    first,        \* the handler awaits its first push
    timer,        \* the interval is set
    over,         \* res.end() was called
    browser,      \* "open", "left", or told of the "end" or of an "error"
    leftEarly,    \* it left while the handler awaited the first push
    shown,        \* the odds it shows, none before the first
    pushFaults

streamVars == <<settled, placed, pushes, first, timer, over, browser, leftEarly,
                shown, pushFaults>>

(* A push reads the status first.  (A mutant reads it last.)                *)
OddsFirst(read) == CASE read = "nothing" -> "odds"
                     [] read = "odds" -> "market"
                     [] read = "market" -> "nothing"
NextRead(read) == CASE read = "nothing" -> "market"
                    [] read = "market" -> "odds"
                    [] read = "odds" -> "nothing"

StreamInit ==
    /\ settled = FALSE /\ placed = 1
    /\ pushes = [[p \in Slots |-> NoPush] EXCEPT
                     ![1].reads = NextRead("nothing")]
    /\ first = TRUE /\ timer = FALSE /\ over = FALSE
    /\ browser = "open" /\ leftEarly = FALSE
    /\ shown = 0
    /\ pushFaults = 0

-----------------------------------------------------------------------------
(* What follows a push: the handler ends the response, or sets the interval*)
(* and only now listens for the browser's leaving.                          *)
Pushed(done) ==
    /\ first' = FALSE
    /\ timer' = (~done /\ (timer \/ first))
    /\ over' = (over \/ done)

(* The browser gets what is written before the end; an error, or the end,   *)
(* makes it close the stream.  (No odds: the push has failed.)              *)
Delivered(odds) ==
    IF browser # "open" \/ over THEN UNCHANGED <<browser, shown>>
    ELSE /\ shown' = IF odds = 0 THEN shown ELSE odds
         /\ browser' = CASE odds = 0 -> "error"
                         [] odds > 0 /\ over' -> "end"
                         [] OTHER -> browser

Push(p) ==
    LET push == pushes[p]
        read == IF push.reads = "market" THEN [push EXCEPT !.terminal = settled]
                ELSE [push EXCEPT !.odds = placed]
    IN /\ push.reads # "nothing"
       /\ IF NextRead(push.reads) # "nothing"
          THEN /\ pushes' = [pushes EXCEPT ![p] =
                                [read EXCEPT !.reads = NextRead(push.reads)]]
               /\ UNCHANGED <<first, timer, over, browser, shown>>
          ELSE /\ pushes' = [pushes EXCEPT ![p] = NoPush]
               /\ Pushed(read.terminal)
               /\ Delivered(read.odds)
       /\ UNCHANGED <<settled, placed, leftEarly, pushFaults>>

PushFails(p) ==
    /\ pushes[p].reads # "nothing" /\ pushFaults < MaxPushFaults
    /\ pushFaults' = pushFaults + 1
    /\ pushes' = [pushes EXCEPT ![p] = NoPush]
    /\ Pushed(TRUE)
    /\ Delivered(0)
    /\ UNCHANGED <<settled, placed, leftEarly>>

Interval ==
    /\ timer
    /\ \E p \in Slots :
          /\ pushes[p] = NoPush /\ \A q \in 1..p - 1 : pushes[q] # NoPush
          /\ pushes' = [pushes EXCEPT ![p].reads = NextRead("nothing")]
    /\ UNCHANGED <<settled, placed, first, timer, over, browser, leftEarly,
                   shown, pushFaults>>

(* The hook's cleanup, or a connection that drops: 'close' clears the       *)
(* interval, if there is a listener for it yet.                             *)
Close ==
    /\ browser = "open"
    /\ browser' = "left"
    /\ timer' = FALSE
    /\ leftEarly' = first
    /\ UNCHANGED <<settled, placed, pushes, first, over, shown, pushFaults>>

(* External: bets, and then the end of the market.                          *)
Bet ==
    /\ ~settled /\ placed < MaxPlaced
    /\ placed' = placed + 1
    /\ UNCHANGED <<settled, pushes, first, timer, over, browser, leftEarly, shown,
                   pushFaults>>

Settle ==
    /\ ~settled
    /\ settled' = TRUE
    /\ UNCHANGED <<placed, pushes, first, timer, over, browser, leftEarly, shown,
                   pushFaults>>

StreamNext ==
    \/ Interval \/ Close \/ Bet \/ Settle
    \/ \E p \in Slots : Push(p) \/ PushFails(p)

(* Some read ends, or the interval fires, as long as one can.               *)
StreamProgress == Interval \/ \E p \in Slots : Push(p)

StreamSpec == StreamInit /\ [][StreamNext]_streamVars /\ WF_streamVars(StreamProgress)

-----------------------------------------------------------------------------
(* Properties *)

(* However pushes overlap: the interval outlives neither the market nor a  *)
(* browser that left after the first push, and a browser that is told of the*)
(* stream's end shows the market's last odds.                               *)
OddsSettle ==
    <>[](/\ timer => ~settled /\ (browser = "open" \/ leftEarly)
         /\ browser = "end" => shown = placed)
==============================================================================
