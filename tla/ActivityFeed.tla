----------------------------- MODULE ActivityFeed -----------------------------
(***************************************************************************)
(* The websocket activity feed (backend/src/websocket/realtime.ts): sockets*)
(* that show a valid token and subscribe to a market, and the limiter on the*)
(* events published for it.  Markets do not affect each other; the model   *)
(* has one.                                                                *)
(***************************************************************************)
EXTENDS Naturals, Functions

CONSTANTS
    Sockets,
    RateCap,      \* RATE_LIMIT, 20
    WindowTicks,  \* WINDOW_MS, in ticks of the clock
    MaxTime       \* bound: the clock

VARIABLES
    time,
    connected,      \* sockets that are open
    authenticated,
    subscriptions,  \* the market's subscribers
    counts,         \* the limiter's entry, once there is one
    allowed         \* history: events let through, for each tick

feedVars == <<time, connected, authenticated, subscriptions, counts, allowed>>

NoEntry == [count |-> 0, resetAt |-> 0]

FeedInit ==
    /\ time = 0
    /\ connected = {} /\ authenticated = {} /\ subscriptions = {}
    /\ counts = NoEntry
    /\ allowed = [t \in 0..MaxTime |-> 0]

(* The connection handler closes a socket whose token is missing or invalid.*)
Connection(s) ==
    /\ s \notin connected
    /\ connected' = connected \cup {s}
    /\ authenticated' = authenticated \cup {s}
    /\ UNCHANGED <<time, subscriptions, counts, allowed>>

HandleMessage(s) ==
    /\ s \in connected /\ s \in authenticated
    /\ subscriptions' = subscriptions \cup {s}
    /\ UNCHANGED <<time, connected, authenticated, counts, allowed>>

(* A socket closes: removeSocket.  A socket that connects anew is another,  *)
(* which is not authenticated yet.                                          *)
RemoveSocket(s) ==
    /\ s \in connected
    /\ connected' = connected \ {s}
    /\ authenticated' = authenticated \ {s}
    /\ subscriptions' = subscriptions \ {s}
    /\ UNCHANGED <<time, counts, allowed>>

(* MarketRateLimiter.allow: a new entry when the old one's window is over.  *)
(* (A mutant lets one event too many through.)                              *)
Entry ==
    IF time >= counts.resetAt THEN [count |-> 0, resetAt |-> time + WindowTicks]
                              ELSE counts
AllowsOneMore == Entry.count <= RateCap
Allows == Entry.count < RateCap

(* An event that is allowed counts whether or not anybody has subscribed.   *)
Publish ==
    /\ counts' = IF Allows THEN [Entry EXCEPT !.count = @ + 1] ELSE Entry
    /\ allowed' = IF Allows THEN [allowed EXCEPT ![time] = @ + 1] ELSE allowed
    /\ UNCHANGED <<time, connected, authenticated, subscriptions>>

Advance ==
    /\ time < MaxTime
    /\ time' = time + 1
    /\ UNCHANGED <<connected, authenticated, subscriptions, counts, allowed>>

FeedNext ==
    \/ Publish \/ Advance
    \/ \E s \in Sockets :
          Connection(s) \/ HandleMessage(s) \/ RemoveSocket(s)

FeedSpec == FeedInit /\ [][FeedNext]_feedVars

-----------------------------------------------------------------------------
(* Properties *)

(* However events and windows fall, any stretch of time as long as a window *)
(* carries fewer than twice the limit, which is all that windows that begin *)
(* with an event give; and only open sockets that showed a token are sent   *)
(* them.  This is not the "token bucket, max 20 events/sec per market" of   *)
(* realtime.ts:23: the window is fixed and begins anew as soon as it has    *)
(* ended (realtime.ts:34), so that the end of one and the beginning of the  *)
(* next carry up to 2 * RateCap - 1 events within a second.                 *)
Windows == {t..(t + WindowTicks - 1) : t \in 0..(MaxTime + 1 - WindowTicks)}

BurstBounded ==
    /\ \A W \in Windows : SumFunctionOnSet(allowed, W) < 2 * RateCap
    /\ subscriptions \subseteq connected \cap authenticated
==============================================================================
