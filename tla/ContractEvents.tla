---------------------------- MODULE ContractEvents ----------------------------
(***************************************************************************)
(* subscribeToContractEvents (backend/src/services/StellarService.ts): one *)
(* subscription to Horizon's stream of a contract's events, which reconnects*)
(* after an error until it has failed too often in a row, and the function *)
(* that ends it.                                                           *)
(*                                                                         *)
(* A source delivers, or reports an error, only while it is open: that is  *)
(* what EventSource promises (external).                                   *)
(***************************************************************************)
EXTENDS Naturals, FiniteSets

CONSTANTS
    MaxReconnectAttempts,   \* maxReconnectAttempts, 10
    MaxSources              \* bound: sources opened

NoSource == 0
Sources == 1..MaxSources

VARIABLES
    opened,             \* sources created so far
    live,               \* those that are open
    eventSource,        \* the one the subscription knows
    reconnectAttempts,
    timers,             \* reconnections that are scheduled
    isUnsubscribed,
    missed              \* history: an event reached a subscriber that had left

eventVars == <<opened, live, eventSource, reconnectAttempts, timers,
               isUnsubscribed, missed>>

EventInit ==
    /\ opened = 1 /\ live = {1} /\ eventSource = 1
    /\ reconnectAttempts = 0 /\ timers = 0
    /\ isUnsubscribed = FALSE /\ missed = FALSE

(* connect.  (A mutant forgets to ask whether anybody still listens.)       *)
Always == TRUE
Wanted == ~isUnsubscribed

Connect ==
    /\ timers > 0
    /\ timers' = timers - 1
    /\ IF Wanted
       THEN /\ opened < MaxSources
            /\ opened' = opened + 1
            /\ live' = live \cup {opened + 1}
            /\ eventSource' = opened + 1
       ELSE UNCHANGED <<opened, live, eventSource>>
    /\ UNCHANGED <<reconnectAttempts, isUnsubscribed, missed>>

(* onmessage: a message the subscriber handles without an error starts the  *)
(* count again.                                                             *)
Message(s) ==
    /\ s \in live
    /\ missed' = (missed \/ isUnsubscribed)
    /\ reconnectAttempts' \in {0, reconnectAttempts}
    /\ UNCHANGED <<opened, live, eventSource, timers, isUnsubscribed>>

(* onerror: the source the subscription knows is closed, and another is     *)
(* opened after the backoff unless there have been too many.                *)
SourceError(s) ==
    /\ s \in live
    /\ IF isUnsubscribed
       THEN UNCHANGED <<live, eventSource, reconnectAttempts, timers>>
       ELSE /\ live' = live \ {eventSource}
            /\ eventSource' = NoSource
            /\ IF reconnectAttempts < MaxReconnectAttempts
               THEN /\ reconnectAttempts' = reconnectAttempts + 1
                    /\ timers' = timers + 1
               ELSE UNCHANGED <<reconnectAttempts, timers>>
    /\ UNCHANGED <<opened, isUnsubscribed, missed>>

Unsubscribe ==
    /\ ~isUnsubscribed
    /\ isUnsubscribed' = TRUE
    /\ live' = live \ {eventSource}
    /\ eventSource' = NoSource
    /\ UNCHANGED <<opened, reconnectAttempts, timers, missed>>

EventNext ==
    \/ Connect \/ Unsubscribe
    \/ \E s \in Sources : Message(s) \/ SourceError(s)

EventSpec == EventInit /\ [][EventNext]_eventVars

-----------------------------------------------------------------------------
(* Properties *)

(* Once unsubscribed, also while a reconnection is pending, no source is    *)
(* left open and no event is delivered; before, there is exactly one source *)
(* or one pending reconnection, unless the subscription has given up.       *)
SilentOnceUnsubscribed ==
    /\ isUnsubscribed => live = {} /\ ~missed
    /\ ~isUnsubscribed =>
          Cardinality(live) + timers =
              IF live = {} /\ timers = 0 /\ reconnectAttempts = MaxReconnectAttempts
              THEN 0 ELSE 1
==============================================================================
