--------------------------- MODULE OracleWhitelist ---------------------------
(***************************************************************************)
(* Whose reports are taken: the whitelist that verifyOracleReport reads    *)
(* (getOracleWhitelist of OracleService.ts), which every instance of the   *)
(* backend keeps in its environment and all share in Redis for five        *)
(* minutes.  An oracle is removed by restarting the instances one by one   *)
(* with a new list, and the administrator may flush the shared one.  Redis *)
(* may refuse any command.                                                  *)
(***************************************************************************)
EXTENDS Naturals

CONSTANTS
    Instances,
    WhitelistTTL       \* WHITELIST_TTL_SECS, in ticks

Never == WhitelistTTL + 1
Nothing == "nothing"

VARIABLES
    environment,   \* ORACLE_WHITELIST of each instance, "old" or "new"
    whitelist,     \* the list in Redis, and its time to live
    checking,      \* each instance's call: the list it has, and what is next
    accepted,      \* history: how long the last "old" instance had been gone
                   \* when the removed oracle was last let through
    oldGone        \* ticks since then, no more than Never

whitelistVars == <<environment, whitelist, checking, accepted, oldGone>>

Idle == [list |-> Nothing, next |-> "idle"]

WhitelistInit ==
    /\ environment = [i \in Instances |-> "old"]
    /\ whitelist = [list |-> Nothing, ttl |-> 0]
    /\ checking = [i \in Instances |-> Idle]
    /\ accepted = 0
    /\ oldGone = 0

-----------------------------------------------------------------------------
(* verifyOracleReport of a report of the removed oracle, well signed.       *)
Verify(i) ==
    /\ checking[i] = Idle
    /\ checking' = [checking EXCEPT ![i].next = "read"]
    /\ UNCHANGED <<environment, whitelist, accepted, oldGone>>

(* has(): the list that has the oracle lets its report through.             *)
Answer(i, list) ==
    /\ checking' = [checking EXCEPT ![i] = Idle]
    /\ accepted' = IF list = "old" THEN oldGone ELSE accepted

ReadWhitelist(i) ==
    /\ checking[i].next = "read" /\ whitelist.list # Nothing
    /\ Answer(i, whitelist.list)
    /\ UNCHANGED <<environment, whitelist, oldGone>>

(* Nothing in Redis, or no answer: the environment.                         *)
FallBack(i) ==
    /\ checking[i].next = "read"
    /\ checking' = [checking EXCEPT ![i] = [list |-> environment[i], next |-> "write"]]
    /\ UNCHANGED <<environment, whitelist, accepted, oldGone>>

(* SET with EX.  (A mutant keeps the time that the key had left.)           *)
KeepsTTL == IF whitelist.ttl = 0 THEN Never ELSE whitelist.ttl
Expiry == WhitelistTTL

WriteWhitelist(i) ==
    /\ checking[i].next = "write"
    /\ \/ whitelist' = [list |-> checking[i].list, ttl |-> Expiry]
       \/ UNCHANGED whitelist
    /\ Answer(i, checking[i].list)
    /\ UNCHANGED <<environment, oldGone>>

(* flushOracleWhitelistCache; a refused DEL changes nothing.                *)
Flush ==
    /\ whitelist.list # Nothing
    /\ whitelist' = [list |-> Nothing, ttl |-> 0]
    /\ UNCHANGED <<environment, checking, accepted, oldGone>>

Restart(i) ==
    /\ environment[i] = "old"
    /\ environment' = [environment EXCEPT ![i] = "new"]
    /\ checking' = [checking EXCEPT ![i] = Idle]
    /\ UNCHANGED <<whitelist, accepted, oldGone>>

Tick ==
    /\ whitelist' = IF whitelist.ttl <= 1 THEN [list |-> Nothing, ttl |-> 0]
                    ELSE [whitelist EXCEPT !.ttl = @ - 1]
    /\ oldGone' = IF \E i \in Instances : environment[i] = "old" THEN 0
                  ELSE IF oldGone < Never THEN oldGone + 1 ELSE oldGone
    /\ UNCHANGED <<environment, checking, accepted>>

WhitelistNext ==
    \/ Flush \/ Tick
    \/ \E i \in Instances :
          \/ Verify(i) \/ ReadWhitelist(i) \/ FallBack(i) \/ WriteWhitelist(i)
          \/ Restart(i)

WhitelistSpec == WhitelistInit /\ [][WhitelistNext]_whitelistVars

-----------------------------------------------------------------------------
(* Properties *)

(* A removed oracle's report is not taken once the last instance with the  *)
(* old list has been gone for as long as Redis keeps a list: whether the   *)
(* list was flushed or not, and though an old instance may have filled it  *)
(* again after a flush.                                                     *)
RemovedOracleRefused == accepted < WhitelistTTL
==============================================================================
