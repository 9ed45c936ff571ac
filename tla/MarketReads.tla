----------------------------- MODULE MarketReads -----------------------------
(***************************************************************************)
(* What the backend serves of one market out of Redis                      *)
(* (backend/src/services/MarketService.ts, BetService.ts and               *)
(* cache.service.ts): four cache-aside reads, each a GET, one or two        *)
(* queries and a SET that other requests come between, and the writers of  *)
(* the row and its bets: those that then delete some of what was cached of *)
(* it, and those that delete nothing (most of the indexer's handlers, the  *)
(* job that locks markets, the administrator's requests).                  *)
(*                                                                         *)
(* A row is known by how often it has changed.  Calls to Redis may fail,   *)
(* which every function of cache.service.ts logs and passes over.          *)
(***************************************************************************)
EXTENDS Naturals, Sequences

CONSTANTS
    CacheKeys,          \* the reads followed: of "market", "markets", "stats"
                        \* and "platform"
    Readers,            \* requests that read
    MaxRowWrites,       \* bound: changes of the market's row
    MaxBets,            \* bound: bets recorded
    MaxCacheFaults      \* bound: calls to Redis that fail

Facts == {"row", "bets"}     \* the market's row, and the rows of its bets

(* What each function queries before it stores: the rows and their number;  *)
(* the row, and again for the odds; sums over the bets; counts of the       *)
(* markets and sums over all bets.                                          *)
GetMarkets == <<"row", "row">>
GetMarketById == <<"row", "row">>
GetMarketStats == <<"bets">>
GetPlatformStats == <<"row", "bets">>

Queries == [market   |-> GetMarketById,
            markets  |-> GetMarkets,
            stats    |-> GetMarketStats,
            platform |-> GetPlatformStats]

VARIABLES
    rowVersion,   \* how often each fact has changed
    marketStatus, \* the status in the row
    cached,       \* what each key holds
    reading,      \* each reader's key, queries left and what it has read
    plan,         \* deletions that each writer has still to make
    enqueued,     \* notification jobs of a bulk cancellation
    cacheFaults

readVars == <<rowVersion, marketStatus, cached, reading, plan, enqueued, cacheFaults>>

(* The administrators' bulk requests, recordBet, and the indexer.           *)
Writers == {"bulk", "bet", "indexer"}

(* An entry, and why it may be out of date: "late", stored after a change by*)
(* a reader that had read before it; "refused", Redis did not delete it;    *)
(* "left", the change was by a writer that does not delete this key.        *)
Absent == [facts |-> [f \in {} |-> 0], excuse |-> "none"]
NotReading == [key |-> "none", left |-> <<>>, got |-> [f \in {} |-> 0]]

ReadsInit ==
    /\ rowVersion = [f \in Facts |-> 0]
    /\ marketStatus = "open"
    /\ cached = [k \in CacheKeys |-> Absent]
    /\ reading = [r \in Readers |-> NotReading]
    /\ plan = [w \in Writers |-> <<>>]
    /\ enqueued = FALSE
    /\ cacheFaults = 0

CacheFault == cacheFaults < MaxCacheFaults /\ cacheFaults' = cacheFaults + 1

-----------------------------------------------------------------------------
(* Readers: getMarkets, getMarketById, getMarketStats, getPlatformStats.  A*)
(* hit is served as it is; a GET that fails counts as a miss.               *)
Miss(r, k) ==
    /\ reading[r] = NotReading
    /\ IF cached[k] = Absent THEN UNCHANGED cacheFaults ELSE CacheFault
    /\ reading' = [reading EXCEPT ![r] = [NotReading EXCEPT !.key = k, !.left = Queries[k]]]
    /\ UNCHANGED <<rowVersion, marketStatus, cached, plan, enqueued>>

Query(r) ==
    /\ reading[r].left # <<>>
    /\ LET f == Head(reading[r].left)
           got == reading[r].got
       IN  reading' = [reading EXCEPT
               ![r].left = Tail(@),
               ![r].got = [g \in DOMAIN got \cup {f} |->
                              IF g \in DOMAIN got THEN got[g] ELSE rowVersion[g]]]
    /\ UNCHANGED <<rowVersion, marketStatus, cached, plan, enqueued, cacheFaults>>

(* The SET, perhaps of what is out of date by now.                          *)
Outdated(got) == \E f \in DOMAIN got : got[f] # rowVersion[f]

StoreInCache(r) ==
    /\ reading[r] # NotReading /\ reading[r].left = <<>>
    /\ cached' = [cached EXCEPT ![reading[r].key] =
                    [facts |-> reading[r].got,
                     excuse |-> IF Outdated(reading[r].got) THEN "late" ELSE "none"]]
    /\ reading' = [reading EXCEPT ![r] = NotReading]
    /\ UNCHANGED <<rowVersion, marketStatus, plan, enqueued, cacheFaults>>

(* A query throws, or the SET fails.                                        *)
ReadFails(r) ==
    /\ reading[r] # NotReading
    /\ reading' = [reading EXCEPT ![r] = NotReading]
    /\ UNCHANGED <<rowVersion, marketStatus, cached, plan, enqueued, cacheFaults>>

CacheExpires(k) ==
    /\ cached[k] # Absent
    /\ cached' = [cached EXCEPT ![k] = Absent]
    /\ UNCHANGED <<rowVersion, marketStatus, reading, plan, enqueued, cacheFaults>>

-----------------------------------------------------------------------------
(* Deletions: del takes a key, delPattern scans for keys and deletes those *)
(* it found, in a call of its own.                                          *)
Delete(keys) == [op |-> "del", keys |-> keys]
DeletePattern(keys) == [op |-> "scan", keys |-> keys]

(* (A mutant that forgets the lists of markets.)                            *)
ListsKept == <<Delete({"market"}), Delete({"stats"})>>
InvalidateMarketCache ==
    <<Delete({"market"}), DeletePattern({"markets"}), Delete({"stats"})>>

(* recordBet's patterns are market:<id>* and platform:stats.                *)
InvalidateBet == <<DeletePattern({"market", "stats"}), DeletePattern({"platform"})>>

(* handleMarketResolved's are market:<id>* and markets:*.                   *)
InvalidateResolved == <<DeletePattern({"market", "stats"}), DeletePattern({"markets"})>>

Notify == <<[op |-> "notify", keys |-> {}]>>

(* The keys that each writer's deletions name.                              *)
Covers == [bulk    |-> {"market", "markets", "stats"},
           bet     |-> {"market", "stats", "platform"},
           indexer |-> {"market", "stats", "markets"}]

(* A change of facts.  What was cached of them under a key that the writer  *)
(* does not delete is left there.                                           *)
Change(facts, covered) ==
    /\ "row" \in facts => rowVersion["row"] < MaxRowWrites
    /\ "bets" \in facts => rowVersion["bets"] < MaxBets
    /\ rowVersion' = [f \in Facts |-> IF f \in facts THEN rowVersion[f] + 1 ELSE rowVersion[f]]
    /\ cached' = [k \in CacheKeys |->
           IF facts \cap DOMAIN cached[k].facts # {} /\ k \notin covered
           THEN [cached[k] EXCEPT !.excuse = "left"] ELSE cached[k]]
    /\ UNCHANGED <<reading, enqueued, cacheFaults>>

ChangeAndDelete(w, facts, work) ==
    /\ plan[w] = <<>>
    /\ Change(facts, Covers[w])
    /\ plan' = [plan EXCEPT ![w] = work]

ChangeOnly(facts) == Change(facts, {}) /\ UNCHANGED plan

(* One market's turn in bulkPauseMarkets and bulkCancelMarkets: an UPDATE   *)
(* that asks for the status, the invalidation, and, for a cancellation, the*)
(* notification of its bettors.                                             *)
BulkPauseMarkets ==
    /\ marketStatus = "open" /\ marketStatus' = "locked"
    /\ ChangeAndDelete("bulk", {"row"}, InvalidateMarketCache)

BulkCancelMarkets ==
    /\ marketStatus \in {"open", "locked"} /\ marketStatus' = "cancelled"
    /\ ChangeAndDelete("bulk", {"row"}, InvalidateMarketCache \o Notify)

(* recordBet, for a transaction that has no row yet; one that has changes   *)
(* nothing.                                                                 *)
RecordBet ==
    /\ UNCHANGED marketStatus
    /\ ChangeAndDelete("bet", {"bets"}, InvalidateBet)

(* The indexer, one handler after the other: a bet adds to the pools in the*)
(* row, and its own row unless recordBet was first (handleBetPlaced).  Of   *)
(* the changes of status only a resolution deletes anything.                *)
IndexBetPlaced ==
    /\ plan["indexer"] = <<>> /\ UNCHANGED marketStatus
    /\ \E facts \in {{"row"}, {"row", "bets"}} : ChangeOnly(facts)

IndexStatus ==
    /\ plan["indexer"] = <<>> /\ marketStatus' \in {"locked", "cancelled"}
    /\ ChangeOnly({"row"})

IndexResolved ==
    /\ marketStatus' = "resolved"
    /\ ChangeAndDelete("indexer", {"row"}, InvalidateResolved)

(* runAutoLockMarketsJob, and the requests of AdminController: cancelMarket,*)
(* flagDispute and resolveDispute.                                          *)
LockOverdue ==
    /\ marketStatus = "open" /\ marketStatus' = "locked"
    /\ ChangeOnly({"row"})

AdminMoves == {<<"open", "cancelled">>, <<"locked", "cancelled">>,
               <<"resolved", "disputed">>, <<"disputed", "resolved">>}

AdminMovesMarket ==
    /\ \E move \in AdminMoves : marketStatus = move[1] /\ marketStatus' = move[2]
    /\ ChangeOnly({"row"})

DoNext(w, op) == plan[w] # <<>> /\ Head(plan[w]).op = op

Scan(w) ==
    /\ DoNext(w, "scan")
    /\ plan' = [plan EXCEPT ![w] =
           <<Delete({k \in Head(@).keys \cap CacheKeys : cached[k] # Absent})>> \o Tail(@)]
    /\ UNCHANGED <<rowVersion, marketStatus, cached, reading, enqueued, cacheFaults>>

Del(w) ==
    /\ DoNext(w, "del")
    /\ cached' = [k \in CacheKeys |-> IF k \in Head(plan[w]).keys THEN Absent ELSE cached[k]]
    /\ plan' = [plan EXCEPT ![w] = Tail(@)]
    /\ UNCHANGED <<rowVersion, marketStatus, reading, enqueued, cacheFaults>>

(* Either call fails: what it should have deleted stays.                    *)
DelFails(w) ==
    /\ DoNext(w, "scan") \/ DoNext(w, "del")
    /\ CacheFault
    /\ cached' = [k \in CacheKeys |->
           IF k \in Head(plan[w]).keys /\ cached[k] # Absent
           THEN [cached[k] EXCEPT !.excuse = "refused"] ELSE cached[k]]
    /\ plan' = [plan EXCEPT ![w] = Tail(@)]
    /\ UNCHANGED <<rowVersion, marketStatus, reading, enqueued>>

-----------------------------------------------------------------------------
(* The insert of the notification jobs numbers four placeholders for each  *)
(* row but passes two values, so it is refused for more than one bettor.    *)
(* What it throws reports the market as failed; its row stays cancelled.    *)
InsertAccepted == rowVersion["bets"] <= 1

EnqueueNotifications ==
    /\ DoNext("bulk", "notify")
    /\ enqueued' \in {FALSE, InsertAccepted /\ rowVersion["bets"] > 0}
    /\ plan' = [plan EXCEPT !["bulk"] = Tail(@)]
    /\ UNCHANGED <<rowVersion, marketStatus, cached, reading, cacheFaults>>

ReadsNext ==
    \/ \E r \in Readers : \/ \E k \in CacheKeys : Miss(r, k)
                          \/ Query(r) \/ StoreInCache(r) \/ ReadFails(r)
    \/ \E k \in CacheKeys : CacheExpires(k)
    \/ BulkPauseMarkets \/ BulkCancelMarkets
    \/ RecordBet
    \/ IndexBetPlaced \/ IndexStatus \/ IndexResolved
    \/ LockOverdue \/ AdminMovesMarket
    \/ \E w \in Writers : Scan(w) \/ Del(w) \/ DelFails(w)
    \/ EnqueueNotifications

ReadsSpec == ReadsInit /\ [][ReadsNext]_readVars

-----------------------------------------------------------------------------
(* Properties *)

Named(work, k) ==
    \E n \in DOMAIN work : work[n].op # "notify" /\ k \in work[n].keys

Current(k) == \A f \in DOMAIN cached[k].facts : cached[k].facts[f] = rowVersion[f]

(* The deletions do what they can: an entry is out of date only because a   *)
(* reader stored late, Redis refused a deletion or a writer does not delete *)
(* that key, or until the deletion of a writer that is not through.  The    *)
(* time to live ends it in any case.                                        *)
(*                                                                          *)
(* "It prevents stale reads by ensuring cache keys are properly invalidated *)
(* when underlying data changes" (CACHE_SERVICE_README.md:5), "after any    *)
(* write operation that modifies the underlying data" (:81), is more than   *)
(* this and not kept: the indexer's bets, locks and cancellations, the job  *)
(* that locks and the administrator's requests delete nothing; bulk changes *)
(* and resolutions leave platform:stats, and a recorded bet the lists of    *)
(* markets.  Their entries are stale until the TTL.                         *)
FreshUnlessLate ==
    \A k \in CacheKeys :
        cached[k].excuse = "none" => Current(k) \/ \E w \in Writers : Named(plan[w], k)
==============================================================================
