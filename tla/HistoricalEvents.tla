--------------------------- MODULE HistoricalEvents ---------------------------
(***************************************************************************)
(* fetchHistoricalEvents of the backend's StellarService.ts: it is given a *)
(* range of ledgers, asks Horizon for transactions, page after page, and    *)
(* for the operations of each, and keeps those of the factory and the       *)
(* treasury.  Three failures in a row of a page end it; operations that     *)
(* cannot be fetched are passed over.                                       *)
(*                                                                         *)
(* The request names the first ledger of the range and nothing else: limit,*)
(* order, cursor and to_ledger are arguments of the call builder's .call(), *)
(* which takes none.  Horizon is external: to a request without a cursor it*)
(* answers with the first page of the ledger.                               *)
(***************************************************************************)
EXTENDS Naturals, Sequences

CONSTANTS
    FirstLedgerTxs, \* how many transactions fromLedger has
    RangeTxs,       \* and all the ledgers up to toLedger
    PageLimit,      \* Horizon's, not the limit of 200 in the code
    MaxPageRetries, \* maxRetries
    MaxCollected    \* bound: events collected

Txs == 1..RangeTxs  \* in the order of the ledgers

VARIABLES
    relevant,     \* those that call the factory or the treasury
    cursor,       \* where the last page ended
    records,      \* what is left of the page
    events,       \* what has been collected
    unread,       \* history: those whose operations were not fetched
    retries,
    fetchAt       \* "page", "operations", "returned" or "thrown"

historyVars == <<relevant, cursor, records, events, unread, retries, fetchAt>>

HistoryInit ==
    /\ relevant \in SUBSET Txs
    /\ cursor = 0 /\ records = <<>>
    /\ events = <<>> /\ unread = {}
    /\ retries = 0
    /\ fetchAt = "page"

-----------------------------------------------------------------------------
PageSize == IF FirstLedgerTxs < PageLimit THEN FirstLedgerTxs ELSE PageLimit
FirstPage == [i \in 1..PageSize |-> i]

(* The request, which says nothing of the cursor; an empty answer ends.     *)
AskPage ==
    /\ fetchAt = "page"
    /\ records' = FirstPage
    /\ fetchAt' = IF FirstPage = <<>> THEN "returned" ELSE "operations"
    /\ UNCHANGED <<relevant, cursor, events, unread, retries>>

(* A page that fails is asked for again, after a while.                     *)
PageFails ==
    /\ fetchAt = "page"
    /\ retries' = retries + 1
    /\ fetchAt' = IF retries + 1 >= MaxPageRetries THEN "thrown" ELSE "page"
    /\ UNCHANGED <<relevant, cursor, records, events, unread>>

(* The cursor is noted after the page's last transaction.                   *)
Advance ==
    /\ records' = Tail(records)
    /\ IF Len(records) = 1
       THEN cursor' = Head(records) /\ retries' = 0 /\ fetchAt' = "page"
       ELSE UNCHANGED <<cursor, retries, fetchAt>>

Operations ==
    /\ fetchAt = "operations" /\ Len(events) < MaxCollected
    /\ events' = IF Head(records) \in relevant THEN Append(events, Head(records))
                                              ELSE events
    /\ Advance
    /\ UNCHANGED <<relevant, unread>>

OperationsFail ==
    /\ fetchAt = "operations"
    /\ unread' = unread \cup {Head(records)}
    /\ Advance
    /\ UNCHANGED <<relevant, events>>

HistoryNext == AskPage \/ PageFails \/ Operations \/ OperationsFail

HistorySpec == HistoryInit /\ [][HistoryNext]_historyVars

-----------------------------------------------------------------------------
(* Properties *)

(* "Fetches historical events from Horizon for a given ledger range.        *)
(* Paginates through all pages automatically.  Returns events in            *)
(* chronological order." (StellarService.ts:322): what has been collected   *)
(* is in the order of the ledgers, each event once, and what is returned    *)
(* lacks only what could not be read.  The first page of the first ledger   *)
(* is collected again and again, and a first ledger without transactions    *)
(* ends the fetch of the whole range.                                       *)
HistoryCollected ==
    /\ \A i, j \in 1..Len(events) : i < j => events[i] < events[j]
    /\ fetchAt = "returned" =>
          {events[i] : i \in 1..Len(events)} = relevant \ unread
==============================================================================
