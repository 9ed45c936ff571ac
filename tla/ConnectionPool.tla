---------------------------- MODULE ConnectionPool ----------------------------
(***************************************************************************)
(* The backend's database connections (config/db.ts, a pg Pool) and the    *)
(* work that keeps one over several statements: streamed exports           *)
(* (services/export.service.ts), the refunds of a cancelled market         *)
(* (processMarketRefunds of BetService.ts, which calls the chain while it   *)
(* holds its transaction) and EventProcessor's handlers.  A task is one     *)
(* request or event: it takes connections one after the other.             *)
(***************************************************************************)
EXTENDS Naturals, Sequences, FiniteSets

CONSTANTS
    Tasks,
    PoolMax,           \* DB_POOL_MAX
    MaxRows,           \* bound: batches of an export, bettors of a market
    MaxQueryFaults     \* bound: statements that fail

VARIABLES
    idle,       \* connections that nobody holds, or that may still be opened
    queue,      \* tasks waiting for one, the first come first
    todo,       \* what each task still needs a connection for
    at,         \* "asleep", "waiting", "held", "full" (awaits 'drain'), "ended"
    rows,       \* batches to send, bettors to refund
    reader,     \* the client still reads the response
    queryFaults

poolVars == <<idle, queue, todo, at, rows, reader, queryFaults>>

(* What each handler needs a connection for, in order.  An emailed export   *)
(* builds its file from one query, and sends the mail without a connection. *)
LogExportAudit == <<"audit">>
BuildTradesCsv == <<"build">>
StreamUsersExport == <<"stream">>
StreamTradesExport == <<"stream">>
StreamTreasuryExport == <<"stream">>

ExportUsers == LogExportAudit \o StreamUsersExport
ExportTrades == LogExportAudit \o StreamTradesExport
ExportTreasury == LogExportAudit \o StreamTreasuryExport
ExportRequest == LogExportAudit \o BuildTradesCsv
ProcessMarketRefunds == <<"market", "bettors", "pay">>
HandleBetPlaced == <<"write">>
HandleMarketResolved == <<"write">>
HandleMarketCancelled == <<"write">>
HandleMarketCreated == <<"row">>
HandleMarketLocked == <<"row">>
HandleClaimed == <<"row">>     \* of winnings, and of a refund

Work == {ExportUsers, ExportTrades, ExportTreasury, ExportRequest,
         ProcessMarketRefunds, HandleBetPlaced, HandleMarketResolved,
         HandleMarketCancelled, HandleMarketCreated, HandleMarketLocked,
         HandleClaimed}

Queries == {"audit", "build", "market", "bettors", "row"}   \* pool.query
Use(t) == Head(todo[t])

PoolInit ==
    /\ idle = PoolMax /\ queue = << >>
    /\ todo = [t \in Tasks |-> << >>]
    /\ at = [t \in Tasks |-> "asleep"]
    /\ rows = [t \in Tasks |-> 0]
    /\ reader = [t \in Tasks |-> FALSE]
    /\ queryFaults = 0

-----------------------------------------------------------------------------
(* finally { client.release() }; pool.query does the same.  (A mutant gives*)
(* the connection back only when nothing failed.)                           *)
OnSuccess(failed) == IF failed THEN 0 ELSE 1
Finally(failed) == 1

Without(t) == SelectSeq(queue, LAMBDA u : u # t)

(* A task goes on to its next use, or ends; waiting are the tasks that wait *)
(* when it has.                                                             *)
Goes(t, waiting) ==
    /\ todo' = [todo EXCEPT ![t] = Tail(@)]
    /\ IF Len(todo[t]) = 1
       THEN at' = [at EXCEPT ![t] = "ended"] /\ queue' = waiting
       ELSE at' = [at EXCEPT ![t] = "waiting"] /\ queue' = Append(waiting, t)

Ends(t, waiting) ==
    /\ todo' = [todo EXCEPT ![t] = << >>]
    /\ at' = [at EXCEPT ![t] = "ended"]
    /\ queue' = waiting

(* What an error does: only logExportAudit goes on as if nothing were.      *)
Caught(t, waiting) == IF Use(t) = "audit" THEN Goes(t, waiting) ELSE Ends(t, waiting)

Receive(t, work, n) ==
    /\ at[t] = "asleep"
    /\ todo' = [todo EXCEPT ![t] = work]
    /\ at' = [at EXCEPT ![t] = "waiting"]
    /\ queue' = Append(queue, t)
    /\ rows' = [rows EXCEPT ![t] = n]
    /\ reader' = [reader EXCEPT ![t] = TRUE]
    /\ UNCHANGED <<idle, queryFaults>>

(* External: the pool serves its queue, and refuses who has waited for      *)
(* DB_POOL_CONNECTION_TIMEOUT_MS.                                           *)
Grant ==
    /\ idle > 0 /\ queue # << >>
    /\ idle' = idle - 1
    /\ queue' = Tail(queue)
    /\ at' = [at EXCEPT ![Head(queue)] = "held"]
    /\ UNCHANGED <<todo, rows, reader, queryFaults>>

Refuse(t) ==
    /\ at[t] = "waiting"
    /\ Caught(t, Without(t))
    /\ UNCHANGED <<idle, rows, reader, queryFaults>>

-----------------------------------------------------------------------------
(* A statement of its own ends.  The refunds stop at a market that does not*)
(* exist or is not cancelled, and at one nobody is owed for.                *)
QueryEnds(t) ==
    /\ at[t] = "held" /\ Use(t) \in Queries
    /\ idle' = idle + Finally(FALSE)
    /\ \/ /\ Use(t) = "market" \/ (Use(t) = "bettors" /\ rows[t] = 0)
          /\ Ends(t, queue)
       \/ /\ Use(t) = "bettors" => rows[t] > 0
          /\ Goes(t, queue)
    /\ UNCHANGED <<rows, reader, queryFaults>>

(* A statement fails: pool.query throws; in a transaction the catch block   *)
(* sends ROLLBACK, and whether that fails too, finally follows.             *)
StatementFails(t) ==
    /\ at[t] = "held" /\ queryFaults < MaxQueryFaults
    /\ queryFaults' = queryFaults + 1
    /\ idle' = idle + Finally(TRUE)
    /\ Caught(t, queue)
    /\ UNCHANGED <<rows, reader>>

(* pipeQueryToCsv: FETCH and write until no row is left, then CLOSE, COMMIT.*)
(* write is false when the response's buffer is full; when the client has   *)
(* left it is false too (external), and 'drain' never comes.                *)
SendBatch(t) ==
    /\ at[t] = "held" /\ Use(t) = "stream" /\ rows[t] > 0
    /\ rows' = [rows EXCEPT ![t] = @ - 1]
    /\ \/ reader[t] /\ UNCHANGED at
       \/ at' = [at EXCEPT ![t] = "full"]
    /\ UNCHANGED <<idle, queue, todo, reader, queryFaults>>

Drain(t) ==
    /\ at[t] = "full" /\ reader[t]
    /\ at' = [at EXCEPT ![t] = "held"]
    /\ UNCHANGED <<idle, queue, todo, rows, reader, queryFaults>>

Leave(t) ==
    /\ reader[t] /\ at[t] \notin {"asleep", "ended"}
    /\ reader' = [reader EXCEPT ![t] = FALSE]
    /\ UNCHANGED <<idle, queue, todo, at, rows, queryFaults>>

(* processMarketRefunds, for one bettor: the notification's row, then       *)
(* claim_refund on the chain, whose failure is only counted.                *)
PayBettor(t) ==
    /\ at[t] = "held" /\ Use(t) = "pay" /\ rows[t] > 0
    /\ rows' = [rows EXCEPT ![t] = @ - 1]
    /\ UNCHANGED <<idle, queue, todo, at, reader, queryFaults>>

(* COMMIT: the stream's, the refunds', or that of handleBetPlaced,          *)
(* handleMarketResolved or handleMarketCancelled.                           *)
Commit(t) ==
    /\ at[t] = "held"
    /\ Use(t) = "write" \/ (Use(t) \in {"stream", "pay"} /\ rows[t] = 0)
    /\ idle' = idle + Finally(FALSE)
    /\ Goes(t, queue)
    /\ UNCHANGED <<rows, reader, queryFaults>>

PoolNext ==
    \/ Grant
    \/ \E t \in Tasks :
          \/ \E work \in Work, n \in 0..MaxRows : Receive(t, work, n)
          \/ Refuse(t) \/ QueryEnds(t) \/ StatementFails(t) \/ SendBatch(t)
          \/ Drain(t) \/ Leave(t) \/ PayBettor(t) \/ Commit(t)

(* Statements end, the pool's timers fire, a client that reads goes on; a   *)
(* task does so finitely often, so that fairness to any of these will do.   *)
PoolProgress ==
    \/ Grant
    \/ \E t \in Tasks : \/ Refuse(t) \/ QueryEnds(t) \/ SendBatch(t)
                       \/ Drain(t) \/ PayBettor(t) \/ Commit(t)

PoolSpec == PoolInit /\ [][PoolNext]_poolVars /\ WF_poolVars(PoolProgress)

-----------------------------------------------------------------------------
(* Properties *)

(* An export whose client left with a batch still to be sent.               *)
Abandoned(t) == at[t] = "full" /\ ~reader[t]

(* Whatever fails, and whoever waits for whom, every task ends and its      *)
(* connection comes back to the pool, all but those of abandoned exports.   *)
PoolRecovers ==
    <>[](/\ \A t \in Tasks : at[t] \in {"asleep", "ended"} \/ Abandoned(t)
         /\ idle = PoolMax - Cardinality({t \in Tasks : Abandoned(t)}))
==============================================================================
