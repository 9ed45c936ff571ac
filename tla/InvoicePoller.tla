---------------------------- MODULE InvoicePoller ----------------------------
(***************************************************************************)
(* The invoice indexer, a process of its own (indexer/src): it polls the   *)
(* events of one contract, writes each to SQLite and keeps its place in a  *)
(* file, cursor.json.  The process may stop at any point and start again   *)
(* from what it has written.                                               *)
(*                                                                         *)
(* The contract is external.  It emits 'submitted' for an invoice first and*)
(* then changes of its status.                                             *)
(***************************************************************************)
EXTENDS Naturals, Sequences

CONSTANTS
    Invoices,
    Statuses,        \* what follows 'submitted': funded, paid, defaulted
    MaxLedgers,      \* bound: ledgers closed
    MaxPollerFaults  \* bound: stops, and writes that fail

Event(v, s) == [invoice |-> v, status |-> s]
Empty == Event("none", "none")   \* a ledger without an event of the contract
None == 0                        \* no cursor
Torn == MaxLedgers + 1           \* a file that does not parse

VARIABLES
    ledgers,        \* the event of each ledger closed
    invoices,       \* the table: status and whether the details are there
    cursorFile,     \* the ledger that cursor.json says was the last read
    mode,           \* where the process is
    cursor,         \* its own cursor
    batch,          \* first and last ledger of the response it works on
    since,          \* history: where the present cursor began
    skipped,        \* history: ledgers whose event could not be processed
    pollerFaults

pollerVars == <<ledgers, invoices, cursorFile, mode, cursor, batch, since,
                skipped, pollerFaults>>

NoRow == [status |-> "none", details |-> FALSE]

PollerInit ==
    /\ ledgers = <<>>
    /\ invoices = [v \in Invoices |-> NoRow]
    /\ cursorFile = None
    /\ mode = "start" /\ cursor = None /\ batch = <<1, 0>>
    /\ since = 1 /\ skipped = {}
    /\ pollerFaults = 0

PollerFault == pollerFaults < MaxPollerFaults /\ pollerFaults' = pollerFaults + 1

Submitted(v) == \E k \in DOMAIN ledgers : ledgers[k] = Event(v, "Pending")

(* External: a ledger closes, with an event or without.                     *)
CloseLedger ==
    /\ Len(ledgers) < MaxLedgers
    /\ \E e \in {Empty}
             \cup {Event(v, "Pending") : v \in {w \in Invoices : ~Submitted(w)}}
             \cup {Event(v, s) : v \in {w \in Invoices : Submitted(w)}, s \in Statuses} :
          ledgers' = Append(ledgers, e)
    /\ UNCHANGED <<invoices, cursorFile, mode, cursor, batch, since, skipped,
                   pollerFaults>>

(* getCursor: a missing file and one that does not parse are no cursor.     *)
GetCursor == IF cursorFile = Torn THEN None ELSE cursorFile

StartPoller ==
    /\ mode = "start"
    /\ cursor' = GetCursor
    /\ mode' = "poll"
    /\ UNCHANGED <<ledgers, invoices, cursorFile, batch, since, skipped,
                   pollerFaults>>

(* Without a cursor the poll starts from the latest ledger, which is asked  *)
(* for anew every time, or from the first when that call fails.             *)
GetLatestLedger ==
    /\ mode = "poll" /\ cursor = None
    /\ batch' = <<IF ledgers = <<>> THEN 1 ELSE Len(ledgers), 0>>
    /\ mode' = "request"
    /\ UNCHANGED <<ledgers, invoices, cursorFile, cursor, since, skipped,
                   pollerFaults>>

GetLatestLedgerFails ==
    /\ mode = "poll" /\ cursor = None /\ PollerFault
    /\ batch' = <<1, 0>>
    /\ mode' = "request"
    /\ UNCHANGED <<ledgers, invoices, cursorFile, cursor, since, skipped>>

Eventful(from, to) == \E k \in from..to : ledgers[k] # Empty

(* getEvents answers with a page.  One without events leaves the cursor as  *)
(* it is, and so does a poll that fails, which is repeated after a pause.   *)
GetEvents ==
    /\ \/ mode = "request"
       \/ mode = "poll" /\ cursor # None
    /\ LET from == IF cursor = None THEN batch[1] ELSE cursor + 1
       IN  \E to \in from..Len(ledgers) :
              IF Eventful(from, to)
              THEN /\ batch' = <<from, to>>
                   /\ since' = IF cursor = None THEN from ELSE since
                   /\ mode' = "process"
              ELSE mode' = "poll" /\ batch' = <<1, 0>> /\ UNCHANGED since
    /\ UNCHANGED <<ledgers, invoices, cursorFile, cursor, skipped, pollerFaults>>

(* upsertInvoice: empty fields keep what the row has.  (A mutant inserts    *)
(* only what is new.)                                                       *)
InsertOnly(row, e) ==
    IF row = NoRow THEN [status |-> e.status, details |-> e.status = "Pending"] ELSE row
Upsert(row, e) ==
    [status |-> e.status, details |-> row.details \/ e.status = "Pending"]

(* processEvent; what it throws is logged and the event passed over.        *)
ProcessEvent ==
    /\ mode = "process" /\ batch[1] <= batch[2]
    /\ batch' = <<batch[1] + 1, batch[2]>>
    /\ LET e == ledgers[batch[1]] IN
          \/ /\ invoices' = IF e = Empty THEN invoices
                            ELSE [invoices EXCEPT ![e.invoice] = Upsert(@, e)]
             /\ UNCHANGED <<skipped, pollerFaults>>
          \/ /\ e # Empty /\ PollerFault
             /\ skipped' = skipped \cup {batch[1]}
             /\ UNCHANGED invoices
    /\ UNCHANGED <<ledgers, cursorFile, mode, cursor, since>>

(* The cursor advances and is saved once the page is through (in a mutant,  *)
(* before).                                                                 *)
AnyTime == mode = "process"
PageDone == mode = "process" /\ batch[1] > batch[2]

AdvanceCursor ==
    /\ PageDone
    /\ cursor' = batch[2]
    /\ mode' = "save"
    /\ UNCHANGED <<ledgers, invoices, cursorFile, batch, since, skipped,
                   pollerFaults>>

(* writeFile empties the file and then writes it; whether the write succeeds*)
(* or throws, the loop goes on with the cursor it has.                      *)
SaveCursor ==
    /\ mode = "save"
    /\ cursorFile' = cursor
    /\ mode' = "poll" /\ batch' = <<1, 0>>
    /\ UNCHANGED <<ledgers, invoices, cursor, since, skipped, pollerFaults>>

SaveCursorFails ==
    /\ mode = "save" /\ PollerFault
    /\ cursorFile' \in {cursorFile, Torn}
    /\ mode' = "poll" /\ batch' = <<1, 0>>
    /\ UNCHANGED <<ledgers, invoices, cursor, since, skipped>>

(* The process stops, perhaps in the middle of a write.                     *)
StopPoller ==
    /\ mode # "start" /\ PollerFault
    /\ mode' = "start" /\ cursor' = None /\ batch' = <<1, 0>>
    /\ cursorFile' \in IF mode = "save" THEN {cursorFile, Torn} ELSE {cursorFile}
    /\ UNCHANGED <<ledgers, invoices, since, skipped>>

PollerStep ==
    \/ StartPoller \/ GetLatestLedger \/ GetEvents \/ ProcessEvent
    \/ AdvanceCursor \/ SaveCursor

PollerNext ==
    \/ CloseLedger \/ PollerStep
    \/ GetLatestLedgerFails \/ SaveCursorFails \/ StopPoller

PollerSpec == PollerInit /\ [][PollerNext]_pollerVars

-----------------------------------------------------------------------------
(* Properties *)

(* The last event of an invoice up to a ledger, of those since the cursor   *)
(* began.                                                                   *)
Latest(v, to) ==
    LET its == {k \in since..to : ledgers[k] # Empty /\ ledgers[k].invoice = v}
    IN  IF its = {} THEN 0 ELSE CHOOSE k \in its : \A l \in its : l <= k

(* Once the process has caught up, a row says what the last event of its   *)
(* invoice made of it and keeps what the first one brought: though it may   *)
(* have stopped between any two writes, been told old events again after   *)
(* newer ones, or found its file torn.                                      *)
(*                                                                          *)
(* Events that failed are excused, and lost.  The documentation has it      *)
(* otherwise: "Only advance cursor after: 1. Events successfully fetched    *)
(* from RPC 2. Events successfully processed 3. Cursor successfully         *)
(* persisted to storage" (INDEXER_POLLING_RESILIENCE.md:106).  processEvent *)
(* catches and logs what it meets (poller.ts:237), so the cursor passes the *)
(* event (ProcessEvent); and the cursor is assigned before it is saved      *)
(* (poller.ts:116), so a save that fails leaves the process on the new one. *)
RowsCurrent ==
    mode = "poll" /\ cursor # None /\ ~Eventful(cursor + 1, Len(ledgers)) =>
        \A v \in Invoices :
            LET k == Latest(v, cursor) IN
                k # 0 /\ k \notin skipped =>
                    /\ invoices[v].status = ledgers[k].status
                    /\ (\E l \in since..cursor : ledgers[l] = Event(v, "Pending")
                                                 /\ l \notin skipped)
                          => invoices[v].details

(* The file never runs ahead of the table, so that a restart loses nothing: *)
(* a row says what the last event up to the ledger in the file made of it,  *)
(* or a later one.                                                          *)
CursorHonest ==
    cursorFile \notin {None, Torn} =>
        \A v \in Invoices :
            LET k == Latest(v, cursorFile) IN
                k # 0 /\ k \notin skipped =>
                    \E l \in k..Len(ledgers) :
                        ledgers[l] = Event(v, invoices[v].status)
==============================================================================
