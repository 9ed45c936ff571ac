---------------------------- MODULE StellarIndexer ----------------------------
(***************************************************************************)
(* The backend's indexer (backend/src/indexer/StellarIndexer.ts): it reads *)
(* the contracts' events ledger by ledger and rewrites the markets and     *)
(* bets tables from them, remembering in indexer_checkpoints how far it is.*)
(*                                                                         *)
(* Two processes run the same processLedger: the poller of startIndexer    *)
(* and an operator's backfillLedgerRange.  The event stream the indexer    *)
(* subscribes to is a third source.  Every await is a step of its own: the *)
(* database, the endpoint or the process may fail at each.                 *)
(*                                                                         *)
(* The chain is the environment: it emits the events of the contracts in   *)
(* the orders the contracts allow.  Notification jobs, oracle report rows  *)
(* and the cache are written by the handlers and read by none of this; they*)
(* are left out.                                                           *)
(***************************************************************************)
EXTENDS Integers, Sequences, FiniteSets, Functions

CONSTANTS
    Markets,      \* market ids
    Bettors,      \* bettor addresses
    Sides,        \* sides that are bet on
    Amounts,      \* stakes
    Watched,      \* contracts whose events getEvents is asked for
    Structs,      \* how the data of an event that is a struct arrives
    Limit,        \* events in one answer of getEvents: 100
    BatchSize,    \* batch_size of a backfill
    MaxEvents,    \* bound: no more events are emitted
    MaxLedgers,   \* bound: no more ledgers close
    MaxFaults,    \* bound: failures of process, database and endpoint
    MaxBackfills  \* bound: backfills the operator starts

None == "none"

ASSUME IndexerAssumption ==
    /\ IsFiniteSet(Bettors) /\ IsFiniteSet(Sides)
    /\ None \notin Markets \cup Bettors \cup Sides
    /\ Amounts \subseteq Nat
    /\ Watched \subseteq {"factory", "market"}
    /\ Structs \in {"vec", "map"}
    /\ Limit \in Nat \ {0} /\ BatchSize \in Nat \ {0}
    /\ MaxEvents \in Nat /\ MaxLedgers \in Nat
    /\ MaxFaults \in Nat /\ MaxBackfills \in Nat

Txs == 1..MaxEvents      \* the n-th transaction emits the n-th event
Genesis == 0             \* GENESIS_LEDGER
Workers == {"poller", "backfill"}

VARIABLES
    chain, latest,      \* events emitted, each in its ledger; ledgers closed
    markets, bets,      \* rows by market_id, by tx_hash
    eventRows,          \* blockchain_events: tx_hash -> event_type, or None
    checkpoint,         \* indexer_checkpoints.last_processed_ledger
    pc, seq, to, queue, \* where each worker is: ledger, last ledger, events
    last,               \* the poller's lastProcessed
    from,               \* the backfill's from_ledger
    swallowed,          \* history: ledgers in which an error was swallowed
    faults, backfills   \* how much of the bounds is used up

network == <<chain, latest>>
rows == <<markets, bets>>
worker == <<pc, seq, to, queue, last, from>>
budget == <<faults, backfills>>
vars == <<network, rows, eventRows, checkpoint, worker, swallowed, budget>>

-----------------------------------------------------------------------------
(* The contracts *)

Turns == {"market_created", "market_locked", "market_resolved",
          "market_disputed", "market_cancelled"}

LastTurn(m) ==
    LET turns == SelectSeq(chain, LAMBDA e : e.market = m /\ e.kind \in Turns)
    IN  IF turns = <<>> THEN None ELSE turns[Len(turns)].kind

Did(kind, m, b) == \E t \in DOMAIN chain : chain[t].kind = kind
                                           /\ chain[t].market = m
                                           /\ chain[t].bettor = b

(* What Market.tla lets happen next; the end of a dispute is a verdict too. *)
MayEmit(e) ==
    LET turn == LastTurn(e.market)
        once == ~Did(e.kind, e.market, e.bettor)
        hasBet == Did("bet_placed", e.market, e.bettor)
    IN  CASE e.kind = "market_created"   -> turn = None
          [] e.kind = "bet_placed"       -> turn = "market_created" /\ once
          [] e.kind = "market_locked"    -> turn = "market_created"
          [] e.kind = "market_resolved"  -> turn \in {"market_locked", "market_disputed"}
          [] e.kind = "market_disputed"  -> turn = "market_resolved"
          [] e.kind = "market_cancelled" -> turn \in {"market_created", "market_locked"}
          [] e.kind = "winnings_claimed" -> turn = "market_resolved" /\ hasBet /\ once
          [] e.kind = "refund_claimed"   -> turn = "market_cancelled" /\ hasBet /\ once

(* A bet has a bettor, a side and an amount; a claim has a bettor. *)
Events ==
    [kind : Turns, market : Markets, bettor : {None}, side : {None}, amount : {0}]
      \cup [kind : {"bet_placed"}, market : Markets, bettor : Bettors,
            side : Sides, amount : Amounts]
      \cup [kind : {"winnings_claimed", "refund_claimed"}, market : Markets,
            bettor : Bettors, side : {None}, amount : {0}]

Emit(e) ==
    /\ Len(chain) < MaxEvents
    /\ latest < MaxLedgers
    /\ MayEmit(e)
    /\ chain' = Append(chain, [kind |-> e.kind, market |-> e.market,
                               bettor |-> e.bettor, side |-> e.side,
                               amount |-> e.amount,
                               ledger |-> latest + 1, tx |-> Len(chain) + 1])
    /\ UNCHANGED <<latest, rows, eventRows, checkpoint, worker, swallowed, budget>>

CloseLedger ==
    /\ latest < MaxLedgers
    /\ latest' = latest + 1
    /\ UNCHANGED <<chain, rows, eventRows, checkpoint, worker, swallowed, budget>>

(* The factory tells of a new market, the market of all that follows.       *)
Emitter(e) == IF e.kind = "market_created" THEN "factory" ELSE "market"

(* buildEventPayload picks the fields of the data by their place in a list, *)
(* and finds none in a map.                                                 *)
Payload(e) ==
    IF Structs = "map" /\ e.kind \in {"bet_placed", "winnings_claimed"}
    THEN [e EXCEPT !.bettor = None, !.side = None, !.amount = 0]
    ELSE e

(* The n-th smallest of a set of numbers. *)
Rank(S, t) == Cardinality({u \in S : u <= t})
Nth(S, n) == CHOOSE t \in S : Rank(S, t) = n

(* getEvents answers with what happened from startLedger on, in order and up*)
(* to a limit, not with that ledger's events alone.  (The mutant starts one *)
(* later.)                                                                  *)
AtMost(a, b) == IF a <= b THEN a ELSE b

Found(s) == {t \in DOMAIN chain : /\ chain[t].ledger \in s..latest
                                  /\ Emitter(chain[t]) \in Watched}

AnswerFrom(s) == [i \in 1..AtMost(Limit, Cardinality(Found(s))) |->
                    Payload(chain[Nth(Found(s), i)])]

EventsAfter(s) == AnswerFrom(s + 1)
EventsFrom(s) == AnswerFrom(s)

-----------------------------------------------------------------------------
(* The handlers *)

NoMarket == [status |-> None, pool |-> [s \in Sides |-> 0], total |-> 0]
NewMarket == [NoMarket EXCEPT !.status = "open"]
NoBet == [market |-> None, bettor |-> None, side |-> None, amount |-> 0,
          claimed |-> FALSE]

HasRow(m) == markets[m].status # None

(* ON CONFLICT (market_id) DO NOTHING (and a mutant that overwrites). *)
InsertedOver(m) == [markets EXCEPT ![m] = NewMarket]
Inserted(m) == IF HasRow(m) THEN markets ELSE [markets EXCEPT ![m] = NewMarket]

(* ON CONFLICT (tx_hash) DO NOTHING (and a mutant that overwrites). *)
NewBet(e) == [market |-> e.market, bettor |-> e.bettor, side |-> e.side,
              amount |-> e.amount, claimed |-> FALSE]
BetStoredOver(e) == [bets EXCEPT ![e.tx] = NewBet(e)]
BetStored(e) ==
    IF bets[e.tx] = NoBet THEN [bets EXCEPT ![e.tx] = NewBet(e)] ELSE bets

(* bets.market_id REFERENCES markets: without the market's row the insert,  *)
(* and with it the transaction, fails; so it does when the amount is blank. *)
HandlerFails(e) == e.kind = "bet_placed" /\ (~HasRow(e.market) \/ e.side = None)

SetStatus(m, st) ==
    /\ markets' = IF HasRow(m) THEN [markets EXCEPT ![m].status = st] ELSE markets
    /\ UNCHANGED bets

(* The bet row is kept once, the pools are added to every time. *)
HandleBetPlaced(e) ==
    /\ bets' = BetStored(e)
    /\ markets' = [markets EXCEPT ![e.market].pool[e.side] = @ + e.amount,
                                  ![e.market].total = @ + e.amount]

HandleClaimed(e) ==
    /\ bets' = [t \in Txs |->
                  IF bets[t].market = e.market /\ bets[t].bettor = e.bettor
                  THEN [bets[t] EXCEPT !.claimed = TRUE] ELSE bets[t]]
    /\ UNCHANGED markets

(* processEvent: what a handler throws is logged and forgotten; a dispute    *)
(* has no handler.                                                          *)
ProcessEvent(e) ==
    IF HandlerFails(e) THEN UNCHANGED rows
    ELSE \/ e.kind = "market_created" /\ markets' = Inserted(e.market)
                                      /\ UNCHANGED bets
         \/ e.kind = "bet_placed" /\ HandleBetPlaced(e)
         \/ e.kind = "market_locked" /\ SetStatus(e.market, "locked")
         \/ e.kind = "market_resolved" /\ SetStatus(e.market, "resolved")
         \/ e.kind = "market_cancelled" /\ SetStatus(e.market, "cancelled")
         \/ e.kind \in {"winnings_claimed", "refund_claimed"} /\ HandleClaimed(e)
         \/ e.kind = "market_disputed" /\ UNCHANGED rows

-----------------------------------------------------------------------------
(* The indexer *)

Init ==
    /\ chain = <<>> /\ latest = 0
    /\ markets = [m \in Markets |-> NoMarket]
    /\ bets = [t \in Txs |-> NoBet]
    /\ eventRows = [t \in Txs |-> None]
    /\ checkpoint = Genesis
    /\ pc = [w \in Workers |-> "down"]
    /\ seq = [w \in Workers |-> 0] /\ to = [w \in Workers |-> 0]
    /\ queue = [w \in Workers |-> <<>>]
    /\ last = 0 /\ from = 0
    /\ swallowed = {}
    /\ faults = 0 /\ backfills = 0

Goto(w, label) == pc' = [pc EXCEPT ![w] = label]

(* A worker that is done, or dead, has no more use for its local variables. *)
Leave(w, label) ==
    /\ Goto(w, label)
    /\ seq' = [seq EXCEPT ![w] = 0]
    /\ to' = [to EXCEPT ![w] = 0]
    /\ queue' = [queue EXCEPT ![w] = <<>>]
    /\ from' = IF w = "backfill" THEN 0 ELSE from

(* startIndexer reads the checkpoint twice.  When a backfill has moved it   *)
(* in between, backfillFromLedger runs: it fetches operations, whose types  *)
(* no handler knows, and saves the checkpoint it was given, if that fetch   *)
(* ends: it begins again and again while its first ledger has a transaction*)
(* (HistoricalEvents).                                                      *)
Boot ==
    /\ pc["poller"] = "down"
    /\ last' = checkpoint
    /\ Goto("poller", "boot")
    /\ UNCHANGED <<network, rows, eventRows, checkpoint, seq, to, queue, from,
                   swallowed, budget>>

LoadCheckpoint ==
    /\ pc["poller"] = "boot"
    /\ IF checkpoint > last
       THEN /\ Goto("poller", "resume")
            /\ to' = [to EXCEPT !["poller"] = checkpoint]
       ELSE Goto("poller", "idle") /\ UNCHANGED to
    /\ UNCHANGED <<network, rows, eventRows, checkpoint, seq, queue, last, from,
                   swallowed, budget>>

BackfillFromLedger ==
    /\ pc["poller"] = "resume"
    /\ checkpoint' = to["poller"]
    /\ last' = to["poller"]
    /\ Leave("poller", "idle")
    /\ UNCHANGED <<network, rows, eventRows, swallowed, budget>>

(* The poll loop (and a mutant that leaves the last ledger for later).      *)
BehindByTwo == latest > last + 1
Behind == latest > last

Poll ==
    /\ pc["poller"] = "idle"
    /\ Behind
    /\ to' = [to EXCEPT !["poller"] = latest]
    /\ seq' = [seq EXCEPT !["poller"] = last + 1]
    /\ Goto("poller", "fetch")
    /\ UNCHANGED <<network, rows, eventRows, checkpoint, queue, last, from,
                   swallowed, budget>>

(* An operator backfills ledgers that have closed, and does not leave a gap *)
(* after the checkpoint, which backfillLedgerRange moves to wherever it is. *)
StartBackfill(first, final) ==
    /\ pc["backfill"] = "down"
    /\ backfills < MaxBackfills
    /\ first <= checkpoint + 1 /\ first <= final
    /\ from' = first
    /\ seq' = [seq EXCEPT !["backfill"] = first]
    /\ to' = [to EXCEPT !["backfill"] = final]
    /\ Goto("backfill", "fetch")
    /\ backfills' = backfills + 1
    /\ UNCHANGED <<network, rows, eventRows, checkpoint, queue, last, swallowed,
                   faults>>

(* processLedger: fetch the events, then for each keep the raw event and    *)
(* process it.                                                              *)
Fetch(w) ==
    /\ pc[w] = "fetch"
    /\ queue' = [queue EXCEPT ![w] = EventsFrom(seq[w])]
    /\ Goto(w, IF queue'[w] = <<>> THEN "save" ELSE "record")
    /\ UNCHANGED <<network, rows, eventRows, checkpoint, seq, to, last, from,
                   swallowed, budget>>

Record(w) ==
    /\ pc[w] = "record"
    /\ eventRows' = [eventRows EXCEPT ![Head(queue[w]).tx] = Head(queue[w]).kind]
    /\ Goto(w, "handle")
    /\ UNCHANGED <<network, rows, checkpoint, seq, to, queue, last, from,
                   swallowed, budget>>

Handle(w) ==
    /\ pc[w] = "handle"
    /\ ProcessEvent(Head(queue[w]))
    /\ swallowed' = IF HandlerFails(Head(queue[w])) THEN swallowed \cup {seq[w]}
                                                    ELSE swallowed
    /\ queue' = [queue EXCEPT ![w] = Tail(@)]
    /\ Goto(w, IF Len(queue[w]) = 1 THEN "save" ELSE "record")
    /\ UNCHANGED <<network, eventRows, checkpoint, seq, to, last, from, budget>>

(* The poller saves after every ledger, a backfill after every batch. *)
SavesNow(w) ==
    \/ w = "poller"
    \/ seq[w] = to[w]
    \/ (seq[w] - from + 1) % BatchSize = 0

Save(w) ==
    /\ pc[w] = "save"
    /\ checkpoint' = IF SavesNow(w) THEN seq[w] ELSE checkpoint
    /\ last' = IF w = "poller" THEN seq[w] ELSE last
    /\ IF seq[w] < to[w]
       THEN /\ seq' = [seq EXCEPT ![w] = @ + 1]
            /\ Goto(w, "fetch")
            /\ UNCHANGED <<to, queue, from>>
       ELSE Leave(w, IF w = "poller" THEN "idle" ELSE "down")
    /\ UNCHANGED <<network, rows, eventRows, swallowed, budget>>

(* An event of the stream of the factory's events, while the indexer is     *)
(* subscribed.                                                              *)
Stream(t) ==
    /\ pc["poller"] \notin {"down", "boot", "resume"}
    /\ Emitter(chain[t]) = "factory"
    /\ chain[t].ledger <= latest
    /\ ProcessEvent(chain[t])
    /\ UNCHANGED <<network, eventRows, checkpoint, worker, swallowed, budget>>

(* Failures.  An error of getEvents or of the insert into blockchain_events *)
(* ends the ledger; an error in a handler ends the event, whose writes are  *)
(* undone, or done when only the answer to them, or what follows them, is   *)
(* lost; both are logged and forgotten.  Any other error ends the process,  *)
(* as a crash does.                                                         *)
Fault == faults < MaxFaults /\ faults' = faults + 1

LedgerFails(w) ==
    /\ pc[w] \in {"fetch", "record"}
    /\ Fault
    /\ swallowed' = swallowed \cup {seq[w]}
    /\ queue' = [queue EXCEPT ![w] = <<>>]
    /\ Goto(w, "save")
    /\ UNCHANGED <<network, rows, eventRows, checkpoint, seq, to, last, from,
                   backfills>>

EventFails(w) ==
    /\ pc[w] = "handle"
    /\ Fault
    /\ UNCHANGED rows \/ ProcessEvent(Head(queue[w]))
    /\ swallowed' = swallowed \cup {seq[w]}
    /\ queue' = [queue EXCEPT ![w] = Tail(@)]
    /\ Goto(w, IF Len(queue[w]) = 1 THEN "save" ELSE "record")
    /\ UNCHANGED <<network, eventRows, checkpoint, seq, to, last, from,
                   backfills>>

Crash(w) ==
    /\ pc[w] # "down"
    /\ Fault
    /\ Leave(w, "down")
    /\ last' = IF w = "poller" THEN 0 ELSE last
    /\ UNCHANGED <<network, rows, eventRows, checkpoint, swallowed, backfills>>

Works(w) == Fetch(w) \/ Record(w) \/ Handle(w) \/ Save(w)
PollerRuns == Boot \/ LoadCheckpoint \/ Poll \/ Works("poller")

Next ==
    \/ \E e \in Events : Emit(e)
    \/ CloseLedger
    \/ PollerRuns \/ BackfillFromLedger
    \/ \E first, final \in 1..latest : StartBackfill(first, final)
    \/ Works("backfill")
    \/ \E t \in DOMAIN chain : Stream(t)
    \/ \E w \in Workers : LedgerFails(w) \/ EventFails(w) \/ Crash(w)

(* The poll loop never ends by itself and a supervisor restarts it; nothing *)
(* makes the fetch of backfillFromLedger end.                               *)
Spec == Init /\ [][Next]_vars /\ WF_vars(PollerRuns)

-----------------------------------------------------------------------------
(* Properties *)

(* Every table keeps its constraints and every worker is somewhere in its   *)
(* code.                                                                    *)
TypeOK ==
    /\ latest \in Nat
    /\ \A m \in Markets : /\ DOMAIN markets[m].pool = Sides
                          /\ \A s \in Sides : markets[m].pool[s] \in Nat
    /\ \A t \in Txs : bets[t] # NoBet => bets[t].market \in Markets
    /\ checkpoint \in 0..latest
    /\ pc \in [Workers -> {"down", "boot", "resume", "idle", "fetch", "record",
                           "handle", "save"}]
    /\ \A w \in Workers : pc[w] \in {"record", "handle"} <=> queue[w] # <<>>
    /\ last \in 0..latest
    /\ swallowed \subseteq 1..latest

(* However events are lost, reordered or replayed, the pools of a market    *)
(* miss no bet on record and its total is their sum: the insert of the bet  *)
(* and the update of the pools commit together, and the market's row is     *)
(* there before (handleBetPlaced).  A replay adds to the pools what they    *)
(* already hold, so they may well be more: PoolsOfBets, below, is not kept. *)
StakeOn(m, s) ==
    [t \in Txs |-> IF bets[t].market = m /\ bets[t].side = s
                   THEN bets[t].amount ELSE 0]

PoolsCoverBets ==
    \A m \in Markets :
        /\ \A s \in Sides : SumFunctionOnSet(StakeOn(m, s), Txs)
                              <= markets[m].pool[s]
        /\ markets[m].total = SumFunction(markets[m].pool)

(* Rows are of their types, and the pools cover the bets.                   *)
RowsSound == TypeOK /\ PoolsCoverBets

(* What the checkpoint has passed is on record: every event asked for of a  *)
(* ledger up to it is in blockchain_events, and every bet among them in     *)
(* bets, unless an error was swallowed in that ledger or its events did not *)
(* fit into one answer.  Crashes between any two steps, and backfills, lose *)
(* nothing.                                                                 *)
Crowded(l) == Cardinality({t \in DOMAIN chain : chain[t].ledger = l}) > Limit

Indexed(t) ==
    /\ eventRows[t] = chain[t].kind
    /\ chain[t].kind = "bet_placed" => bets[t] # NoBet

Settled(t) ==
    \/ Indexed(t)
    \/ chain[t].ledger \in swallowed
    \/ Crowded(chain[t].ledger)

Asked(t) == Emitter(chain[t]) \in Watched

CheckpointHonest ==
    \A t \in DOMAIN chain :
        Asked(t) /\ chain[t].ledger <= checkpoint => Settled(t)

(* A bet's row, once written, is the bet: a replay of its event neither     *)
(* changes it nor opens a claimed bet again.                                *)
BetRowsStable ==
    [][\A t \in Txs : bets[t] # NoBet =>
          bets'[t] \in {bets[t], [bets[t] EXCEPT !.claimed = TRUE]}]_vars

(* Every ledger that closes has its events, whoever emits them, indexed in  *)
(* the end, unless an error was swallowed or it was crowded: crashes and    *)
(* restarts, backfills that move the checkpoint back, and ledgers that close*)
(* while it works only delay the poller.  A poller that hangs for good as it*)
(* starts (BackfillFromLedger) indexes nothing.                             *)
LedgerSettled(l) == \A t \in DOMAIN chain : chain[t].ledger = l => Settled(t)

EventuallyIndexed ==
    \A l \in 1..MaxLedgers :
        []<>(pc["poller"] # "resume") => (latest >= l ~> LedgerSettled(l))

-----------------------------------------------------------------------------
(* "Uses ON CONFLICT DO UPDATE (via processLedger) so re-runs are safe"     *)
(* (StellarIndexer.ts:600): the pools of a market are the sums of its bets, *)
(* also after a backfill of ledgers that had been indexed.  handleBetPlaced *)
(* keeps the bet's row as it is and adds to the pools again.                *)
PoolsOfBets ==
    \A m \in Markets, s \in Sides :
        markets[m].pool[s] = SumFunctionOnSet(StakeOn(m, s), Txs)
==============================================================================
