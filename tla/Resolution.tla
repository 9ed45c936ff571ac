------------------------------ MODULE Resolution ------------------------------
(***************************************************************************)
(* How the backend settles one market: the auto-resolution and auto-lock   *)
(* jobs of every backend process (backend/src/cron, backend/src/oracle) and*)
(* the administrators' requests (AdminController, MarketController) that   *)
(* are in flight beside them.  All work on the market's row, its dispute   *)
(* and report rows and, by transactions, on its contract.                  *)
(*                                                                         *)
(* Every await between two changes of shared state is a step of its own.   *)
(* A transaction is sent by StellarService.invokeContract, which promises  *)
(* what InvokeContract.tla shows: a hash for an operation that has been    *)
(* applied; an error for one that has been applied or not.  The contract   *)
(* is Market.tla, reduced to what these transactions see of it, with one   *)
(* oracle beside the backend's own; while it is paused its refusals are    *)
(* failures like others.  The indexer is StellarIndexer.tla with nothing   *)
(* lost.                                                                   *)
(***************************************************************************)
EXTENDS Integers, Sequences, FiniteSets

CONSTANTS
    Instances,    \* backend processes, each with its cron jobs
    Handlers,     \* administrators' requests in flight
    Outcomes,     \* verdicts a report can carry
    Fight,        \* the result of the fight
    Confirming,   \* the boxing APIs that come to know of it
    Authorised,   \* the oracle's key, which is whitelisted and signs every
                  \* transaction, is also the contract's administrator
    MaxRequests,  \* bound: requests made
    MaxFaults     \* bound: failures of process, database and network

Workers == Instances \cup Handlers
Sources == {"primary", "fallback"}
Absent == "absent"        \* no such key
Null == "null"
Undefined == "undefined"

ASSUME ResolutionAssumption ==
    /\ IsFiniteSet(Instances) /\ Instances \cap Handlers = {}
    /\ Authorised \in BOOLEAN /\ Fight \in Outcomes
    /\ Outcomes \cap {Absent, Null, Undefined} = {}
    /\ Confirming \subseteq {"primary", "fallback"}
    /\ MaxRequests \in Nat /\ MaxFaults \in Nat

VARIABLES
    chain,        \* the contract: status, outcome, who reported what
    spoken,       \* history: what the backend's oracle reported to it
    broadcasts,   \* history: dispute_market transactions applied
    age,          \* 0 young, 1 lock threshold, 2 scheduled_at, 3 the deadline past
    confirmed,    \* the result of the fight is out
    cache,        \* fight_result:* and fight_result_fallback:* in Redis
    row,          \* markets: status and outcome
    disputes,     \* disputes: the status of each row, oldest first
    reports,      \* oracle_reports
    events,       \* emitted by the contract and not yet indexed
    pc, verdict, id,      \* where each worker is; its outcome; its report row
    requests, faults      \* how much of the bounds is used up

ledger == <<chain, spoken, broadcasts, events>>
tables == <<row, disputes, reports>>
world == <<age, confirmed, cache>>
worker == <<pc, verdict, id>>
budget == <<requests, faults>>
vars == <<ledger, tables, world, worker, budget>>

Init ==
    /\ chain = [status |-> "Open", outcome |-> Null, ours |-> Null, other |-> Null]
    /\ spoken = Null /\ broadcasts = 0 /\ events = <<>>
    /\ age = 0
    /\ confirmed = FALSE
    /\ cache = [s \in Sources |-> Absent]
    /\ row = [status |-> "open", outcome |-> Null]
    /\ disputes = <<>> /\ reports = <<>>
    /\ pc = [w \in Workers |-> "idle"]
    /\ verdict = [w \in Workers |-> Null]
    /\ id = [w \in Workers |-> 0]
    /\ requests = 0 /\ faults = 0

Goto(w, label) == pc' = [pc EXCEPT ![w] = label]

(* A worker that is done, or that throws, forgets its local variables.  (How*)
(* the job counts what it catches is in OracleAlerts.tla.)                  *)
Leave(w) ==
    /\ Goto(w, "idle")
    /\ verdict' = [verdict EXCEPT ![w] = Null]
    /\ id' = [id EXCEPT ![w] = 0]

Fault == faults < MaxFaults /\ faults' = faults + 1

-----------------------------------------------------------------------------
(* The contract *)

RowStatus(s) == CASE s = "Locked" -> "locked"
                  [] s = "Resolved" -> "resolved"
                  [] s = "Cancelled" -> "cancelled"

(* The indexer has no handler for a dispute. *)
Turn(c) ==
    /\ chain' = c
    /\ events' = IF c.status \in {chain.status, "Disputed"} THEN events
                 ELSE Append(events, [status |-> RowStatus(c.status),
                                      outcome |-> c.outcome])

Report(who, x) ==
    LET kept == [chain EXCEPT ![who] = x]
        agree == kept.ours = kept.other
    IN  IF agree THEN [kept EXCEPT !.status = "Resolved", !.outcome = x] ELSE kept

CanReport(who) == chain.status = "Locked" /\ chain[who] = Null

(* cancel_market takes a whitelisted oracle, as the job is, and otherwise   *)
(* the administrator, as whom cancelMarket asks.                            *)
OracleCanCancel == chain.status \in {"Open", "Locked"}
CanCancel == Authorised /\ OracleCanCancel
CanDispute == Authorised /\ chain.status = "Resolved"

(* What invokeContract does with a transaction that the contract, in its    *)
(* present state, accepts or refuses.                                       *)
Invoke(w, can, after, ok) ==
    \/ /\ can /\ Turn(after)
       /\ \/ Goto(w, ok) /\ UNCHANGED <<verdict, id, faults>>
          \/ Fault /\ Leave(w)
    \/ /\ UNCHANGED <<chain, events>>
       /\ Leave(w)
       /\ IF can THEN Fault ELSE UNCHANGED faults

Applied == chain' # chain

(* Anyone may lock the market; an oracle, or all others, report; the        *)
(* administrator ends a dispute by a transaction of his own, as             *)
(* adminOverrideResult, which nothing calls, would.                         *)
Lock ==
    /\ age >= 1 /\ chain.status = "Open"
    /\ Turn([chain EXCEPT !.status = "Locked"])
    /\ UNCHANGED <<spoken, broadcasts, tables, world, worker, budget>>

OthersDecide(x) ==
    /\ chain.status = "Locked"
    /\ Turn([chain EXCEPT !.status = "Resolved", !.outcome = x])
    /\ UNCHANGED <<spoken, broadcasts, tables, world, worker, budget>>

OtherReports(x) ==
    /\ CanReport("other")
    /\ Turn(Report("other", x))
    /\ UNCHANGED <<spoken, broadcasts, tables, world, worker, budget>>

ResolveOnChain(x) ==
    /\ Authorised /\ chain.status = "Disputed"
    /\ Turn([chain EXCEPT !.status = "Resolved", !.outcome = x])
    /\ UNCHANGED <<spoken, broadcasts, tables, world, worker, budget>>

Age ==
    /\ age < 3 /\ age' = age + 1
    /\ UNCHANGED <<ledger, tables, confirmed, cache, worker, budget>>

Confirm ==
    /\ age >= 2 /\ ~confirmed
    /\ confirmed' = TRUE
    /\ UNCHANGED <<ledger, tables, age, cache, worker, budget>>

(* The indexer's handlers set status and outcome, whatever the row says. *)
Index ==
    /\ events # <<>>
    /\ events' = Tail(events)
    /\ row' = [status |-> Head(events).status,
               outcome |-> IF Head(events).status = "resolved"
                           THEN Head(events).outcome ELSE row.outcome]
    /\ UNCHANGED <<chain, spoken, broadcasts, disputes, reports, world,
                   worker, budget>>

-----------------------------------------------------------------------------
(* The jobs *)

(* An update of the row under a condition on its status, which the mutant   *)
(* forgets.                                                                 *)
AnyStatus(from) == TRUE
StatusIn(from) == row.status \in from

SetRow(from, to) ==
    /\ StatusIn(from)
    /\ row' = [row EXCEPT !.status = to]
    /\ UNCHANGED <<ledger, disputes, reports, world, worker>>

(* runAutoLockMarketsJob *)
AutoLock == age >= 1 /\ SetRow({"open"}, "locked") /\ UNCHANGED budget

(* isResolutionRunning, and the query for markets that are due.             *)
JobStart(i) ==
    /\ pc[i] = "idle"
    /\ row.status \in {"open", "locked"}
    /\ age >= 2
    /\ Goto(i, "fetch")
    /\ UNCHANGED <<ledger, tables, world, verdict, id, budget>>

(* cache.get answers null for an absent key, but the fetch asks the API only*)
(* when it is told undefined.                                               *)
CacheGet(s) == IF cache[s] = Absent THEN Null ELSE cache[s]

Answer(s) == IF s \in Confirming /\ confirmed THEN Fight ELSE Null

FetchResult(s) == IF CacheGet(s) # Undefined THEN CacheGet(s) ELSE Answer(s)

FetchExternalFightResult == FetchResult("primary")
FetchFallbackResult == FetchResult("fallback")

Fetched == IF FetchExternalFightResult # Null THEN FetchExternalFightResult
                                              ELSE FetchFallbackResult

(* Without a result the market is skipped, or cancelled once overdue (and a *)
(* mutant that never gives up).                                             *)
Never == FALSE
Overdue == age = 3

Fetch(i) ==
    /\ pc[i] = "fetch"
    /\ verdict' = [verdict EXCEPT ![i] = Fetched]
    /\ Goto(i, IF Fetched # Null THEN "insert"
               ELSE IF Overdue THEN "cancel" ELSE "idle")
    /\ cache' = [s \in Sources |->
                   IF FetchResult(s) # Null THEN FetchResult(s) ELSE cache[s]]
    /\ UNCHANGED <<ledger, tables, age, confirmed, id, budget>>

(* The row is left as it is. *)
AutoCancel(i) ==
    /\ pc[i] = "cancel"
    /\ Invoke(i, OracleCanCancel, [chain EXCEPT !.status = "Cancelled"], "idle")
    /\ UNCHANGED <<spoken, broadcasts, tables, world, requests>>

-----------------------------------------------------------------------------
(* submitFightResult, called by the job and by resolveMarket *)

(* (The mutant inserts it accepted before it is sent.) *)
AcceptedReport(who, x, ok) == [who |-> who, outcome |-> x, accepted |-> TRUE]
NewReport(who, x, ok) == [who |-> who, outcome |-> x, accepted |-> ok]

InsertReport(w) ==
    /\ pc[w] = "insert"
    /\ reports' = Append(reports, NewReport("oracle", verdict[w], FALSE))
    /\ id' = [id EXCEPT ![w] = Len(reports')]
    /\ Goto(w, "report")
    /\ UNCHANGED <<ledger, row, disputes, world, verdict, budget>>

SendReport(w) ==
    /\ pc[w] = "report"
    /\ Invoke(w, CanReport("ours"), Report("ours", verdict[w]), "accept")
    /\ spoken' = IF Applied THEN verdict[w] ELSE spoken
    /\ UNCHANGED <<broadcasts, tables, world, requests>>

AcceptReport(w) ==
    /\ pc[w] = "accept"
    /\ reports' = [reports EXCEPT ![id[w]].accepted = TRUE]
    /\ Leave(w)
    /\ UNCHANGED <<ledger, row, disputes, world, budget>>

-----------------------------------------------------------------------------
(* Administrators' requests *)

(* A request that passes its checks goes on to its first change. *)
Begin(h, check, label, x) ==
    /\ pc[h] = "idle" /\ requests < MaxRequests /\ check
    /\ requests' = requests + 1
    /\ Goto(h, label)
    /\ verdict' = [verdict EXCEPT ![h] = x]
    /\ UNCHANGED <<ledger, tables, world, id, faults>>

RequestResolve(h, x) == Begin(h, row.status # "resolved", "insert", x)

RequestCancel(h) == Begin(h, row.status \in {"open", "locked"}, "cancelMarket", Null)

ActiveDispute == \E d \in DOMAIN disputes : disputes[d] \in {"open", "reviewing"}

RequestFlag(h) == Begin(h, row.status = "resolved" /\ ~ActiveDispute, "flag", Null)

RequestRuling(h, x) ==
    Begin(h, /\ row.status = "disputed" /\ disputes # <<>>
             /\ disputes[Len(disputes)] = "reviewing", "raise", x)

CancelMarket(h) ==
    /\ pc[h] = "cancelMarket"
    /\ Invoke(h, CanCancel, [chain EXCEPT !.status = "Cancelled"], "setCancelled")
    /\ UNCHANGED <<spoken, broadcasts, tables, world, requests>>

FlagDispute(h) ==
    /\ pc[h] = "flag"
    /\ Invoke(h, CanDispute, [chain EXCEPT !.status = "Disputed"], "insertDispute")
    /\ broadcasts' = IF Applied THEN broadcasts + 1 ELSE broadcasts
    /\ UNCHANGED <<spoken, tables, world, requests>>

(* (A mutant that puts the row in before the transaction.) *)
AtFlag(h) == pc[h] \in {"flag", "insertDispute"}
AtInsertDispute(h) == pc[h] = "insertDispute"

InsertDispute(h) ==
    /\ AtInsertDispute(h)
    /\ disputes' = Append(disputes, "open")
    /\ Goto(h, "setDisputed")
    /\ UNCHANGED <<ledger, row, reports, world, verdict, id, budget>>

(* updateMarketStatus is the last step of cancelMarket and flagDispute. *)
UpdateMarketStatus(h, label, status) ==
    /\ pc[h] = label
    /\ row' = [row EXCEPT !.status = status]
    /\ Leave(h)
    /\ UNCHANGED <<ledger, disputes, reports, world, budget>>

Advance(from, to) ==
    [d \in DOMAIN disputes |-> IF disputes[d] = from THEN to ELSE disputes[d]]
Any(s) == \E d \in DOMAIN disputes : disputes[d] = s

InvestigateDispute ==
    /\ row.status = "disputed" /\ Any("open")
    /\ disputes' = Advance("open", "reviewing")
    /\ UNCHANGED <<ledger, row, reports, world, worker, budget>>

(* resolveDispute calls raiseDispute, which sends dispute_market.  Only a    *)
(* market whose dispute has been ended by other means accepts it.           *)
RaiseDispute(h) ==
    /\ pc[h] = "raise"
    /\ Invoke(h, CanDispute, [chain EXCEPT !.status = "Disputed"], "override")
    /\ broadcasts' = IF Applied THEN broadcasts + 1 ELSE broadcasts
    /\ UNCHANGED <<spoken, tables, world, requests>>

RecordOverride(h) ==
    /\ pc[h] = "override"
    /\ reports' = Append(reports, NewReport("admin", verdict[h], TRUE))
    /\ Goto(h, "close")
    /\ UNCHANGED <<ledger, row, disputes, world, verdict, id, budget>>

CloseDispute(h) ==
    /\ pc[h] = "close"
    /\ disputes' = Advance("reviewing", "resolved")
    /\ IF Any("reviewing") THEN Goto(h, "settle") /\ UNCHANGED <<verdict, id>>
                           ELSE Leave(h)
    /\ UNCHANGED <<ledger, row, reports, world, budget>>

SettleRow(h) ==
    /\ pc[h] = "settle"
    /\ row' = [status |-> "resolved", outcome |-> verdict[h]]
    /\ Leave(h)
    /\ UNCHANGED <<ledger, disputes, reports, world, budget>>

(* bulkPauseMarkets and bulkCancelMarkets change the row and nothing else.  *)
Bulk(from, to) ==
    /\ requests < MaxRequests /\ requests' = requests + 1
    /\ SetRow(from, to)
    /\ UNCHANGED faults

-----------------------------------------------------------------------------
(* A call of the database throws, or the process stops. *)
Stop(w) ==
    /\ pc[w] # "idle"
    /\ Fault /\ Leave(w)
    /\ UNCHANGED <<ledger, tables, world, requests>>

Job(i) == JobStart(i) \/ Fetch(i) \/ AutoCancel(i)

Submission(w) == InsertReport(w) \/ SendReport(w) \/ AcceptReport(w)

Handling(h) ==
    \/ CancelMarket(h) \/ UpdateMarketStatus(h, "setCancelled", "cancelled")
    \/ FlagDispute(h) \/ InsertDispute(h)
    \/ UpdateMarketStatus(h, "setDisputed", "disputed")
    \/ RaiseDispute(h) \/ RecordOverride(h) \/ CloseDispute(h) \/ SettleRow(h)

Request(h) ==
    \/ \E x \in Outcomes : RequestResolve(h, x) \/ RequestRuling(h, x)
    \/ RequestCancel(h) \/ RequestFlag(h)

Next ==
    \/ Lock \/ Age \/ Confirm \/ Index \/ AutoLock \/ InvestigateDispute
    \/ \E x \in Outcomes : OtherReports(x) \/ OthersDecide(x) \/ ResolveOnChain(x)
    \/ \E i \in Instances : Job(i)
    \/ \E w \in Workers : Submission(w) \/ Stop(w)
    \/ \E h \in Handlers : Request(h) \/ Handling(h)
    \/ Bulk({"open"}, "locked") \/ Bulk({"open", "locked"}, "cancelled")

(* The cron fires every ten minutes, and what it has begun goes on. *)
Fairness == \A i \in Instances : WF_vars(Job(i) \/ Submission(i))

Spec == Init /\ [][Next]_vars /\ Fairness

-----------------------------------------------------------------------------
(* Properties *)

(* A report row that submitFightResult marks accepted is what the contract  *)
(* was told, and there is one such row, however many jobs and requests      *)
(* submitted results, the same or others, at the same time.                 *)
AcceptedReportsStand ==
    LET accepted == {r \in DOMAIN reports : reports[r].who = "oracle"
                                            /\ reports[r].accepted}
    IN  /\ Cardinality(accepted) <= 1
        /\ \A r \in accepted : reports[r].outcome = spoken

(* Every dispute row stands for a dispute of its own on the contract, so two*)
(* administrators who flag the same market do not both get a row; and none  *)
(* is closed without one transaction more.                                  *)
DisputeRowsBacked ==
    Len(disputes) + (IF Any("resolved") THEN 1 ELSE 0) <= broadcasts

(* Once its events are indexed the row of an undisputed market says what the*)
(* contract came to, whatever jobs, bulk changes and requests that read the *)
(* row before wrote to it in between.                                       *)
RowConverges ==
    events = <<>> /\ broadcasts = 0 /\ chain.status \in {"Resolved", "Cancelled"} =>
        /\ row.status = RowStatus(chain.status)
        /\ chain.status = "Resolved" => row.outcome = chain.outcome

(* The stakes of an overdue market do not stay locked: while its row says   *)
(* open or locked, the job keeps asking for the cancellation until the      *)
(* contract is decided or cancelled.  (A bulk cancellation takes the row    *)
(* from the job and leaves the contract as it is.)                          *)
OverdueSettles ==
    (age = 3 /\ chain.status \in {"Open", "Locked"}) ~>
        (chain.status \notin {"Open", "Locked"} \/ row.status \notin {"open", "locked"})

(* The job cancels a market only if its result is not confirmed: the reason *)
(* it gives the contract, 'fight result not confirmed within deadline'.     *)
CancelledOnlyUnconfirmed ==
    [][\A i \in Instances :
          pc[i] = "fetch" /\ pc'[i] = "cancel" => ~confirmed]_vars
==============================================================================
