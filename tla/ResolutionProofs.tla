--------------------------- MODULE ResolutionProofs ---------------------------
(***************************************************************************)
(* What the settlement of a market keeps, for any number of backend        *)
(* processes, requests, outcomes and failures: of the reports, of the      *)
(* disputes, and of the market's row against its contract.                 *)
(***************************************************************************)
EXTENDS Resolution, FiniteSetTheorems, TLAPS

Verdicts == Outcomes \cup {Null}
ChainStatus == {"Open", "Locked", "Resolved", "Cancelled", "Disputed"}
ChainRow ==
    [status : ChainStatus, outcome : Verdicts, ours : Verdicts, other : Verdicts]
EventRow == [status : {"locked", "resolved", "cancelled"}, outcome : Verdicts]
MarketRow ==
    [status : {"open", "locked", "resolved", "cancelled", "disputed"},
     outcome : Verdicts]
ReportRow == [who : {"oracle", "admin"}, outcome : Verdicts, accepted : BOOLEAN]
DisputeRow == {"open", "reviewing", "resolved"}

TypeOK ==
    /\ chain \in ChainRow /\ spoken \in Verdicts /\ broadcasts \in Nat
    /\ events \in Seq(EventRow)
    /\ row \in MarketRow
    /\ disputes \in Seq(DisputeRow) /\ reports \in Seq(ReportRow)
    /\ cache \in [Sources -> Outcomes \cup {Absent}]
    /\ verdict \in [Workers -> Verdicts]
    /\ id \in [Workers -> Nat]
    /\ DOMAIN pc = Workers /\ pc = [w \in Workers |-> pc[w]]

LEMMA Markers ==
    /\ Null \notin Outcomes /\ Absent \notin Outcomes /\ Undefined \notin Outcomes
    /\ Null # Undefined /\ Fight \in Outcomes
BY ResolutionAssumption DEF Null, Absent, Undefined

-----------------------------------------------------------------------------
(* What the steps of a worker change *)

LEMMA LeaveTypes ==
    ASSUME TypeOK, NEW w \in Workers, Leave(w)
    PROVE  /\ pc' = [pc EXCEPT ![w] = "idle"]
           /\ DOMAIN pc' = Workers /\ pc' = [v \in Workers |-> pc'[v]]
           /\ verdict' = [verdict EXCEPT ![w] = Null]
           /\ verdict' \in [Workers -> Verdicts]
           /\ id' \in [Workers -> Nat]
BY DEF TypeOK, Leave, Goto, Verdicts

LEMMA GotoTypes ==
    ASSUME TypeOK, NEW w \in Workers, NEW label, Goto(w, label)
    PROVE  /\ pc' = [pc EXCEPT ![w] = label]
           /\ DOMAIN pc' = Workers /\ pc' = [v \in Workers |-> pc'[v]]
BY DEF TypeOK, Goto

(* The contract's rows that a transaction leads to.                         *)
LEMMA ChainRows ==
    ASSUME chain \in ChainRow, NEW s \in ChainStatus, NEW x \in Verdicts
    PROVE  /\ [chain EXCEPT !.status = s] \in ChainRow
           /\ [chain EXCEPT !.status = s].status = s
           /\ [chain EXCEPT !.status = s].ours = chain.ours
           /\ [chain EXCEPT !.status = s, !.outcome = x] \in ChainRow
           /\ [chain EXCEPT !.status = s, !.outcome = x].status = s
           /\ [chain EXCEPT !.status = s, !.outcome = x].ours = chain.ours
BY DEF ChainRow

LEMMA ReportRows ==
    ASSUME chain \in ChainRow, NEW x \in Verdicts
    PROVE  /\ Report("ours", x) \in ChainRow
           /\ Report("ours", x).ours = x
           /\ Report("ours", x).status \in {chain.status, "Resolved"}
           /\ Report("other", x) \in ChainRow
           /\ Report("other", x).ours = chain.ours
           /\ Report("other", x).status \in {chain.status, "Resolved"}
<1>1. /\ [chain EXCEPT !["ours"] = x] \in ChainRow
      /\ [chain EXCEPT !["ours"] = x].ours = x
      /\ [chain EXCEPT !["ours"] = x].status = chain.status
  BY DEF ChainRow
<1>2. /\ [chain EXCEPT !["other"] = x] \in ChainRow
      /\ [chain EXCEPT !["other"] = x].ours = chain.ours
      /\ [chain EXCEPT !["other"] = x].status = chain.status
  BY DEF ChainRow
<1>3. /\ Report("ours", x) \in ChainRow
      /\ Report("ours", x).ours = x
      /\ Report("ours", x).status \in {chain.status, "Resolved"}
  BY <1>1 DEF ChainRow, Report, ChainStatus
<1>4. /\ Report("other", x) \in ChainRow
      /\ Report("other", x).ours = chain.ours
      /\ Report("other", x).status \in {chain.status, "Resolved"}
  BY <1>2 DEF ChainRow, Report, ChainStatus
<1> QED
  BY <1>3, <1>4

LEMMA TurnTypes ==
    ASSUME TypeOK, NEW c \in ChainRow, Turn(c),
           c.status \in {chain.status, "Disputed", "Locked", "Resolved", "Cancelled"}
    PROVE  chain' \in ChainRow /\ events' \in Seq(EventRow)
<1>1. chain' = c
  BY DEF Turn
<1>2. CASE c.status \in {chain.status, "Disputed"}
  BY <1>1, <1>2 DEF Turn, TypeOK
<1>3. CASE c.status \notin {chain.status, "Disputed"}
  <2> DEFINE new == [status |-> RowStatus(c.status), outcome |-> c.outcome]
  <2>1. events' = Append(events, new)
    BY <1>3 DEF Turn
  <2>2. RowStatus(c.status) \in {"locked", "resolved", "cancelled"}
    BY <1>3 DEF RowStatus
  <2>3. new \in EventRow
    BY <2>2 DEF EventRow, ChainRow
  <2> HIDE DEF new
  <2> QED
    BY <1>1, <2>1, <2>3 DEF TypeOK
<1> QED
  BY <1>2, <1>3

(* A transaction is applied, and the worker goes on or not, or it is not.   *)
LEMMA Invoked ==
    ASSUME NEW w, NEW can, NEW after, NEW ok, Invoke(w, can, after, ok)
    PROVE  \/ /\ can /\ Turn(after)
              /\ Leave(w) \/ (Goto(w, ok) /\ UNCHANGED <<verdict, id>>)
           \/ UNCHANGED <<chain, events>> /\ Leave(w)
BY DEF Invoke

LEMMA InvokeTypes ==
    ASSUME TypeOK, NEW w \in Workers, NEW can, NEW c \in ChainRow, NEW ok,
           Invoke(w, can, c, ok),
           can => c.status \in {chain.status, "Disputed", "Locked", "Resolved", "Cancelled"}
    PROVE  /\ chain' \in ChainRow /\ events' \in Seq(EventRow)
           /\ DOMAIN pc' = Workers /\ pc' = [v \in Workers |-> pc'[v]]
           /\ verdict' \in [Workers -> Verdicts]
           /\ id' \in [Workers -> Nat]
<1>1. \/ /\ can /\ Turn(c)
         /\ Leave(w) \/ (Goto(w, ok) /\ UNCHANGED <<verdict, id>>)
      \/ UNCHANGED <<chain, events>> /\ Leave(w)
  BY Invoked
<1>2. chain' \in ChainRow /\ events' \in Seq(EventRow)
  BY <1>1, TurnTypes DEF TypeOK
<1>3. CASE Leave(w)
  BY <1>2, <1>3, LeaveTypes
<1>4. CASE Goto(w, ok) /\ UNCHANGED <<verdict, id>>
  BY <1>2, <1>4, GotoTypes DEF TypeOK
<1> QED
  BY <1>1, <1>3, <1>4

LEMMA FetchTypes ==
    ASSUME TypeOK
    PROVE  \A s \in Sources : FetchResult(s) \in Verdicts
<1> SUFFICES ASSUME NEW s \in Sources
             PROVE  FetchResult(s) \in Verdicts
  OBVIOUS
<1>1. cache[s] \in Outcomes \cup {Absent}
  BY DEF TypeOK
<1>2. CacheGet(s) \in Verdicts
  BY <1>1 DEF CacheGet, Verdicts
<1>3. Answer(s) \in Verdicts
  BY Markers DEF Answer, Verdicts
<1> QED
  BY <1>2, <1>3 DEF FetchResult

(* Every dispute row of one status goes on to another.                      *)
LEMMA AdvanceIs ==
    ASSUME TypeOK, NEW from \in DisputeRow, NEW to \in DisputeRow
    PROVE  /\ Advance(from, to) \in Seq(DisputeRow)
           /\ Len(Advance(from, to)) = Len(disputes)
           /\ \A d \in DOMAIN disputes :
                 Advance(from, to)[d] = IF disputes[d] = from THEN to ELSE disputes[d]
<1>1. /\ Len(disputes) \in Nat /\ DOMAIN disputes = 1..Len(disputes)
      /\ \A d \in 1..Len(disputes) : disputes[d] \in DisputeRow
  BY DEF TypeOK
<1> DEFINE n == Len(disputes)
<1> HIDE DEF n
<1>2. Advance(from, to) \in [1..n -> DisputeRow] /\ n \in Nat
  BY <1>1 DEF Advance, n
<1>3. Advance(from, to) \in Seq(DisputeRow) /\ Len(Advance(from, to)) = n
  BY <1>2
<1> QED
  BY <1>3 DEF Advance, n

(* The steps outside the workers.                                           *)
LEMMA OutsideTypes ==
    ASSUME TypeOK,
           \/ Lock \/ Age \/ Confirm \/ Index \/ AutoLock \/ InvestigateDispute
           \/ \E x \in Outcomes : OtherReports(x) \/ OthersDecide(x) \/ ResolveOnChain(x)
           \/ Bulk({"open"}, "locked") \/ Bulk({"open", "locked"}, "cancelled")
    PROVE  TypeOK'
<1>a. chain \in ChainRow
  BY DEF TypeOK
<1>1. CASE Lock
  <2>1. UNCHANGED <<spoken, broadcasts, tables, world, worker, budget>>
    BY <1>1 DEF Lock
  <2>2. PICK c \in ChainRow : c.status = "Locked" /\ Turn(c)
    <3>1. "Locked" \in ChainStatus /\ Null \in Verdicts
      BY DEF ChainStatus, Verdicts
    <3> QED
      BY <1>1, <1>a, <3>1, ChainRows DEF Lock
  <2>3. chain' \in ChainRow /\ events' \in Seq(EventRow)
    BY <2>2, TurnTypes
  <2> QED
    BY <2>1, <2>3 DEF TypeOK, tables, world, worker
<1>2. CASE Age \/ Confirm
  BY <1>2 DEF Age, Confirm, TypeOK, ledger, tables, worker
<1>3. CASE Index
  <2> DEFINE new == [status |-> Head(events).status,
                     outcome |-> IF Head(events).status = "resolved"
                                 THEN Head(events).outcome ELSE row.outcome]
  <2>1. events # <<>> /\ events' = Tail(events) /\ row' = new
        /\ UNCHANGED <<chain, spoken, broadcasts, disputes, reports, world,
                       worker, budget>>
    BY <1>3 DEF Index
  <2>2. Head(events) \in EventRow /\ events' \in Seq(EventRow)
    BY <2>1 DEF TypeOK
  <2>3. new \in MarketRow
    BY <2>2 DEF EventRow, MarketRow, TypeOK
  <2> HIDE DEF new
  <2> QED
    BY <2>1, <2>2, <2>3 DEF TypeOK, world, worker
<1>4. ASSUME NEW from, NEW to \in {"locked", "cancelled"}, SetRow(from, to)
      PROVE  TypeOK'
  <2>1. row' \in MarketRow
    BY <1>4 DEF SetRow, MarketRow, TypeOK
  <2> QED
    BY <1>4, <2>1 DEF SetRow, TypeOK, ledger, world, worker
<1>5. CASE AutoLock \/ Bulk({"open"}, "locked") \/ Bulk({"open", "locked"}, "cancelled")
  BY <1>4, <1>5 DEF AutoLock, Bulk
<1>6. CASE InvestigateDispute
  <2>1. disputes' = Advance("open", "reviewing")
        /\ UNCHANGED <<ledger, row, reports, world, worker, budget>>
    BY <1>6 DEF InvestigateDispute
  <2>2. disputes' \in Seq(DisputeRow)
    BY <2>1, AdvanceIs DEF DisputeRow
  <2> QED
    BY <2>1, <2>2 DEF TypeOK, ledger, world, worker
<1>7. ASSUME NEW x \in Outcomes, OtherReports(x) \/ OthersDecide(x) \/ ResolveOnChain(x)
      PROVE  TypeOK'
  <2>1. PICK c \in ChainRow :
              /\ c.status \in {chain.status, "Resolved"}
              /\ Turn(c)
    <3>1. x \in Verdicts
      BY DEF Verdicts
    <3>2. CASE OtherReports(x)
      BY <1>a, <3>1, <3>2, ReportRows DEF OtherReports
    <3>3. CASE OthersDecide(x) \/ ResolveOnChain(x)
      BY <1>a, <3>1, <3>3, ChainRows DEF OthersDecide, ResolveOnChain, ChainStatus
    <3> QED
      BY <1>7, <3>2, <3>3
  <2>2. chain' \in ChainRow /\ events' \in Seq(EventRow)
    BY <2>1, TurnTypes
  <2>3. UNCHANGED <<spoken, broadcasts, tables, world, worker, budget>>
    BY <1>7 DEF OtherReports, OthersDecide, ResolveOnChain
  <2> QED
    BY <2>2, <2>3 DEF TypeOK, tables, world, worker
<1> QED
  BY <1>1, <1>2, <1>3, <1>5, <1>6, <1>7

(* The steps that send a transaction.                                       *)
LEMMA SendTypes ==
    ASSUME TypeOK, NEW w \in Workers,
           AutoCancel(w) \/ SendReport(w) \/ CancelMarket(w) \/ FlagDispute(w)
              \/ RaiseDispute(w)
    PROVE  TypeOK'
<1>a. chain \in ChainRow /\ verdict[w] \in Verdicts
  BY DEF TypeOK
<1>1. PICK c \in ChainRow :
            /\ \E can, ok : Invoke(w, can, c, ok)
            /\ c.status \in {chain.status, "Disputed", "Locked", "Resolved", "Cancelled"}
  <2>1. CASE AutoCancel(w) \/ CancelMarket(w)
    BY <1>a, <2>1, ChainRows DEF AutoCancel, CancelMarket, ChainStatus
  <2>2. CASE SendReport(w)
    BY <1>a, <2>2, ReportRows DEF SendReport
  <2>3. CASE FlagDispute(w) \/ RaiseDispute(w)
    BY <1>a, <2>3, ChainRows DEF FlagDispute, RaiseDispute, ChainStatus
  <2> QED
    BY <2>1, <2>2, <2>3
<1>2. /\ chain' \in ChainRow /\ events' \in Seq(EventRow)
      /\ DOMAIN pc' = Workers /\ pc' = [v \in Workers |-> pc'[v]]
      /\ verdict' \in [Workers -> Verdicts]
      /\ id' \in [Workers -> Nat]
  BY <1>1, InvokeTypes
<1>3. UNCHANGED <<tables, world>>
  BY DEF AutoCancel, SendReport, CancelMarket, FlagDispute, RaiseDispute
<1>4. spoken' \in Verdicts /\ broadcasts' \in Nat
  BY <1>a DEF AutoCancel, SendReport, CancelMarket, FlagDispute, RaiseDispute, TypeOK
<1> QED
  BY <1>2, <1>3, <1>4 DEF TypeOK, tables, world

(* Those that write a report row or a dispute row, or close a dispute.      *)
LEMMA WriteTypes ==
    ASSUME TypeOK, NEW w \in Workers,
           InsertReport(w) \/ AcceptReport(w) \/ RecordOverride(w)
              \/ InsertDispute(w) \/ CloseDispute(w)
    PROVE  TypeOK'
<1>a. verdict[w] \in Verdicts
  BY DEF TypeOK
<1>1. CASE InsertReport(w)
  <2> DEFINE new == NewReport("oracle", verdict[w], FALSE)
  <2>1. /\ reports' = Append(reports, new) /\ id' = [id EXCEPT ![w] = Len(reports')]
        /\ Goto(w, "report")
        /\ UNCHANGED <<ledger, row, disputes, world, verdict, budget>>
    BY <1>1 DEF InsertReport
  <2>2. new \in ReportRow
    BY <1>a DEF NewReport, ReportRow
  <2> HIDE DEF new
  <2>3. reports' \in Seq(ReportRow)
    BY <2>1, <2>2 DEF TypeOK
  <2>4. Len(reports') \in Nat
    BY <2>3
  <2>5. id' \in [Workers -> Nat]
    BY <2>1, <2>4 DEF TypeOK
  <2> QED
    BY <2>1, <2>3, <2>5, GotoTypes DEF TypeOK, ledger, world
<1>2. CASE AcceptReport(w)
  <2>1. /\ reports' = [reports EXCEPT ![id[w]].accepted = TRUE] /\ Leave(w)
        /\ UNCHANGED <<ledger, row, disputes, world, budget>>
    BY <1>2 DEF AcceptReport
  <2>2. reports' \in Seq(ReportRow)
    <3>1. reports \in Seq(ReportRow)
      BY DEF TypeOK
    <3>2. CASE id[w] \in DOMAIN reports
      <4> DEFINE new == [reports[id[w]] EXCEPT !.accepted = TRUE]
      <4>1. reports[id[w]] \in ReportRow
        BY <3>1, <3>2
      <4>2. new \in ReportRow
        BY <4>1 DEF ReportRow
      <4>3. reports' = [reports EXCEPT ![id[w]] = new]
        BY <2>1
      <4> HIDE DEF new
      <4> QED
        BY <3>1, <3>2, <4>2, <4>3
    <3>3. CASE id[w] \notin DOMAIN reports
      <4>1. reports \in [DOMAIN reports -> ReportRow]
        BY <3>1
      <4>2. reports' = reports
        BY <2>1, <3>3, <4>1
      <4> QED
        BY <3>1, <4>2
    <3> QED
      BY <3>2, <3>3
  <2> QED
    BY <2>1, <2>2, LeaveTypes DEF TypeOK, ledger, world
<1>3. CASE RecordOverride(w)
  <2> DEFINE new == NewReport("admin", verdict[w], TRUE)
  <2>1. /\ reports' = Append(reports, new) /\ Goto(w, "close")
        /\ UNCHANGED <<ledger, row, disputes, world, verdict, id, budget>>
    BY <1>3 DEF RecordOverride
  <2>2. new \in ReportRow
    BY <1>a DEF NewReport, ReportRow
  <2> HIDE DEF new
  <2>3. reports' \in Seq(ReportRow)
    BY <2>1, <2>2 DEF TypeOK
  <2> QED
    BY <2>1, <2>3, GotoTypes DEF TypeOK, ledger, world
<1>4. CASE InsertDispute(w)
  <2>1. /\ disputes' = Append(disputes, "open") /\ Goto(w, "setDisputed")
        /\ UNCHANGED <<ledger, row, reports, world, verdict, id, budget>>
    BY <1>4 DEF InsertDispute
  <2>2. disputes' \in Seq(DisputeRow)
    BY <2>1 DEF TypeOK, DisputeRow
  <2> QED
    BY <2>1, <2>2, GotoTypes DEF TypeOK, ledger, world
<1>5. CASE CloseDispute(w)
  <2>1. /\ disputes' = Advance("reviewing", "resolved")
        /\ (Goto(w, "settle") /\ UNCHANGED <<verdict, id>>) \/ Leave(w)
        /\ UNCHANGED <<ledger, row, reports, world, budget>>
    BY <1>5 DEF CloseDispute
  <2>2. disputes' \in Seq(DisputeRow)
    BY <2>1, AdvanceIs DEF DisputeRow
  <2>3. CASE Leave(w)
    BY <2>1, <2>2, <2>3, LeaveTypes DEF TypeOK, ledger, world
  <2>4. CASE Goto(w, "settle") /\ UNCHANGED <<verdict, id>>
    BY <2>1, <2>2, <2>4, GotoTypes DEF TypeOK, ledger, world
  <2> QED
    BY <2>1, <2>3, <2>4
<1> QED
  BY <1>1, <1>2, <1>3, <1>4, <1>5

(* A request begins.                                                        *)
LEMMA Begun ==
    ASSUME NEW h, Request(h)
    PROVE  /\ pc[h] = "idle"
           /\ \E x \in Verdicts, label \in {"insert", "cancelMarket", "flag", "raise"} :
                 /\ Goto(h, label) /\ verdict' = [verdict EXCEPT ![h] = x]
                 /\ label \in {"insert", "raise"} => x \in Outcomes
           /\ UNCHANGED <<ledger, tables, world, id, faults>>
BY DEF Request, RequestResolve, RequestRuling, RequestCancel, RequestFlag, Begin,
       Verdicts

(* And the rest: a request, the job's beginning and its fetch, what ends.   *)
LEMMA OtherTypes ==
    ASSUME TypeOK, NEW w \in Workers,
           \/ Request(w) \/ JobStart(w) \/ Fetch(w) \/ Stop(w) \/ SettleRow(w)
           \/ UpdateMarketStatus(w, "setCancelled", "cancelled")
           \/ UpdateMarketStatus(w, "setDisputed", "disputed")
    PROVE  TypeOK'
<1>1. CASE Request(w)
  <2>1. UNCHANGED <<ledger, tables, world, id, faults>>
    BY <1>1, Begun
  <2>2. PICK x, label :
                x \in Verdicts /\ Goto(w, label) /\ verdict' = [verdict EXCEPT ![w] = x]
    BY <1>1, Begun
  <2>3. verdict' \in [Workers -> Verdicts]
    BY <2>2 DEF TypeOK
  <2> QED
    BY <2>1, <2>2, <2>3, GotoTypes DEF TypeOK, ledger, tables, world
<1>2. CASE JobStart(w)
  BY <1>2, GotoTypes DEF JobStart, TypeOK, ledger, tables, world
<1>3. CASE Fetch(w)
  <2>1. /\ verdict' = [verdict EXCEPT ![w] = Fetched]
        /\ \E label : Goto(w, label)
        /\ cache' = [s \in Sources |->
                       IF FetchResult(s) # Null THEN FetchResult(s) ELSE cache[s]]
        /\ UNCHANGED <<ledger, tables, age, confirmed, id, budget>>
    BY <1>3 DEF Fetch
  <2>2. Fetched \in Verdicts
    BY FetchTypes DEF Fetched, FetchExternalFightResult, FetchFallbackResult, Sources
  <2>3. verdict' \in [Workers -> Verdicts]
    BY <2>1, <2>2 DEF TypeOK
  <2>4. cache' \in [Sources -> Outcomes \cup {Absent}]
    BY <2>1, FetchTypes DEF TypeOK, Verdicts
  <2> QED
    BY <2>1, <2>3, <2>4, GotoTypes DEF TypeOK, ledger, tables
<1>4. CASE Stop(w)
  BY <1>4, LeaveTypes DEF Stop, TypeOK, ledger, tables, world
<1>5. CASE SettleRow(w)
  <2>1. row' \in MarketRow
    BY <1>5 DEF SettleRow, MarketRow, TypeOK
  <2> QED
    BY <1>5, <2>1, LeaveTypes DEF SettleRow, TypeOK, ledger, world
<1>6. ASSUME NEW status \in {"cancelled", "disputed"}, NEW label,
             UpdateMarketStatus(w, label, status)
      PROVE  TypeOK'
  <2>1. row' \in MarketRow
    BY <1>6 DEF UpdateMarketStatus, MarketRow, TypeOK
  <2> QED
    BY <1>6, <2>1, LeaveTypes DEF UpdateMarketStatus, TypeOK, ledger, world
<1> QED
  BY <1>1, <1>2, <1>3, <1>4, <1>5, <1>6

(* The next-state relation, by what its steps do.                           *)
Outside ==
    \/ Lock \/ Age \/ Confirm \/ Index \/ AutoLock \/ InvestigateDispute
    \/ \E x \in Outcomes : OtherReports(x) \/ OthersDecide(x) \/ ResolveOnChain(x)
    \/ Bulk({"open"}, "locked") \/ Bulk({"open", "locked"}, "cancelled")
Sends(w) ==
    AutoCancel(w) \/ SendReport(w) \/ CancelMarket(w) \/ FlagDispute(w) \/ RaiseDispute(w)
Writes(w) ==
    InsertReport(w) \/ AcceptReport(w) \/ RecordOverride(w) \/ InsertDispute(w)
       \/ CloseDispute(w)
Ends(w) ==
    \/ Request(w) \/ JobStart(w) \/ Fetch(w) \/ Stop(w) \/ SettleRow(w)
    \/ UpdateMarketStatus(w, "setCancelled", "cancelled")
    \/ UpdateMarketStatus(w, "setDisputed", "disputed")

LEMMA Steps ==
    ASSUME Next
    PROVE  Outside \/ \E w \in Workers : Sends(w) \/ Writes(w) \/ Ends(w)
BY DEF Next, Outside, Sends, Writes, Ends, Workers, Job, Submission, Request, Handling

LEMMA TypesStep == TypeOK /\ [Next]_vars => TypeOK'
<1> SUFFICES ASSUME TypeOK, [Next]_vars
             PROVE  TypeOK'
  OBVIOUS
<1>1. CASE UNCHANGED vars
  BY <1>1 DEF vars, ledger, tables, world, worker, budget, TypeOK
<1>2. CASE Outside
  BY <1>2, OutsideTypes DEF Outside
<1>3. ASSUME NEW w \in Workers, Sends(w) \/ Writes(w) \/ Ends(w)
      PROVE  TypeOK'
  BY <1>3, SendTypes, WriteTypes, OtherTypes DEF Sends, Writes, Ends
<1> QED
  BY <1>1, <1>2, <1>3, Steps

LEMMA TypesInit == Init => TypeOK
<1> SUFFICES ASSUME Init
             PROVE  TypeOK
  OBVIOUS
<1>1. Null \in Verdicts
  BY DEF Verdicts
<1>2. chain \in ChainRow /\ row \in MarketRow
  BY <1>1 DEF Init, ChainRow, MarketRow, ChainStatus
<1>3. /\ events = <<>> /\ disputes = <<>> /\ reports = <<>>
      /\ spoken = Null /\ broadcasts = 0
      /\ cache \in [Sources -> Outcomes \cup {Absent}]
  BY DEF Init
<1>4. /\ verdict \in [Workers -> Verdicts] /\ id \in [Workers -> Nat]
      /\ pc = [w \in Workers |-> "idle"]
  BY <1>1 DEF Init
<1> QED
  BY <1>1, <1>2, <1>3, <1>4 DEF TypeOK

-----------------------------------------------------------------------------
(* Reports *)

AcceptedIn(t) == {r \in DOMAIN t : t[r].who = "oracle" /\ t[r].accepted}

(* A worker's report row is the one it inserted, with the outcome it is     *)
(* about.                                                                   *)
Held(w) ==
    /\ id[w] \in DOMAIN reports
    /\ reports[id[w]].who = "oracle" /\ reports[id[w]].outcome = verdict[w]

(* The contract takes the oracle's report once, so one worker at most gets  *)
(* to accept its row, and before any row is accepted.                       *)
ReportInv ==
    /\ \A w \in Workers : pc[w] = "insert" => verdict[w] \in Outcomes
    /\ \A w \in Workers :
          pc[w] \in {"report", "accept"} => verdict[w] \in Outcomes /\ Held(w)
    /\ chain.ours = Null =>
          AcceptedIn(reports) = {} /\ \A w \in Workers : pc[w] # "accept"
    /\ \A w \in Workers :
          pc[w] = "accept" => verdict[w] = spoken /\ AcceptedIn(reports) = {}
    /\ \A v, w \in Workers : pc[v] = "accept" /\ pc[w] = "accept" => v = w
    /\ \A q, r \in AcceptedIn(reports) : q = r
    /\ \A r \in AcceptedIn(reports) : reports[r].outcome = spoken

(* A worker stays where it is, or is not about to report.                   *)
Quiet(v) ==
    \/ pc'[v] = pc[v] /\ verdict'[v] = verdict[v] /\ id'[v] = id[v]
    \/ /\ pc'[v] \notin {"report", "accept"}
       /\ pc'[v] = "insert" => verdict'[v] \in Outcomes

LEMMA ReportFrame ==
    ASSUME ReportInv, UNCHANGED <<reports, spoken>>, chain'.ours = chain.ours,
           \A v \in Workers : Quiet(v)
    PROVE  ReportInv'
<1>1. ASSUME NEW w \in Workers, pc'[w] \in {"report", "accept"}
      PROVE  /\ pc'[w] = pc[w] /\ verdict'[w] = verdict[w] /\ id'[w] = id[w]
             /\ Held(w)' <=> Held(w)
  BY <1>1 DEF Quiet, Held
<1>2. ASSUME NEW w \in Workers, pc'[w] = "insert"
      PROVE  verdict'[w] \in Outcomes
  BY <1>2 DEF Quiet, ReportInv
<1> QED
  BY <1>1, <1>2 DEF ReportInv

LEMMA GoQuietly ==
    ASSUME TypeOK, NEW w \in Workers, NEW label, Goto(w, label),
           label \notin {"insert", "report", "accept"},
           UNCHANGED <<verdict, id>>
    PROVE  \A v \in Workers : Quiet(v)
BY GotoTypes DEF Quiet, TypeOK

LEMMA LeaveQuietly ==
    ASSUME TypeOK, NEW w \in Workers, Leave(w)
    PROVE  \A v \in Workers : Quiet(v)
<1>1. pc' = [pc EXCEPT ![w] = "idle"] /\ verdict' = [verdict EXCEPT ![w] = Null]
      /\ id' = [id EXCEPT ![w] = 0]
  BY DEF Leave, Goto
<1> QED
  BY <1>1 DEF Quiet, TypeOK

(* A row that is not an accepted report of the oracle changes nothing.      *)
LEMMA RowAdded ==
    ASSUME TypeOK, NEW new \in ReportRow, reports' = Append(reports, new),
           ~(new.who = "oracle" /\ new.accepted)
    PROVE  /\ AcceptedIn(reports') = AcceptedIn(reports)
           /\ DOMAIN reports \subseteq DOMAIN reports'
           /\ \A r \in DOMAIN reports : reports'[r] = reports[r]
           /\ Len(reports') \in DOMAIN reports' /\ reports'[Len(reports')] = new
<1>1. /\ DOMAIN reports' = DOMAIN reports \cup {Len(reports')}
      /\ DOMAIN reports \subseteq DOMAIN reports'
      /\ \A r \in DOMAIN reports : reports'[r] = reports[r]
      /\ Len(reports') \in DOMAIN reports' /\ reports'[Len(reports')] = new
  <2>1. reports \in Seq(ReportRow)
    BY DEF TypeOK
  <2> QED
    BY <2>1
<1>2. \A r : r \in AcceptedIn(reports') <=> r \in AcceptedIn(reports)
  BY <1>1 DEF AcceptedIn
<1> QED
  BY <1>1, <1>2

LEMMA ReportInvOutside ==
    ASSUME TypeOK, ReportInv, Outside
    PROVE  ReportInv'
<1>1. UNCHANGED <<reports, spoken, worker>>
  BY DEF Outside, Lock, Age, Confirm, Index, AutoLock, InvestigateDispute, SetRow,
         OtherReports, OthersDecide, ResolveOnChain, Bulk, ledger, tables
<1>2. chain'.ours = chain.ours
  <2>1. chain \in ChainRow
    BY DEF TypeOK
  <2>2. CASE Lock
    <3>1. "Locked" \in ChainStatus /\ Null \in Verdicts
      BY DEF ChainStatus, Verdicts
    <3> QED
      BY <2>1, <2>2, <3>1, ChainRows DEF Lock, Turn
  <2>3. ASSUME NEW x \in Outcomes, OtherReports(x) \/ OthersDecide(x) \/ ResolveOnChain(x)
        PROVE  chain'.ours = chain.ours
    <3>1. x \in Verdicts /\ "Resolved" \in ChainStatus
      BY DEF Verdicts, ChainStatus
    <3>2. CASE OtherReports(x)
      BY <2>1, <3>1, <3>2, ReportRows DEF OtherReports, Turn
    <3>3. CASE OthersDecide(x) \/ ResolveOnChain(x)
      <4>1. chain' = [chain EXCEPT !.status = "Resolved", !.outcome = x]
        BY <3>3 DEF OthersDecide, ResolveOnChain, Turn
      <4> QED
        BY <2>1, <3>1, <4>1, ChainRows
    <3> QED
      BY <2>3, <3>2, <3>3
  <2> QED
    BY <2>2, <2>3 DEF Outside, Age, Confirm, Index, AutoLock, InvestigateDispute,
                      SetRow, Bulk, ledger
<1> QED
  BY <1>1, <1>2, ReportFrame DEF worker, Quiet

LEMMA ReportInvSends ==
    ASSUME TypeOK, ReportInv, NEW w \in Workers, Sends(w)
    PROVE  ReportInv'
<1>a. chain \in ChainRow /\ reports' = reports
  BY DEF TypeOK, Sends, AutoCancel, SendReport, CancelMarket, FlagDispute,
         RaiseDispute, tables
<1>1. ASSUME NEW can, NEW s \in ChainStatus, NEW ok \in {"idle", "setCancelled",
                "insertDispute", "override"},
             Invoke(w, can, [chain EXCEPT !.status = s], ok), spoken' = spoken
      PROVE  ReportInv'
  <2>1. chain'.ours = chain.ours
    <3>1. chain' = chain \/ chain' = [chain EXCEPT !.status = s]
      BY <1>1, Invoked DEF Turn
    <3>2. Null \in Verdicts
      BY DEF Verdicts
    <3>3. [chain EXCEPT !.status = s].ours = chain.ours
      BY <1>a, <3>2, ChainRows
    <3> QED
      BY <3>1, <3>3
  <2>2. Leave(w) \/ (Goto(w, ok) /\ UNCHANGED <<verdict, id>>)
    BY <1>1, Invoked
  <2>3. \A v \in Workers : Quiet(v)
    BY <2>2, LeaveQuietly, GoQuietly
  <2> QED
    BY <1>1, <1>a, <2>1, <2>3, ReportFrame
<1>2. CASE AutoCancel(w) \/ CancelMarket(w)
  BY <1>1, <1>2 DEF AutoCancel, CancelMarket, ChainStatus
<1>3. CASE FlagDispute(w) \/ RaiseDispute(w)
  BY <1>1, <1>3 DEF FlagDispute, RaiseDispute, ChainStatus
<1>4. CASE SendReport(w)
  <2>1. /\ pc[w] = "report"
        /\ Invoke(w, CanReport("ours"), Report("ours", verdict[w]), "accept")
        /\ spoken' = IF Applied THEN verdict[w] ELSE spoken
    BY <1>4 DEF SendReport
  <2>2. verdict[w] \in Outcomes /\ Held(w) /\ verdict[w] \in Verdicts
    BY <2>1 DEF ReportInv, Verdicts
  <2>3. \/ /\ CanReport("ours") /\ Turn(Report("ours", verdict[w]))
           /\ Leave(w) \/ (Goto(w, "accept") /\ UNCHANGED <<verdict, id>>)
        \/ UNCHANGED <<chain, events>> /\ Leave(w)
    BY <2>1, Invoked
  <2>4. CASE UNCHANGED <<chain, events>> /\ Leave(w)
    BY <1>a, <2>1, <2>4, LeaveQuietly, ReportFrame DEF Applied
  <2>5. CASE /\ CanReport("ours") /\ Turn(Report("ours", verdict[w]))
             /\ Leave(w) \/ (Goto(w, "accept") /\ UNCHANGED <<verdict, id>>)
    <3>1. chain.ours = Null /\ chain'.ours = verdict[w]
      <4>1. chain["ours"] = chain.ours
        BY <1>a DEF ChainRow
      <4> QED
        BY <1>a, <2>2, <2>5, <4>1, ReportRows DEF CanReport, Turn
    <3>2. chain'.ours # Null /\ spoken' = verdict[w]
      BY <2>1, <2>2, <3>1, Markers DEF Applied
    <3>3. AcceptedIn(reports) = {} /\ \A v \in Workers : pc[v] # "accept"
      BY <3>1 DEF ReportInv
    <3>4. \A v \in Workers \ {w} :
             pc'[v] = pc[v] /\ verdict'[v] = verdict[v] /\ id'[v] = id[v]
      <4>1. CASE Leave(w)
        BY <4>1 DEF Leave, Goto, TypeOK
      <4>2. CASE Goto(w, "accept") /\ UNCHANGED <<verdict, id>>
        BY <4>2 DEF Goto, TypeOK
      <4> QED
        BY <2>5, <4>1, <4>2
    <3>5. \A v \in Workers \ {w} : Held(v)' <=> Held(v)
      BY <1>a, <3>4 DEF Held
    <3>6. CASE Leave(w)
      <4>1. pc'[w] = "idle"
        BY <3>6 DEF Leave, Goto, TypeOK
      <4> QED
        BY <1>a, <3>2, <3>3, <3>4, <3>5, <4>1 DEF ReportInv
    <3>7. CASE Goto(w, "accept") /\ UNCHANGED <<verdict, id>>
      <4>1. pc'[w] = "accept" /\ verdict'[w] = verdict[w] /\ (Held(w)' <=> Held(w))
        BY <1>a, <3>7 DEF Goto, TypeOK, Held
      <4> QED
        BY <1>a, <2>2, <3>2, <3>3, <3>4, <3>5, <4>1 DEF ReportInv
    <3> QED
      BY <2>5, <3>6, <3>7
  <2> QED
    BY <2>3, <2>4, <2>5
<1> QED
  BY <1>2, <1>3, <1>4 DEF Sends

LEMMA ReportInvWrites ==
    ASSUME TypeOK, ReportInv, NEW w \in Workers, Writes(w)
    PROVE  ReportInv'
<1>0. UNCHANGED <<chain, spoken>>
  BY DEF Writes, InsertReport, AcceptReport, RecordOverride, InsertDispute,
         CloseDispute, ledger
<1>1. CASE InsertReport(w)
  <2> DEFINE new == NewReport("oracle", verdict[w], FALSE)
  <2>1. /\ pc[w] = "insert"
        /\ reports' = Append(reports, new) /\ id' = [id EXCEPT ![w] = Len(reports')]
        /\ pc' = [pc EXCEPT ![w] = "report"] /\ verdict' = verdict
    BY <1>1 DEF InsertReport, Goto
  <2>2. /\ new \in ReportRow /\ new.who = "oracle" /\ new.outcome = verdict[w]
        /\ ~new.accepted
    BY DEF NewReport, ReportRow, TypeOK
  <2> HIDE DEF new
  <2>3. /\ AcceptedIn(reports') = AcceptedIn(reports)
        /\ DOMAIN reports \subseteq DOMAIN reports'
        /\ \A r \in DOMAIN reports : reports'[r] = reports[r]
        /\ Len(reports') \in DOMAIN reports' /\ reports'[Len(reports')] = new
    BY <2>1, <2>2, RowAdded
  <2>4. /\ pc'[w] = "report" /\ id'[w] = Len(reports') /\ verdict'[w] = verdict[w]
        /\ \A v \in Workers \ {w} : pc'[v] = pc[v] /\ id'[v] = id[v]
    BY <2>1 DEF TypeOK
  <2>5. Held(w)' /\ verdict[w] \in Outcomes
    BY <2>1, <2>2, <2>3, <2>4 DEF Held, ReportInv
  <2>6. \A v \in Workers \ {w} : Held(v) => Held(v)'
    BY <2>1, <2>3, <2>4 DEF Held
  <2>7. \A r \in AcceptedIn(reports) : reports'[r] = reports[r]
    BY <2>3 DEF AcceptedIn
  <2>8. \A v \in Workers : pc'[v] = "insert" => verdict'[v] \in Outcomes
    BY <2>1, <2>4 DEF ReportInv
  <2>9. \A v \in Workers :
           pc'[v] \in {"report", "accept"} => verdict'[v] \in Outcomes /\ Held(v)'
    BY <2>1, <2>4, <2>5, <2>6 DEF ReportInv
  <2>10. \A v \in Workers : pc'[v] = "accept" => pc[v] = "accept"
    BY <2>4
  <2> QED
    BY <1>0, <2>1, <2>3, <2>7, <2>8, <2>9, <2>10 DEF ReportInv
<1>2. CASE AcceptReport(w)
  <2>1. /\ pc[w] = "accept"
        /\ reports' = [reports EXCEPT ![id[w]].accepted = TRUE] /\ Leave(w)
    BY <1>2 DEF AcceptReport
  <2>2. /\ Held(w) /\ verdict[w] = spoken /\ AcceptedIn(reports) = {}
        /\ chain.ours # Null /\ \A v \in Workers \ {w} : pc[v] # "accept"
    BY <2>1 DEF ReportInv
  <2> DEFINE i == id[w]
             new == [reports[i] EXCEPT !.accepted = TRUE]
  <2>3. reports \in [DOMAIN reports -> ReportRow] /\ i \in DOMAIN reports
    BY <2>2 DEF TypeOK, Held
  <2>4. /\ new.who = reports[i].who /\ new.outcome = reports[i].outcome
    BY <2>3 DEF ReportRow
  <2>5. reports' = [reports EXCEPT ![i] = new]
    BY <2>1
  <2>6. reports[i].outcome = spoken
    BY <2>2 DEF Held
  <2> HIDE DEF new, i
  <2>7. /\ DOMAIN reports' = DOMAIN reports /\ reports'[i] = new
        /\ \A r \in DOMAIN reports \ {i} : reports'[r] = reports[r]
    BY <2>3, <2>5
  <2>8. \A r \in DOMAIN reports :
           reports'[r].who = reports[r].who /\ reports'[r].outcome = reports[r].outcome
    BY <2>4, <2>7
  <2>9. \A r \in AcceptedIn(reports') : r = i
    BY <2>2, <2>7 DEF AcceptedIn
  <2>10. \A v \in Workers \ {w} :
            pc'[v] = pc[v] /\ verdict'[v] = verdict[v] /\ id'[v] = id[v]
    BY <2>1 DEF Leave, Goto, TypeOK
  <2>11. pc'[w] = "idle"
    BY <2>1 DEF Leave, Goto, TypeOK
  <2>12. \A v \in Workers \ {w} : Held(v) => Held(v)'
    BY <2>7, <2>8, <2>10 DEF Held
  <2>13. \A q, r \in AcceptedIn(reports') : q = r
    BY <2>9
  <2>14. \A r \in AcceptedIn(reports') : reports'[r].outcome = spoken
    BY <2>3, <2>6, <2>8, <2>9
  <2> QED
    BY <1>0, <2>2, <2>10, <2>11, <2>12, <2>13, <2>14 DEF ReportInv
<1>3. CASE RecordOverride(w)
  <2> DEFINE new == NewReport("admin", verdict[w], TRUE)
  <2>1. /\ reports' = Append(reports, new)
        /\ pc' = [pc EXCEPT ![w] = "close"] /\ UNCHANGED <<verdict, id>>
    BY <1>3 DEF RecordOverride, Goto
  <2>2. new \in ReportRow /\ new.who # "oracle"
    BY DEF NewReport, ReportRow, TypeOK
  <2> HIDE DEF new
  <2>3. /\ AcceptedIn(reports') = AcceptedIn(reports)
        /\ DOMAIN reports \subseteq DOMAIN reports'
        /\ \A r \in DOMAIN reports : reports'[r] = reports[r]
    BY <2>1, <2>2, RowAdded
  <2>4. pc'[w] = "close" /\ \A v \in Workers \ {w} : pc'[v] = pc[v]
    BY <2>1 DEF TypeOK
  <2>5. \A v \in Workers : Held(v) => Held(v)'
    BY <2>1, <2>3 DEF Held
  <2>6. \A r \in AcceptedIn(reports) : reports'[r] = reports[r]
    BY <2>3 DEF AcceptedIn
  <2> QED
    BY ZenonT(30), <1>0, <2>1, <2>3, <2>4, <2>5, <2>6 DEF ReportInv
<1>4. CASE InsertDispute(w)
  <2>1. UNCHANGED <<reports, verdict, id>> /\ Goto(w, "setDisputed")
    BY <1>4 DEF InsertDispute
  <2> QED
    BY <1>0, <2>1, GoQuietly, ReportFrame
<1>5. CASE CloseDispute(w)
  <2>1. /\ reports' = reports
        /\ Leave(w) \/ (Goto(w, "settle") /\ UNCHANGED <<verdict, id>>)
    BY <1>5 DEF CloseDispute
  <2>2. \A v \in Workers : Quiet(v)
    BY <2>1, GoQuietly, LeaveQuietly
  <2> QED
    BY <1>0, <2>1, <2>2, ReportFrame
<1> QED
  BY <1>1, <1>2, <1>3, <1>4, <1>5 DEF Writes

LEMMA ReportInvEnds ==
    ASSUME TypeOK, ReportInv, NEW w \in Workers, Ends(w)
    PROVE  ReportInv'
<1>0. UNCHANGED <<chain, spoken, reports>>
  <2>1. CASE Request(w)
    BY <2>1, Begun DEF ledger, tables
  <2> QED
    BY <2>1 DEF Ends, JobStart, Fetch, Stop, SettleRow, UpdateMarketStatus,
                ledger, tables
<1>1. \A v \in Workers : Quiet(v)
  <2>1. CASE Request(w)
    <3>1. id' = id
      BY <2>1, Begun
    <3>2. PICK x \in Verdicts, label \in {"insert", "cancelMarket", "flag", "raise"} :
                 /\ Goto(w, label) /\ verdict' = [verdict EXCEPT ![w] = x]
                 /\ label \in {"insert", "raise"} => x \in Outcomes
      BY <2>1, Begun
    <3> QED
      BY <3>1, <3>2 DEF Goto, Quiet, TypeOK
  <2>2. CASE JobStart(w)
    BY <2>2, GoQuietly DEF JobStart
  <2>3. CASE Fetch(w)
    <3>1. /\ verdict' = [verdict EXCEPT ![w] = Fetched] /\ id' = id
          /\ Goto(w, IF Fetched # Null THEN "insert"
                     ELSE IF Overdue THEN "cancel" ELSE "idle")
      BY <2>3 DEF Fetch
    <3>2. Fetched \in Verdicts
      BY FetchTypes DEF Fetched, FetchExternalFightResult, FetchFallbackResult, Sources
    <3>3. /\ pc'[w] \in {"insert", "cancel", "idle"} /\ verdict'[w] = Fetched
          /\ pc'[w] = "insert" => Fetched \in Outcomes
      BY <3>1, <3>2 DEF Goto, TypeOK, Verdicts
    <3>4. \A v \in Workers \ {w} :
             pc'[v] = pc[v] /\ verdict'[v] = verdict[v] /\ id'[v] = id[v]
      BY <3>1 DEF Goto, TypeOK
    <3> QED
      BY <3>3, <3>4 DEF Quiet
  <2>4. CASE Leave(w)
    BY <2>4, LeaveQuietly
  <2> QED
    BY <2>1, <2>2, <2>3, <2>4 DEF Ends, Stop, SettleRow, UpdateMarketStatus
<1> QED
  BY <1>0, <1>1, ReportFrame

LEMMA ReportInvStep == TypeOK /\ ReportInv /\ [Next]_vars => ReportInv'
<1> SUFFICES ASSUME TypeOK, ReportInv, [Next]_vars
             PROVE  ReportInv'
  OBVIOUS
<1>1. CASE UNCHANGED vars
  BY <1>1, ReportFrame DEF vars, ledger, tables, worker, Quiet
<1>2. CASE Outside
  BY <1>2, ReportInvOutside
<1>3. ASSUME NEW w \in Workers, Sends(w) \/ Writes(w) \/ Ends(w)
      PROVE  ReportInv'
  BY <1>3, ReportInvSends, ReportInvWrites, ReportInvEnds
<1> QED
  BY <1>1, <1>2, <1>3, Steps

(* However many jobs and requests submit results at the same time, one      *)
(* report row of the oracle is accepted at most, and it is what the contract*)
(* was told.                                                                *)
THEOREM AlwaysAcceptedReportsStand == Spec => []AcceptedReportsStand
<1>1. Init => ReportInv
  <2> SUFFICES ASSUME Init
               PROVE  ReportInv
    OBVIOUS
  <2>1. AcceptedIn(reports) = {}
    BY DEF Init, AcceptedIn
  <2>2. \A w \in Workers : pc[w] = "idle"
    BY DEF Init
  <2> QED
    BY <2>1, <2>2 DEF ReportInv
<1>2. TypeOK /\ ReportInv /\ [Next]_vars => (TypeOK /\ ReportInv)'
  BY TypesStep, ReportInvStep
<1>3. ReportInv => AcceptedReportsStand
  <2> SUFFICES ASSUME ReportInv
               PROVE  /\ Cardinality(AcceptedIn(reports)) <= 1
                      /\ \A r \in AcceptedIn(reports) : reports[r].outcome = spoken
    BY DEF AcceptedReportsStand, AcceptedIn
  <2>1. Cardinality(AcceptedIn(reports)) <= 1
    <3>1. CASE AcceptedIn(reports) = {}
      BY <3>1, FS_EmptySet
    <3>2. CASE AcceptedIn(reports) # {}
      <4>1. PICK r : r \in AcceptedIn(reports)
        BY <3>2
      <4>2. AcceptedIn(reports) = {r}
        BY <4>1 DEF ReportInv
      <4> QED
        BY <4>2, FS_Singleton
    <3> QED
      BY <3>1, <3>2
  <2> QED
    BY <2>1 DEF ReportInv
<1> QED
  BY <1>1, <1>2, <1>3, TypesInit, PTL DEF Spec

-----------------------------------------------------------------------------
(* Disputes *)

Inserting(p) == {w \in Workers : p[w] = "insertDispute"}
Closing(p) == \E w \in Workers : p[w] \in {"override", "close"}
ClosedIn(t) == \E d \in DOMAIN t : t[d] = "resolved"

(* Each transaction that was applied leads to one row, or closes the        *)
(* disputes there are; a request may be on its way to either.               *)
DisputeInv ==
    /\ IsFiniteSet(Inserting(pc))
    /\ Len(disputes) + Cardinality(Inserting(pc)) <= broadcasts
    /\ ClosedIn(disputes) \/ Closing(pc) =>
          Len(disputes) + Cardinality(Inserting(pc)) + 1 <= broadcasts

LEMMA DisputeFrame ==
    ASSUME TypeOK, DisputeInv, TypeOK',
           Len(disputes') = Len(disputes), broadcasts' = broadcasts,
           Inserting(pc') \subseteq Inserting(pc),
           ClosedIn(disputes') \/ Closing(pc') => ClosedIn(disputes) \/ Closing(pc)
    PROVE  DisputeInv'
<1>1. /\ IsFiniteSet(Inserting(pc'))
      /\ Cardinality(Inserting(pc')) <= Cardinality(Inserting(pc))
      /\ Cardinality(Inserting(pc')) \in Nat /\ Cardinality(Inserting(pc)) \in Nat
  BY FS_Subset, FS_CardinalityType DEF DisputeInv
<1>2. Len(disputes) \in Nat /\ broadcasts \in Nat
  BY DEF TypeOK
<1> QED
  BY <1>1, <1>2 DEF DisputeInv

(* Where a worker goes, unless it is to a dispute's row or its closing.     *)
LEMMA GoesOn ==
    ASSUME TypeOK, NEW w \in Workers, NEW label,
           pc' = [pc EXCEPT ![w] = label], label # "insertDispute"
    PROVE  /\ Inserting(pc') \subseteq Inserting(pc)
           /\ Closing(pc') => label \in {"override", "close"} \/ Closing(pc)
BY DEF Inserting, Closing, TypeOK

LEMMA Elsewhere ==
    ASSUME TypeOK, TypeOK', DisputeInv, UNCHANGED <<disputes, broadcasts>>,
           NEW w \in Workers, NEW label,
           label \notin {"insertDispute", "override", "close"},
           Leave(w) \/ Goto(w, label)
    PROVE  DisputeInv'
<1>1. \E l : pc' = [pc EXCEPT ![w] = l] /\ l \notin {"insertDispute", "override", "close"}
  BY DEF Leave, Goto
<1>2. Inserting(pc') \subseteq Inserting(pc) /\ (Closing(pc') => Closing(pc))
  BY <1>1, GoesOn
<1> QED
  BY <1>2, DisputeFrame

LEMMA DisputeInvOutside ==
    ASSUME TypeOK, TypeOK', DisputeInv, Outside
    PROVE  DisputeInv'
<1>1. UNCHANGED <<broadcasts, worker>>
  BY DEF Outside, Lock, Age, Confirm, Index, AutoLock, InvestigateDispute, SetRow,
         OtherReports, OthersDecide, ResolveOnChain, Bulk, ledger, tables
<1>2. CASE InvestigateDispute
  <2>1. disputes' = Advance("open", "reviewing")
    BY <1>2 DEF InvestigateDispute
  <2>2. /\ Len(disputes') = Len(disputes)
        /\ \A d \in DOMAIN disputes :
              disputes'[d] = IF disputes[d] = "open" THEN "reviewing" ELSE disputes[d]
    BY <2>1, AdvanceIs DEF DisputeRow
  <2>3. DOMAIN disputes' = DOMAIN disputes
    BY <2>2 DEF TypeOK
  <2>4. ClosedIn(disputes') => ClosedIn(disputes)
    BY <2>2, <2>3 DEF ClosedIn
  <2> QED
    BY <1>1, <2>2, <2>4, DisputeFrame DEF worker
<1>3. CASE UNCHANGED disputes
  BY <1>1, <1>3, DisputeFrame DEF worker
<1> QED
  BY <1>2, <1>3 DEF Outside, Lock, Age, Confirm, Index, AutoLock, SetRow,
         OtherReports, OthersDecide, ResolveOnChain, Bulk, ledger, tables

(* dispute_market is sent, for a new row or for one to close.               *)
LEMMA DisputeSent ==
    ASSUME TypeOK, TypeOK', DisputeInv, NEW w \in Workers,
           FlagDispute(w) \/ RaiseDispute(w)
    PROVE  DisputeInv'
<1> DEFINE c == [chain EXCEPT !.status = "Disputed"]
<1>1. /\ UNCHANGED disputes
      /\ \E ok \in {"insertDispute", "override"} : Invoke(w, CanDispute, c, ok)
      /\ broadcasts' = IF Applied THEN broadcasts + 1 ELSE broadcasts
  BY DEF FlagDispute, RaiseDispute, tables
<1>2. PICK ok \in {"insertDispute", "override"} : Invoke(w, CanDispute, c, ok)
  BY <1>1
<1>3. \/ /\ CanDispute /\ Turn(c)
         /\ Leave(w) \/ (Goto(w, ok) /\ UNCHANGED <<verdict, id>>)
      \/ UNCHANGED <<chain, events>> /\ Leave(w)
  BY <1>2, Invoked
<1>4. CASE UNCHANGED <<chain, events>> /\ Leave(w)
  BY <1>1, <1>4, Elsewhere DEF Applied
<1>5. CASE /\ CanDispute /\ Turn(c)
           /\ Leave(w) \/ (Goto(w, ok) /\ UNCHANGED <<verdict, id>>)
  <2>1. broadcasts' = broadcasts + 1
    <3>1. c.status # chain.status
      BY <1>5 DEF CanDispute, TypeOK, ChainRow
    <3> QED
      BY <1>1, <1>5, <3>1 DEF Applied, Turn
  <2>2. PICK label \in {"idle", "insertDispute", "override"} :
                pc' = [pc EXCEPT ![w] = label]
    BY <1>5 DEF Leave, Goto
  <2>3. /\ IsFiniteSet(Inserting(pc)) /\ Cardinality(Inserting(pc)) \in Nat
        /\ Len(disputes) \in Nat /\ broadcasts \in Nat
    BY FS_CardinalityType DEF DisputeInv, TypeOK
  <2>4. CASE label = "insertDispute"
    <3>1. Inserting(pc') \subseteq Inserting(pc) \cup {w}
          /\ (Closing(pc') => Closing(pc))
      BY <2>2, <2>4 DEF Inserting, Closing, TypeOK
    <3>2. /\ IsFiniteSet(Inserting(pc) \cup {w})
          /\ Cardinality(Inserting(pc) \cup {w}) <= Cardinality(Inserting(pc)) + 1
          /\ Cardinality(Inserting(pc) \cup {w}) \in Nat
      BY <2>3, FS_AddElement, FS_CardinalityType
    <3>3. /\ IsFiniteSet(Inserting(pc'))
          /\ Cardinality(Inserting(pc')) <= Cardinality(Inserting(pc) \cup {w})
          /\ Cardinality(Inserting(pc')) \in Nat
      BY <3>1, <3>2, FS_Subset, FS_CardinalityType
    <3>4. Cardinality(Inserting(pc')) <= Cardinality(Inserting(pc)) + 1
      BY <2>3, <3>2, <3>3
    <3> QED
      BY <1>1, <2>1, <2>3, <3>1, <3>3, <3>4 DEF DisputeInv
  <2>5. CASE label # "insertDispute"
    <3>1. Inserting(pc') \subseteq Inserting(pc)
      BY <2>2, <2>5, GoesOn
    <3>2. /\ IsFiniteSet(Inserting(pc')) /\ Cardinality(Inserting(pc')) \in Nat
          /\ Cardinality(Inserting(pc')) <= Cardinality(Inserting(pc))
      BY <2>3, <3>1, FS_Subset, FS_CardinalityType
    <3> QED
      BY <1>1, <2>1, <2>3, <3>2 DEF DisputeInv
  <2> QED
    BY <2>4, <2>5
<1> QED
  BY <1>3, <1>4, <1>5

LEMMA DisputeInvWorker ==
    ASSUME TypeOK, TypeOK', DisputeInv, NEW w \in Workers,
           Sends(w) \/ Writes(w) \/ Ends(w)
    PROVE  DisputeInv'
<1>1. CASE FlagDispute(w) \/ RaiseDispute(w)
  BY <1>1, DisputeSent
<1>2. CASE AutoCancel(w) \/ SendReport(w) \/ CancelMarket(w)
  <2>1. UNCHANGED <<disputes, broadcasts>>
    BY <1>2 DEF AutoCancel, SendReport, CancelMarket, tables
  <2>2. \E ok \in {"idle", "accept", "setCancelled"} : Leave(w) \/ Goto(w, ok)
    BY <1>2, Invoked DEF AutoCancel, SendReport, CancelMarket
  <2> QED
    BY <2>1, <2>2, Elsewhere
<1>3. CASE InsertReport(w) \/ AcceptReport(w)
  <2>1. UNCHANGED <<disputes, broadcasts>> /\ (Leave(w) \/ Goto(w, "report"))
    BY <1>3 DEF InsertReport, AcceptReport, ledger
  <2> QED
    BY <2>1, Elsewhere
<1>4. CASE RecordOverride(w)
  <2>1. /\ UNCHANGED <<disputes, broadcasts>> /\ pc[w] = "override"
        /\ pc' = [pc EXCEPT ![w] = "close"]
    BY <1>4 DEF RecordOverride, Goto, ledger
  <2>2. Inserting(pc') \subseteq Inserting(pc) /\ Closing(pc)
    BY <2>1, GoesOn DEF Closing
  <2> QED
    BY <2>1, <2>2, DisputeFrame
<1>5. CASE CloseDispute(w)
  <2>1. /\ UNCHANGED broadcasts /\ pc[w] = "close"
        /\ disputes' = Advance("reviewing", "resolved")
        /\ \E label \in {"idle", "settle"} : pc' = [pc EXCEPT ![w] = label]
    BY <1>5 DEF CloseDispute, Goto, Leave, ledger
  <2>2. Inserting(pc') \subseteq Inserting(pc) /\ Closing(pc)
    BY <2>1, GoesOn DEF Closing
  <2>3. Len(disputes') = Len(disputes)
    BY <2>1, AdvanceIs DEF DisputeRow
  <2> QED
    BY <2>1, <2>2, <2>3, DisputeFrame
<1>6. CASE InsertDispute(w)
  <2>1. /\ UNCHANGED broadcasts /\ pc[w] = "insertDispute"
        /\ disputes' = Append(disputes, "open")
        /\ pc' = [pc EXCEPT ![w] = "setDisputed"]
    BY <1>6 DEF InsertDispute, AtInsertDispute, Goto, ledger
  <2>2. w \in Inserting(pc) /\ Inserting(pc') = Inserting(pc) \ {w}
    BY <2>1 DEF Inserting, TypeOK
  <2>3. Closing(pc') => Closing(pc)
    BY <2>1 DEF Closing, TypeOK
  <2>4. /\ IsFiniteSet(Inserting(pc')) /\ Cardinality(Inserting(pc')) \in Nat
        /\ Cardinality(Inserting(pc')) = Cardinality(Inserting(pc)) - 1
        /\ Cardinality(Inserting(pc)) \in Nat
    BY <2>2, FS_RemoveElement, FS_CardinalityType DEF DisputeInv
  <2>5. /\ Len(disputes) \in Nat /\ Len(disputes') = Len(disputes) + 1
        /\ DOMAIN disputes' = DOMAIN disputes \cup {Len(disputes) + 1}
        /\ \A d \in DOMAIN disputes : disputes'[d] = disputes[d]
        /\ disputes'[Len(disputes) + 1] = "open"
    BY <2>1 DEF TypeOK
  <2>6. ClosedIn(disputes') => ClosedIn(disputes)
    BY <2>5 DEF ClosedIn
  <2>7. broadcasts \in Nat
    BY DEF TypeOK
  <2> QED
    BY <2>1, <2>3, <2>4, <2>5, <2>6, <2>7 DEF DisputeInv
<1>7. CASE Ends(w)
  <2>1. UNCHANGED <<disputes, broadcasts>>
    <3>1. CASE Request(w)
      BY <3>1, Begun DEF ledger, tables
    <3> QED
      BY <1>7, <3>1 DEF Ends, JobStart, Fetch, Stop, SettleRow, UpdateMarketStatus,
                  ledger, tables
  <2>2. \E l \in {"insert", "cancelMarket", "flag", "raise", "fetch", "cancel", "idle"} :
            Leave(w) \/ Goto(w, l)
    <3>1. CASE Request(w)
      BY <3>1, Begun
    <3> QED
      BY <1>7, <3>1 DEF Ends, JobStart, Fetch, Stop, SettleRow, UpdateMarketStatus
  <2> QED
    BY <2>1, <2>2, Elsewhere
<1> QED
  BY <1>1, <1>2, <1>3, <1>4, <1>5, <1>6, <1>7 DEF Sends, Writes

LEMMA DisputeInvStep == TypeOK /\ TypeOK' /\ DisputeInv /\ [Next]_vars => DisputeInv'
<1> SUFFICES ASSUME TypeOK, TypeOK', DisputeInv, [Next]_vars
             PROVE  DisputeInv'
  OBVIOUS
<1>1. CASE UNCHANGED vars
  BY <1>1, DisputeFrame DEF vars, ledger, tables, worker
<1> QED
  BY <1>1, Steps, DisputeInvOutside, DisputeInvWorker

(* Every dispute row stands for a dispute of its own on the contract, and   *)
(* none is closed without one transaction more, however many administrators *)
(* flag the market and rule on it at the same time.                         *)
THEOREM AlwaysDisputeRowsBacked == Spec => []DisputeRowsBacked
<1>1. Init => DisputeInv
  <2> SUFFICES ASSUME Init
               PROVE  DisputeInv
    OBVIOUS
  <2>1. Inserting(pc) = {} /\ ~Closing(pc) /\ ~ClosedIn(disputes)
    BY DEF Init, Inserting, Closing, ClosedIn
  <2>2. Len(disputes) = 0 /\ broadcasts = 0
    BY DEF Init
  <2> QED
    BY <2>1, <2>2, FS_EmptySet DEF DisputeInv
<1>2. TypeOK /\ DisputeInv /\ [Next]_vars => (TypeOK /\ DisputeInv)'
  BY TypesStep, DisputeInvStep
<1>3. TypeOK /\ DisputeInv => DisputeRowsBacked
  <2> SUFFICES ASSUME TypeOK, DisputeInv
               PROVE  DisputeRowsBacked
    OBVIOUS
  <2>1. Cardinality(Inserting(pc)) \in Nat /\ Len(disputes) \in Nat /\ broadcasts \in Nat
    BY FS_CardinalityType DEF DisputeInv, TypeOK
  <2>2. Any("resolved") <=> ClosedIn(disputes)
    BY DEF Any, ClosedIn
  <2> QED
    BY <2>1, <2>2 DEF DisputeInv, DisputeRowsBacked
<1> QED
  BY <1>1, <1>2, <1>3, TypesInit, PTL DEF Spec

-----------------------------------------------------------------------------
(* The row and the contract *)

(* What a row, or an event, says of what the contract came to.              *)
Agrees(r, c) ==
    /\ r.status = RowStatus(c.status)
    /\ c.status = "Resolved" => r.outcome = c.outcome

Final == {"Resolved", "Cancelled"}
AfterDispute == {"insertDispute", "setDisputed", "override", "close", "settle"}

(* While there was no dispute a decision stands, the last event to be       *)
(* indexed carries it until the row does, and what may still write to the   *)
(* row leaves it so.                                                        *)
Follows(c, e, r) ==
    c.status \in Final =>
       /\ e = <<>> => Agrees(r, c)
       /\ e # <<>> => Agrees(e[Len(e)], c)

WorkersFollow(p, c) ==
    \A w \in Workers :
       p[w] \notin AfterDispute /\ (p[w] = "setCancelled" => c.status = "Cancelled")

RowInv ==
    broadcasts = 0 =>
       /\ chain.status # "Disputed"
       /\ WorkersFollow(pc, chain)
       /\ Follows(chain, events, row)

(* A decision of the contract is the last event, and no worker has seen it. *)
LEMMA Decided ==
    ASSUME TypeOK, NEW c \in ChainRow, Turn(c), c.status \in {"Locked"} \cup Final,
           chain.status \in {"Open", "Locked"}, NEW r
    PROVE  chain' = c /\ Follows(c, events', r)
<1>1. chain' = c
  BY DEF Turn
<1>2. CASE c.status \notin Final
  BY <1>1, <1>2 DEF Follows
<1>3. CASE c.status \in Final
  <2> DEFINE new == [status |-> RowStatus(c.status), outcome |-> c.outcome]
  <2>1. events' = Append(events, new)
    BY <1>3 DEF Turn, Final
  <2>2. new \in EventRow
    BY <1>3 DEF EventRow, ChainRow, RowStatus, Final
  <2>3. Agrees(new, c)
    BY DEF Agrees
  <2> HIDE DEF new
  <2>4. events' # <<>> /\ events'[Len(events')] = new
    BY <2>1, <2>2 DEF TypeOK
  <2> QED
    BY <1>1, <2>3, <2>4 DEF Follows
<1> QED
  BY <1>2, <1>3

(* Workers that go elsewhere follow as before.                              *)
LEMMA FollowElsewhere ==
    ASSUME TypeOK, NEW w \in Workers, NEW label, NEW c,
           label \notin AfterDispute,
           label = "setCancelled" => c.status = "Cancelled",
           pc' = [pc EXCEPT ![w] = label],
           \A v \in Workers : pc[v] \notin AfterDispute
                              /\ (pc[v] = "setCancelled" => c.status = "Cancelled")
    PROVE  WorkersFollow(pc', c)
BY DEF WorkersFollow, TypeOK

LEMMA RowInvOutside ==
    ASSUME TypeOK, RowInv, Outside
    PROVE  RowInv'
<1> SUFFICES ASSUME broadcasts = 0
             PROVE  /\ chain'.status # "Disputed"
                    /\ WorkersFollow(pc', chain')
                    /\ Follows(chain', events', row')
  <2>1. broadcasts' = broadcasts
    BY DEF Outside, Lock, Age, Confirm, Index, AutoLock, InvestigateDispute, SetRow,
           OtherReports, OthersDecide, ResolveOnChain, Bulk, ledger
  <2> QED
    BY <2>1 DEF RowInv
<1>a. /\ chain.status # "Disputed" /\ WorkersFollow(pc, chain)
      /\ Follows(chain, events, row) /\ chain \in ChainRow
  BY DEF RowInv, TypeOK
<1>b. pc' = pc
  BY DEF Outside, Lock, Age, Confirm, Index, AutoLock, InvestigateDispute, SetRow,
         OtherReports, OthersDecide, ResolveOnChain, Bulk, worker
<1>1. ASSUME NEW c \in ChainRow, Turn(c), c.status \in {"Locked", "Resolved"},
             chain.status \in {"Open", "Locked"}, row' = row
      PROVE  /\ chain'.status # "Disputed"
             /\ WorkersFollow(pc', chain')
             /\ Follows(chain', events', row')
  <2>1. chain' = c /\ Follows(c, events', row')
    BY <1>1, Decided DEF Final
  <2>2. WorkersFollow(pc', c)
    BY <1>a, <1>b, <1>1 DEF WorkersFollow
  <2> QED
    BY <1>1, <2>1, <2>2
<1>2. CASE Lock
  <2>1. row' = row /\ chain.status = "Open"
    BY <1>2 DEF Lock, tables
  <2>2. "Locked" \in ChainStatus /\ Null \in Verdicts
    BY DEF ChainStatus, Verdicts
  <2>3. PICK c \in ChainRow : c.status = "Locked" /\ Turn(c)
    BY <1>2, <1>a, <2>2, ChainRows DEF Lock
  <2> QED
    BY <1>1, <2>1, <2>3
<1>3. ASSUME NEW x \in Outcomes, OtherReports(x) \/ OthersDecide(x)
      PROVE  /\ chain'.status # "Disputed"
             /\ WorkersFollow(pc', chain')
             /\ Follows(chain', events', row')
  <2>1. row' = row /\ chain.status = "Locked"
    BY <1>3 DEF OtherReports, OthersDecide, CanReport, tables
  <2>2. x \in Verdicts /\ "Resolved" \in ChainStatus
    BY DEF Verdicts, ChainStatus
  <2>3. PICK c \in ChainRow : c.status \in {"Locked", "Resolved"} /\ Turn(c)
    <3>1. CASE OtherReports(x)
      BY <1>a, <2>1, <2>2, <3>1, ReportRows DEF OtherReports
    <3>2. CASE OthersDecide(x)
      BY <1>a, <2>1, <2>2, <3>2, ChainRows DEF OthersDecide
    <3> QED
      BY <1>3, <3>1, <3>2
  <2> QED
    BY <1>1, <2>1, <2>3
<1>4. ASSUME NEW x \in Outcomes, ResolveOnChain(x)
      PROVE  FALSE
  BY <1>4, <1>a DEF ResolveOnChain
<1>5. CASE Index
  <2>1. /\ events # <<>> /\ events' = Tail(events) /\ chain' = chain
        /\ row' = [status |-> Head(events).status,
                   outcome |-> IF Head(events).status = "resolved"
                               THEN Head(events).outcome ELSE row.outcome]
    BY <1>5 DEF Index
  <2>2. Follows(chain, events', row')
    <3> SUFFICES ASSUME chain.status \in Final
                 PROVE  /\ events' = <<>> => Agrees(row', chain)
                        /\ events' # <<>> => Agrees(events'[Len(events')], chain)
      BY DEF Follows
    <3>1. Agrees(events[Len(events)], chain)
      BY <1>a, <2>1 DEF Follows
    <3>2. CASE events' = <<>>
      <4>1. Head(events) = events[Len(events)]
        <5>1. events \in Seq(EventRow)
          BY DEF TypeOK
        <5>2. Len(events) = 1
          <6>1. Len(events) \in Nat /\ Len(Tail(events)) = Len(events) - 1
            BY <2>1, <5>1
          <6>2. Tail(events) = <<>>
            BY <2>1, <3>2 DEF TypeOK
          <6>3. Len(<<>>) = 0
            OBVIOUS
          <6>4. Len(Tail(events)) = 0
            BY <6>2, <6>3, Zenon
          <6> QED
            BY <6>1, <6>4
        <5> QED
          BY <5>1, <5>2
      <4>2. RowStatus(chain.status) = "resolved" <=> chain.status = "Resolved"
        BY DEF RowStatus, Final
      <4> QED
        BY <2>1, <3>1, <3>2, <4>1, <4>2 DEF Agrees
    <3>3. CASE events' # <<>>
      <4>1. events'[Len(events')] = events[Len(events)]
        <5>1. events \in Seq(EventRow) /\ Len(events) \in Nat
          BY DEF TypeOK
        <5>2. Len(events) > 1 /\ Len(events') = Len(events) - 1
          BY <2>1, <3>3, <5>1
        <5>3. \A i \in 1..Len(events') : events'[i] = events[i + 1]
          BY <2>1, <5>1
        <5>4. Len(events') \in 1..Len(events') /\ Len(events') + 1 = Len(events)
          BY <5>1, <5>2
        <5> QED
          BY <5>3, <5>4
      <4> QED
        BY <3>1, <3>3, <4>1
    <3> QED
      BY <3>2, <3>3
  <2> QED
    BY <1>a, <1>b, <2>1, <2>2
<1>6. ASSUME NEW from, NEW to, from \subseteq {"open", "locked"}, SetRow(from, to)
      PROVE  /\ chain'.status # "Disputed"
             /\ WorkersFollow(pc', chain')
             /\ Follows(chain', events', row')
  <2>1. chain' = chain /\ events' = events /\ row.status \in {"open", "locked"}
    BY <1>6 DEF SetRow, StatusIn, ledger
  <2>2. chain.status \in Final => events # <<>>
    BY <1>a, <2>1 DEF Follows, Agrees, RowStatus, Final
  <2>3. Follows(chain, events, row')
    BY <1>a, <2>2 DEF Follows
  <2> QED
    BY <1>a, <1>b, <2>1, <2>3
<1>7. CASE AutoLock \/ Bulk({"open"}, "locked") \/ Bulk({"open", "locked"}, "cancelled")
  BY <1>6, <1>7 DEF AutoLock, Bulk
<1>8. CASE Age \/ Confirm \/ InvestigateDispute
  BY <1>8, <1>a, <1>b DEF Age, Confirm, InvestigateDispute, ledger, tables
<1> QED
  BY <1>2, <1>3, <1>4, <1>5, <1>7, <1>8 DEF Outside

LEMMA RowInvWorker ==
    ASSUME TypeOK, RowInv, NEW w \in Workers, Sends(w) \/ Writes(w) \/ Ends(w)
    PROVE  RowInv'
<1> SUFFICES ASSUME broadcasts = 0, broadcasts' = 0
             PROVE  /\ chain'.status # "Disputed"
                    /\ WorkersFollow(pc', chain')
                    /\ Follows(chain', events', row')
  <2>1. broadcasts' = broadcasts \/ broadcasts' = broadcasts + 1
    <3>1. CASE Request(w)
      BY <3>1, Begun DEF ledger
    <3> QED
      BY <3>1 DEF Sends, Writes, Ends, AutoCancel, SendReport, CancelMarket, FlagDispute,
         RaiseDispute, InsertReport, AcceptReport, RecordOverride, InsertDispute,
         CloseDispute, JobStart, Fetch, Stop, SettleRow, UpdateMarketStatus, ledger
  <2>2. broadcasts \in Nat
    BY DEF TypeOK
  <2>3. broadcasts' = 0 => broadcasts = 0
    BY <2>1, <2>2
  <2> QED
    BY <2>3 DEF RowInv
<1>a. /\ chain.status # "Disputed" /\ WorkersFollow(pc, chain)
      /\ Follows(chain, events, row) /\ chain \in ChainRow
  BY DEF RowInv, TypeOK
<1>b. \A v \in Workers : pc[v] \notin AfterDispute
                         /\ (pc[v] = "setCancelled" => chain.status = "Cancelled")
  BY <1>a DEF WorkersFollow
<1>1. ASSUME UNCHANGED <<chain, events, row>>, NEW label,
             label \notin AfterDispute \cup {"setCancelled"},
             Leave(w) \/ Goto(w, label)
      PROVE  /\ chain'.status # "Disputed"
             /\ WorkersFollow(pc', chain')
             /\ Follows(chain', events', row')
  <2>1. PICK l : pc' = [pc EXCEPT ![w] = l] /\ l \notin AfterDispute \cup {"setCancelled"}
    BY <1>1 DEF Leave, Goto, AfterDispute
  <2>2. WorkersFollow(pc', chain)
    BY <1>b, <2>1, FollowElsewhere
  <2> QED
    BY <1>1, <1>a, <2>2
<1>2. ASSUME NEW can, NEW c \in ChainRow, NEW ok, Invoke(w, can, c, ok),
             can => chain.status \in {"Open", "Locked"},
             can => c.status \in {"Locked"} \cup Final,
             ok \notin AfterDispute, ok = "setCancelled" => c.status = "Cancelled",
             row' = row
      PROVE  /\ chain'.status # "Disputed"
             /\ WorkersFollow(pc', chain')
             /\ Follows(chain', events', row')
  <2>1. \/ /\ can /\ Turn(c)
           /\ Leave(w) \/ (Goto(w, ok) /\ UNCHANGED <<verdict, id>>)
        \/ UNCHANGED <<chain, events>> /\ Leave(w)
    BY <1>2, Invoked
  <2>2. CASE UNCHANGED <<chain, events>> /\ Leave(w)
    <3>1. "idle" \notin AfterDispute \cup {"setCancelled"}
      BY DEF AfterDispute
    <3> QED
      BY <1>1, <1>2, <2>2, <3>1
  <2>3. CASE /\ can /\ Turn(c)
             /\ Leave(w) \/ (Goto(w, ok) /\ UNCHANGED <<verdict, id>>)
    <3>1. chain' = c /\ Follows(c, events', row')
      BY <1>2, <2>3, Decided
    <3>2. PICK l \in {"idle", ok} : pc' = [pc EXCEPT ![w] = l]
      BY <2>3 DEF Leave, Goto
    <3>3. l \notin AfterDispute /\ (l = "setCancelled" => c.status = "Cancelled")
      BY <1>2 DEF AfterDispute
    <3>4. \A v \in Workers : pc[v] \notin AfterDispute /\ pc[v] # "setCancelled"
      BY <1>b, <1>2, <2>3
    <3>5. WorkersFollow(pc', c)
      BY <3>2, <3>3, <3>4, FollowElsewhere
    <3>6. c.status # "Disputed"
      BY <1>2, <2>3 DEF Final
    <3> QED
      BY <3>1, <3>5, <3>6
  <2> QED
    BY <2>1, <2>2, <2>3
<1>3. CASE AutoCancel(w) \/ CancelMarket(w)
  <2> DEFINE c == [chain EXCEPT !.status = "Cancelled"]
  <2>1. "Cancelled" \in ChainStatus /\ Null \in Verdicts
    BY DEF ChainStatus, Verdicts
  <2>2. c \in ChainRow /\ c.status = "Cancelled"
    BY <1>a, <2>1, ChainRows
  <2>3. PICK ok \in {"idle", "setCancelled"} :
           Invoke(w, OracleCanCancel, c, ok) \/ Invoke(w, CanCancel, c, ok)
    BY <1>3 DEF AutoCancel, CancelMarket
  <2>4. row' = row
    BY <1>3 DEF AutoCancel, CancelMarket, tables
  <2> HIDE DEF c
  <2>5. OracleCanCancel \/ CanCancel => chain.status \in {"Open", "Locked"}
    BY DEF CanCancel, OracleCanCancel
  <2>6. ok \notin AfterDispute /\ c.status \in {"Locked"} \cup Final
    BY <2>2 DEF AfterDispute, Final
  <2> QED
    BY <1>2, <2>2, <2>3, <2>4, <2>5, <2>6
<1>4. CASE SendReport(w)
  <2> DEFINE c == Report("ours", verdict[w])
  <2>1. verdict[w] \in Verdicts
    BY DEF TypeOK
  <2>2. c \in ChainRow /\ c.status \in {chain.status, "Resolved"}
    BY <1>a, <2>1, ReportRows
  <2>3. Invoke(w, CanReport("ours"), c, "accept") /\ row' = row
    BY <1>4 DEF SendReport, tables
  <2> HIDE DEF c
  <2>4. /\ CanReport("ours") => chain.status \in {"Open", "Locked"}
        /\ CanReport("ours") => c.status \in {"Locked"} \cup Final
    BY <2>2 DEF CanReport, Final
  <2>5. "accept" \notin AfterDispute
    BY DEF AfterDispute
  <2> QED
    BY <1>2, <2>2, <2>3, <2>4, <2>5
<1>5. CASE FlagDispute(w) \/ RaiseDispute(w)
  <2>1. ~Applied /\ row' = row
    BY <1>5 DEF FlagDispute, RaiseDispute, tables
  <2>2. Leave(w) /\ UNCHANGED <<chain, events>>
    <3>1. \/ /\ CanDispute /\ Turn([chain EXCEPT !.status = "Disputed"])
          \/ UNCHANGED <<chain, events>> /\ Leave(w)
      BY <1>5, Invoked DEF FlagDispute, RaiseDispute
    <3>2. CanDispute => [chain EXCEPT !.status = "Disputed"] # chain
      <4>1. CanDispute => chain.status = "Resolved"
        BY DEF CanDispute
      <4>2. [chain EXCEPT !.status = "Disputed"].status = "Disputed"
        BY <1>a DEF ChainRow
      <4> QED
        BY <4>1, <4>2
    <3> QED
      BY <2>1, <3>1, <3>2 DEF Applied, Turn
  <2>3. "idle" \notin AfterDispute \cup {"setCancelled"}
    BY DEF AfterDispute
  <2> QED
    BY <1>1, <2>1, <2>2, <2>3
<1>6. CASE InsertReport(w) \/ AcceptReport(w)
  <2>1. UNCHANGED <<chain, events, row>> /\ (Leave(w) \/ Goto(w, "report"))
    BY <1>6 DEF InsertReport, AcceptReport, ledger
  <2>2. "report" \notin AfterDispute \cup {"setCancelled"}
    BY DEF AfterDispute
  <2> QED
    BY <1>1, <2>1, <2>2
<1>7. CASE RecordOverride(w) \/ InsertDispute(w) \/ CloseDispute(w) \/ SettleRow(w)
           \/ UpdateMarketStatus(w, "setDisputed", "disputed")
  BY <1>7, <1>b DEF RecordOverride, InsertDispute, AtInsertDispute, CloseDispute,
                    SettleRow, UpdateMarketStatus, AfterDispute
<1>8. CASE UpdateMarketStatus(w, "setCancelled", "cancelled")
  <2>1. /\ pc[w] = "setCancelled" /\ row' = [row EXCEPT !.status = "cancelled"]
        /\ Leave(w) /\ UNCHANGED <<chain, events>>
    BY <1>8 DEF UpdateMarketStatus, ledger
  <2>2. chain.status = "Cancelled"
    BY <1>b, <2>1
  <2>3. row'.status = "cancelled"
    BY <2>1 DEF TypeOK, MarketRow
  <2>4. Follows(chain, events, row')
    BY <1>a, <2>2, <2>3 DEF Follows, Agrees, RowStatus, Final
  <2>5. pc' = [pc EXCEPT ![w] = "idle"] /\ "idle" \notin AfterDispute
    BY <2>1 DEF Leave, Goto, AfterDispute
  <2>6. WorkersFollow(pc', chain)
    BY <1>b, <2>2, <2>5, FollowElsewhere
  <2> QED
    BY <1>a, <2>1, <2>4, <2>6
<1>9. CASE Request(w) \/ JobStart(w) \/ Fetch(w) \/ Stop(w)
  <2>1. UNCHANGED <<chain, events, row>>
    <3>1. CASE Request(w)
      BY <3>1, Begun DEF ledger, tables
    <3> QED
      BY <1>9, <3>1 DEF JobStart, Fetch, Stop, ledger, tables
  <2>2. \E l \in {"insert", "cancelMarket", "flag", "raise", "fetch", "cancel", "idle"} :
            Leave(w) \/ Goto(w, l)
    <3>1. CASE Request(w)
      BY <3>1, Begun
    <3> QED
      BY <1>9, <3>1 DEF JobStart, Fetch, Stop
  <2>3. \A l \in {"insert", "cancelMarket", "flag", "raise", "fetch", "cancel", "idle"} :
            l \notin AfterDispute \cup {"setCancelled"}
    BY DEF AfterDispute
  <2> QED
    BY <1>1, <2>1, <2>2, <2>3
<1> QED
  BY <1>3, <1>4, <1>5, <1>6, <1>7, <1>8, <1>9 DEF Sends, Writes, Ends

LEMMA RowInvStep == TypeOK /\ RowInv /\ [Next]_vars => RowInv'
<1> SUFFICES ASSUME TypeOK, RowInv, [Next]_vars
             PROVE  RowInv'
  OBVIOUS
<1>1. CASE UNCHANGED vars
  BY <1>1 DEF vars, ledger, tables, worker, RowInv, WorkersFollow
<1> QED
  BY <1>1, Steps, RowInvOutside, RowInvWorker

(* Once its events are indexed, the row of an undisputed market says what   *)
(* the contract came to, whatever jobs, bulk changes and requests that read *)
(* the row before wrote to it.                                              *)
THEOREM AlwaysRowConverges == Spec => []RowConverges
<1>1. Init => RowInv
  BY DEF Init, RowInv, WorkersFollow, Follows, AfterDispute, Final
<1>2. TypeOK /\ RowInv /\ [Next]_vars => (TypeOK /\ RowInv)'
  BY TypesStep, RowInvStep
<1>3. RowInv => RowConverges
  BY DEF RowInv, RowConverges, Follows, Agrees, Final
<1> QED
  BY <1>1, <1>2, <1>3, TypesInit, PTL DEF Spec
==============================================================================
