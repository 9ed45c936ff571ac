------------------------- MODULE StellarIndexerProofs -------------------------
(***************************************************************************)
(* What the indexer keeps, for any number of markets, bettors, events,     *)
(* ledgers, faults and backfills, and any limits on answers and batches.   *)
(*                                                                         *)
(* IInv says of the chain that its events are in the order of their        *)
(* ledgers, of the tables that the markets' rows cover the bets', and of   *)
(* each worker what it has settled, and what it still has in its queue, of *)
(* the ledger it is at.                                                    *)
(***************************************************************************)
EXTENDS StellarIndexer, SumTheorems

Kinds == Turns \cup {"bet_placed", "winnings_claimed", "refund_claimed"}
ChainRow ==
    [kind : Kinds, market : Markets, bettor : Bettors \cup {None},
     side : Sides \cup {None}, amount : Nat, ledger : Nat, tx : Nat]
MarketRow ==
    [status : {None, "open", "locked", "resolved", "cancelled"},
     pool : [Sides -> Nat], total : Nat]
BetRow ==
    [market : Markets \cup {None}, bettor : Bettors \cup {None},
     side : Sides \cup {None}, amount : Nat, claimed : BOOLEAN]
Labels == {"down", "boot", "resume", "idle", "fetch", "record", "handle", "save"}
Busy == {"fetch", "record", "handle", "save"}

(* The n-th event is of the n-th transaction, and ledgers only go up. *)
ChainOK ==
    /\ chain \in Seq(ChainRow) /\ Len(chain) <= MaxEvents
    /\ latest \in Nat
    /\ \A t \in DOMAIN chain : chain[t].tx = t /\ chain[t].ledger \in 1..latest + 1
    /\ \A t \in DOMAIN chain : \A u \in DOMAIN chain :
          t <= u => chain[t].ledger <= chain[u].ledger

(* A bet's row has a market's row to refer to. *)
TablesOK ==
    /\ markets \in [Markets -> MarketRow]
    /\ bets \in [Txs -> BetRow]
    /\ \A t \in Txs : bets[t] # NoBet => /\ bets[t].market \in Markets
                                         /\ HasRow(bets[t].market)

(* What is in a queue has come from the chain. *)
IsAnswer(q) == \A i \in DOMAIN q : /\ q[i].tx \in DOMAIN chain
                                   /\ q[i] = Payload(chain[q[i].tx])

WorkersOK ==
    /\ pc \in [Workers -> Labels]
    /\ seq \in [Workers -> Nat] /\ to \in [Workers -> Nat]
    /\ queue \in [Workers -> Seq(ChainRow)]
    /\ checkpoint \in 0..latest /\ last \in 0..latest
    /\ swallowed \subseteq 1..latest
    /\ eventRows \in [Txs -> Kinds \cup {None}]
    /\ \A w \in Workers : /\ pc[w] \in {"record", "handle"} <=> queue[w] # <<>>
                          /\ to[w] <= latest
                          /\ pc[w] \in Busy => seq[w] \in 1..latest
                          /\ IsAnswer(queue[w])

(* An event that was asked for is settled.                                  *)
Passed(t) == Asked(t) => Settled(t)

(* Everything up to a ledger is settled. *)
Upto(l) == \A t \in DOMAIN chain : chain[t].ledger <= l => Passed(t)

Queued(w, t) == \E i \in DOMAIN queue[w] : queue[w][i].tx = t

(* A worker has settled every ledger before its own, and of its own ledger  *)
(* all that is not in its queue; what it handles is on record.              *)
WorkerProgress(w) ==
    /\ pc[w] \in Busy => Upto(seq[w] - 1)
    /\ pc[w] \in {"record", "handle", "save"} =>
          \A t \in DOMAIN chain :
              chain[t].ledger = seq[w] => Passed(t) \/ Queued(w, t)
    /\ pc[w] = "handle" =>
          eventRows[Head(queue[w]).tx] = Head(queue[w]).kind

Progress ==
    /\ Upto(checkpoint) /\ Upto(last)
    /\ pc["poller"] = "resume" => Upto(to["poller"])
    /\ \A w \in Workers : WorkerProgress(w)

RowsInv == ChainOK /\ TablesOK /\ WorkersOK /\ PoolsCoverBets
IInv == RowsInv /\ Progress

-----------------------------------------------------------------------------
(* The answers of the endpoint *)

LEMMA RankType ==
    ASSUME NEW k \in Nat, NEW S \in SUBSET (1..k)
    PROVE  /\ IsFiniteSet(S) /\ Cardinality(S) \in Nat
           /\ \A t \in S : /\ Rank(S, t) \in 1..Cardinality(S)
                           /\ IsFiniteSet({u \in S : u <= t})
<1>1. IsFiniteSet(1..k)
  BY FS_Interval
<1>2. IsFiniteSet(S)
  BY <1>1, FS_Subset
<1>3. Cardinality(S) \in Nat
  BY <1>2, FS_CardinalityType
<1>4. ASSUME NEW t \in S
      PROVE  Rank(S, t) \in 1..Cardinality(S) /\ IsFiniteSet({u \in S : u <= t})
  <2> DEFINE Low == {u \in S : u <= t}
  <2>1. Low \in SUBSET S /\ t \in Low
    OBVIOUS
  <2>2. IsFiniteSet(Low) /\ Cardinality(Low) <= Cardinality(S)
    BY <1>2, <2>1, FS_Subset
  <2>3. Cardinality(Low) \in Nat /\ Cardinality(Low) # 0
    BY <2>1, <2>2, FS_CardinalityType, FS_EmptySet
  <2> QED
    BY <1>3, <2>2, <2>3 DEF Rank
<1> QED
  BY <1>2, <1>3, <1>4

LEMMA RankGrows ==
    ASSUME NEW k \in Nat, NEW S \in SUBSET (1..k), NEW t \in S, NEW u \in S, t < u
    PROVE  Rank(S, t) < Rank(S, u)
<1> DEFINE Low(x) == {y \in S : y <= x}
<1>1. IsFiniteSet(Low(u)) /\ IsFiniteSet(Low(t))
  BY RankType
<1>2. Low(t) \in SUBSET (Low(u) \ {u}) /\ u \in Low(u)
  <2>1. \A y \in S : y \in Nat
    OBVIOUS
  <2>2. \A y \in S : y <= t => y <= u /\ y # u
    BY <2>1
  <2>3. \A y \in Low(t) : y \in Low(u) /\ y # u
    BY <2>2
  <2>4. u <= u
    BY <2>1
  <2> QED
    BY <2>3, <2>4
<1>3. /\ IsFiniteSet(Low(u) \ {u})
      /\ Cardinality(Low(u) \ {u}) = Cardinality(Low(u)) - 1
  BY <1>1, <1>2, FS_RemoveElement
<1>4. Cardinality(Low(t)) <= Cardinality(Low(u) \ {u})
  BY <1>2, <1>3, FS_Subset
<1>5. Cardinality(Low(u)) \in Nat /\ Cardinality(Low(t)) \in Nat
  BY <1>1, FS_CardinalityType
<1>6. Cardinality(Low(t)) < Cardinality(Low(u))
  BY <1>3, <1>4, <1>5
<1> QED
  BY <1>6 DEF Rank

LEMMA GreatestElement ==
    ASSUME NEW k \in Nat, NEW S \in SUBSET (1..k), S # {}
    PROVE  \E m \in S : \A t \in S : t <= m
<1> DEFINE Far == {k - t : t \in S}
<1>1. Far \in SUBSET Nat /\ Far # {}
  <2>1. \A t \in S : t \in 1..k /\ k - t \in Nat
    OBVIOUS
  <2> QED
    BY <2>1
<1>2. PICK n \in Far : \A x \in Far : n <= x
  BY <1>1, LeastNat
<1>3. PICK m \in S : n = k - m
  OBVIOUS
<1>4. \A t \in S : k - m <= k - t
  BY <1>2, <1>3
<1> QED
  BY <1>4

(* A set of n numbers has one of each rank up to n: if not, a smallest such *)
(* set would not either without its greatest number.                        *)
LEMMA EveryRank ==
    ASSUME NEW k \in Nat, NEW S \in SUBSET (1..k), NEW n \in 1..Cardinality(S)
    PROVE  \E t \in S : Rank(S, t) = n
<1> DEFINE Bad == {T \in SUBSET S :
                      \E r \in 1..Cardinality(T) : \A t \in T : Rank(T, t) # r}
<1>1. SUFFICES ASSUME Bad # {} PROVE FALSE
  <2>1. IsFiniteSet(S) /\ Cardinality(S) \in Nat
    BY RankType
  <2> QED
    BY <2>1
<1>2. IsFiniteSet(S)
  BY RankType
<1>3. PICK T \in Bad : \A x \in T : T \ {x} \notin Bad
  BY <1>1, <1>2, MinimalSubset
<1>4. PICK r \in 1..Cardinality(T) : \A t \in T : Rank(T, t) # r
  BY <1>3
<1>5. T \in SUBSET (1..k) /\ IsFiniteSet(T) /\ Cardinality(T) \in Nat
  <2>1. T \in SUBSET (1..k)
    BY <1>3
  <2> QED
    BY <2>1, RankType
<1>6. T # {}
  <2>1. ASSUME T = {} PROVE FALSE
    <3>1. Cardinality(T) = 0
      BY <2>1, FS_EmptySet
    <3> QED
      BY <1>4, <3>1
  <2> QED
    BY <2>1
<1>7. PICK m \in T : \A t \in T : t <= m
  BY <1>5, <1>6, GreatestElement
<1>8. Cardinality(T \ {m}) = Cardinality(T) - 1
  BY <1>5, FS_RemoveElement
<1>9. CASE r = Cardinality(T)
  <2>1. {u \in T : u <= m} = T
    BY <1>7
  <2>2. Rank(T, m) = r
    BY <1>9, <2>1 DEF Rank
  <2> QED
    BY <1>4, <2>2
<1>10. CASE r # Cardinality(T)
  <2>1. r \in 1..Cardinality(T \ {m})
    BY <1>4, <1>5, <1>8, <1>10
  <2>2. T \ {m} \in SUBSET S
    BY <1>3
  <2>3. PICK t \in T \ {m} : Rank(T \ {m}, t) = r
    BY <1>3, <2>1, <2>2
  <2>4. ~(m <= t)
    BY <1>5, <1>7, <2>3
  <2>5. {u \in T \ {m} : u <= t} = {u \in T : u <= t}
    BY <2>4
  <2>6. Rank(T, t) = r
    BY <2>3, <2>5 DEF Rank
  <2> QED
    BY <1>4, <2>6
<1> QED
  BY <1>9, <1>10

LEMMA NthFound ==
    ASSUME NEW k \in Nat, NEW S \in SUBSET (1..k), NEW n \in 1..Cardinality(S)
    PROVE  Nth(S, n) \in S /\ Rank(S, Nth(S, n)) = n
BY EveryRank DEF Nth

LEMMA NthOfRank ==
    ASSUME NEW k \in Nat, NEW S \in SUBSET (1..k), NEW t \in S
    PROVE  Nth(S, Rank(S, t)) = t
<1> DEFINE u == Nth(S, Rank(S, t))
<1>1. Rank(S, t) \in 1..Cardinality(S)
  BY RankType
<1>2. u \in S /\ Rank(S, u) = Rank(S, t)
  BY <1>1, NthFound
<1>3. Rank(S, t) \in Nat /\ Rank(S, u) \in Nat
  BY <1>1, <1>2
<1> HIDE DEF u
<1>4. t \in Nat /\ u \in Nat
  BY <1>2
<1>5. ASSUME t < u PROVE FALSE
  <2>1. Rank(S, t) < Rank(S, u)
    BY <1>2, <1>5, RankGrows
  <2> QED
    BY <1>2, <1>3, <2>1
<1>6. ASSUME u < t PROVE FALSE
  <2>1. Rank(S, u) < Rank(S, t)
    BY <1>2, <1>6, RankGrows
  <2> QED
    BY <1>2, <1>3, <2>1
<1>7. t = u
  BY <1>4, <1>5, <1>6
<1> QED
  BY <1>7 DEF u

LEMMA PayloadRow ==
    ASSUME NEW e \in ChainRow
    PROVE  /\ Payload(e) \in ChainRow
           /\ Payload(e).tx = e.tx /\ Payload(e).kind = e.kind
           /\ Payload(e).market = e.market
<1> DEFINE p == [e EXCEPT !.bettor = None, !.side = None, !.amount = 0]
<1>1. p \in ChainRow /\ p.tx = e.tx /\ p.kind = e.kind /\ p.market = e.market
  BY DEF ChainRow
<1>2. Payload(e) = p \/ Payload(e) = e
  BY DEF Payload
<1> HIDE DEF p
<1> QED
  BY <1>1, <1>2, Zenon

LEMMA FoundRows ==
    ASSUME ChainOK, NEW s
    PROVE  /\ Len(chain) \in Nat /\ DOMAIN chain = 1..Len(chain)
           /\ Found(s) \in SUBSET (1..Len(chain))
BY DEF ChainOK, Found

LEMMA AnswerSound ==
    ASSUME ChainOK, NEW s
    PROVE  /\ AnswerFrom(s) \in Seq(ChainRow)
           /\ DOMAIN AnswerFrom(s) = 1..AtMost(Limit, Cardinality(Found(s)))
           /\ IsAnswer(AnswerFrom(s))
<1> DEFINE k == AtMost(Limit, Cardinality(Found(s)))
           q == [i \in 1..k |-> Payload(chain[Nth(Found(s), i)])]
<1>1. /\ Len(chain) \in Nat /\ DOMAIN chain = 1..Len(chain)
      /\ Found(s) \in SUBSET (1..Len(chain))
  BY FoundRows
<1>2. Cardinality(Found(s)) \in Nat
  BY <1>1, RankType
<1>3. k \in Nat /\ k <= Cardinality(Found(s))
  BY <1>2, IndexerAssumption DEF AtMost
<1>4. ASSUME NEW i \in 1..k
      PROVE  /\ q[i] \in ChainRow
             /\ q[i].tx \in DOMAIN chain /\ q[i] = Payload(chain[q[i].tx])
  <2> DEFINE t == Nth(Found(s), i)
  <2>1. i \in 1..Cardinality(Found(s))
    BY <1>2, <1>3
  <2>2. t \in Found(s)
    BY <1>1, <2>1, NthFound
  <2>3. t \in DOMAIN chain
    BY <1>1, <2>2
  <2>4. q[i] = Payload(chain[t])
    OBVIOUS
  <2> HIDE DEF t, q
  <2>5. chain[t] \in ChainRow /\ chain[t].tx = t
    BY <2>3 DEF ChainOK
  <2> QED
    BY <2>3, <2>4, <2>5, PayloadRow
<1>5. q = AnswerFrom(s)
  BY DEF AnswerFrom
<1>6. DOMAIN q = 1..k
  OBVIOUS
<1> HIDE DEF q, k
<1>7. q \in Seq(ChainRow)
  <2>1. \A i \in 1..k : q[i] \in ChainRow
    BY <1>4
  <2>2. q = [i \in 1..k |-> q[i]]
    BY <1>6 DEF q
  <2>3. q \in [1..k -> ChainRow]
    BY <2>1, <2>2
  <2> QED
    BY <1>3, <2>3
<1> QED
  BY <1>4, <1>5, <1>6, <1>7 DEF IsAnswer, k

(* A ledger whose events fit into one answer has them all in it: later      *)
(* ledgers' events only come after them.                                    *)
LEMMA AnswerComplete ==
    ASSUME ChainOK, NEW t \in DOMAIN chain, Asked(t),
           chain[t].ledger <= latest, ~Crowded(chain[t].ledger)
    PROVE  \E i \in DOMAIN AnswerFrom(chain[t].ledger) :
               AnswerFrom(chain[t].ledger)[i].tx = t
<1> DEFINE s == chain[t].ledger
           r == Rank(Found(s), t)
           Low == {u \in Found(s) : u <= t}
           Same == {u \in DOMAIN chain : chain[u].ledger = s}
<1>1. /\ Len(chain) \in Nat /\ DOMAIN chain = 1..Len(chain)
      /\ Found(s) \in SUBSET (1..Len(chain))
  BY FoundRows
<1>a. latest \in Nat /\ \A u \in DOMAIN chain : chain[u] \in ChainRow
  BY DEF ChainOK
<1>b. \A u \in DOMAIN chain : chain[u].ledger \in Nat
  BY <1>a DEF ChainRow
<1>2. s \in Nat /\ latest \in Nat /\ \A u \in DOMAIN chain : chain[u].ledger \in Nat
  BY <1>a, <1>b
<1>3. t \in Found(s)
  BY <1>2 DEF Found, Asked
<1>4. r \in 1..Cardinality(Found(s)) /\ IsFiniteSet(Low)
  BY <1>1, <1>3, RankType
<1>5. Low \in SUBSET Same
  <2>1. SUFFICES ASSUME NEW u \in Found(s), u <= t PROVE u \in Same
    OBVIOUS
  <2>2. u \in DOMAIN chain /\ s <= chain[u].ledger
    BY <1>2 DEF Found
  <2>3. chain[u].ledger <= s
    BY <2>1, <2>2 DEF ChainOK
  <2> QED
    BY <1>2, <2>2, <2>3
<1>6. IsFiniteSet(Same) /\ Cardinality(Same) \in Nat
  <2>1. Same \in SUBSET (1..Len(chain))
    BY <1>1
  <2> HIDE DEF Same
  <2> QED
    BY <1>1, <2>1, RankType
<1>7. r <= Limit
  <2>1. r <= Cardinality(Same)
    BY <1>5, <1>6, FS_Subset DEF Rank
  <2>2. Cardinality(Same) <= Limit
    BY <1>6, IndexerAssumption DEF Crowded
  <2> QED
    BY <1>4, <1>6, <2>1, <2>2, IndexerAssumption
<1>8. r \in DOMAIN AnswerFrom(s)
  <2>1. Cardinality(Found(s)) \in Nat
    BY <1>1, RankType
  <2>2. r \in 1..AtMost(Limit, Cardinality(Found(s)))
    BY <1>4, <1>7, <2>1, IndexerAssumption DEF AtMost
  <2> QED
    BY <2>2, AnswerSound
<1>9. AnswerFrom(s)[r] = Payload(chain[t])
  <2>1. Nth(Found(s), r) = t
    BY <1>1, <1>3, NthOfRank
  <2> QED
    BY <1>8, <2>1 DEF AnswerFrom
<1>10. chain[t] \in ChainRow /\ chain[t].tx = t
  BY DEF ChainOK
<1> HIDE DEF r
<1> QED
  BY <1>8, <1>9, <1>10, PayloadRow

-----------------------------------------------------------------------------
(* The steps, and what they do to the rows *)

LEMMA Steps ==
    ASSUME [Next]_vars
    PROVE  \/ \E e \in Events : Emit(e)
           \/ CloseLedger
           \/ Boot \/ LoadCheckpoint \/ BackfillFromLedger \/ Poll
           \/ \E first \in 1..latest : \E final \in 1..latest :
                 StartBackfill(first, final)
           \/ \E t \in DOMAIN chain : Stream(t)
           \/ \E w \in Workers : Fetch(w) \/ Record(w) \/ Handle(w) \/ Save(w)
           \/ \E w \in Workers : LedgerFails(w) \/ EventFails(w) \/ Crash(w)
           \/ UNCHANGED vars
BY Zenon DEF Next, PollerRuns, Works, Workers

LEMMA HeadRow ==
    ASSUME ChainOK, WorkersOK, NEW w \in Workers, queue[w] # <<>>
    PROVE  /\ queue[w] \in Seq(ChainRow)
           /\ Head(queue[w]) \in ChainRow
           /\ Head(queue[w]).tx \in DOMAIN chain /\ Head(queue[w]).tx \in Txs
           /\ Head(queue[w]) = Payload(chain[Head(queue[w]).tx])
<1>1. queue[w] \in Seq(ChainRow) /\ IsAnswer(queue[w])
  BY DEF WorkersOK
<1>2. 1 \in DOMAIN queue[w] /\ Head(queue[w]) = queue[w][1]
  BY <1>1
<1>3. Head(queue[w]) \in ChainRow
  BY <1>1, <1>2
<1>4. DOMAIN chain \subseteq Txs
  BY IndexerAssumption DEF ChainOK, Txs
<1> QED
  BY <1>1, <1>2, <1>3, <1>4 DEF IsAnswer

LEMMA ChainTx ==
    ASSUME ChainOK, NEW t \in DOMAIN chain
    PROVE  chain[t] \in ChainRow /\ chain[t].tx = t /\ t \in Txs
BY IndexerAssumption DEF ChainOK, Txs

(* Rows change only by the processing of an event. *)
LEMMA RowMoves ==
    ASSUME RowsInv, [Next]_vars
    PROVE  \/ UNCHANGED rows
           \/ \E e \in ChainRow : e.tx \in Txs /\ ProcessEvent(e)
<1> USE DEF RowsInv
<1>1. ASSUME NEW w \in Workers, pc[w] = "handle"
      PROVE  Head(queue[w]) \in ChainRow /\ Head(queue[w]).tx \in Txs
  <2>1. queue[w] # <<>>
    BY <1>1 DEF WorkersOK
  <2> QED
    BY <2>1, HeadRow
<1>2. ASSUME NEW t \in DOMAIN chain, Stream(t)
      PROVE  \E e \in ChainRow : e.tx \in Txs /\ ProcessEvent(e)
  BY <1>2, ChainTx DEF Stream
<1>3. ASSUME NEW w \in Workers, Fetch(w) \/ Record(w) \/ Handle(w) \/ Save(w)
      PROVE  \/ UNCHANGED rows
             \/ \E e \in ChainRow : e.tx \in Txs /\ ProcessEvent(e)
  <2>1. CASE Handle(w)
    BY <1>1, <2>1 DEF Handle
  <2> QED
    BY <1>3, <2>1, Zenon DEF Fetch, Record, Save
<1>4. ASSUME NEW w \in Workers, LedgerFails(w) \/ EventFails(w) \/ Crash(w)
      PROVE  \/ UNCHANGED rows
             \/ \E e \in ChainRow : e.tx \in Txs /\ ProcessEvent(e)
  <2>1. CASE EventFails(w)
    BY <1>1, <2>1 DEF EventFails
  <2> QED
    BY <1>4, <2>1, Zenon DEF LedgerFails, Crash
<1>5. ASSUME UNCHANGED vars
      PROVE  UNCHANGED rows
  BY <1>5 DEF vars
<1>6. ASSUME NEW first, NEW final, StartBackfill(first, final)
      PROVE  UNCHANGED rows
  BY <1>6 DEF StartBackfill
<1>7. ASSUME CloseLedger \/ Boot \/ LoadCheckpoint \/ BackfillFromLedger \/ Poll
      PROVE  UNCHANGED rows
  BY <1>7, Zenon DEF CloseLedger, Boot, LoadCheckpoint, BackfillFromLedger, Poll
<1>8. ASSUME NEW e, Emit(e)
      PROVE  UNCHANGED rows
  BY <1>8 DEF Emit
<1> QED
  BY <1>2, <1>3, <1>4, <1>5, <1>6, <1>7, <1>8, Steps, Zenon

(* The five things an event can do to the rows. *)
Opens(m) ==
    /\ m \in Markets /\ ~HasRow(m)
    /\ markets' = [markets EXCEPT ![m] = NewMarket] /\ bets' = bets
Moves(m, st) ==
    /\ m \in Markets /\ HasRow(m) /\ st \in {"locked", "resolved", "cancelled"}
    /\ markets' = [markets EXCEPT ![m].status = st] /\ bets' = bets
Stakes(e) ==
    /\ e \in ChainRow /\ e.tx \in Txs
    /\ e.side \in Sides /\ HasRow(e.market)
    /\ HandleBetPlaced(e)
Claims(e) == e \in ChainRow /\ HandleClaimed(e)

LEMMA Effects ==
    ASSUME TablesOK, NEW e \in ChainRow, e.tx \in Txs, ProcessEvent(e)
    PROVE  \/ UNCHANGED rows
           \/ Opens(e.market)
           \/ \E st \in {"locked", "resolved", "cancelled"} : Moves(e.market, st)
           \/ e.kind = "bet_placed" /\ Stakes(e)
           \/ Claims(e)
<1>1. e.market \in Markets /\ e.side \in Sides \cup {None}
  BY DEF ChainRow
<1>2. CASE HandlerFails(e)
  BY <1>2 DEF ProcessEvent
<1>3. CASE e.kind = "market_created" /\ markets' = Inserted(e.market) /\ UNCHANGED bets
  BY <1>1, <1>3 DEF Inserted, Opens, rows
<1>4. CASE e.kind = "bet_placed" /\ ~HandlerFails(e) /\ HandleBetPlaced(e)
  BY <1>1, <1>4 DEF HandlerFails, Stakes
<1>5. ASSUME NEW st \in {"locked", "resolved", "cancelled"}, SetStatus(e.market, st)
      PROVE  UNCHANGED rows \/ Moves(e.market, st)
  BY <1>1, <1>5 DEF SetStatus, Moves, rows
<1>6. CASE HandleClaimed(e)
  BY <1>6 DEF Claims
<1> QED
  BY <1>2, <1>3, <1>4, <1>5, <1>6 DEF ProcessEvent

LEMMA RowNames ==
    /\ None \notin Markets /\ None \notin Sides /\ None \notin Bettors
    /\ NoBet \in BetRow /\ NoBet.market = None /\ NoBet.amount = 0
    /\ NewMarket \in MarketRow /\ NewMarket.status # None
    /\ NewMarket.pool = [s \in Sides |-> 0] /\ NewMarket.total = 0
    /\ NoMarket \in MarketRow
    /\ NoMarket.pool = [s \in Sides |-> 0] /\ NoMarket.total = 0
<1>1. None \notin Markets /\ None \notin Sides /\ None \notin Bettors
  BY IndexerAssumption
<1>2. NoBet \in BetRow /\ NoBet.market = None /\ NoBet.amount = 0
  BY DEF NoBet, BetRow
<1>3. [s \in Sides |-> 0] \in [Sides -> Nat]
  OBVIOUS
<1>4. NoMarket \in MarketRow /\ NoMarket.pool = [s \in Sides |-> 0] /\ NoMarket.total = 0
  BY <1>3 DEF NoMarket, MarketRow
<1>5. /\ NewMarket \in MarketRow /\ NewMarket.status # None
      /\ NewMarket.pool = [s \in Sides |-> 0] /\ NewMarket.total = 0
  BY <1>4 DEF NewMarket, MarketRow, None
<1> QED
  BY <1>1, <1>2, <1>4, <1>5

(* What a bet does to its market's row, field by field. *)
LEMMA StakedMarket ==
    ASSUME TablesOK, NEW e, Stakes(e)
    PROVE  /\ markets' \in [Markets -> MarketRow]
           /\ e.market \in Markets /\ e.amount \in Nat
           /\ \A m \in Markets : markets'[m].status = markets[m].status
           /\ \A m \in Markets \ {e.market} : markets'[m] = markets[m]
           /\ markets'[e.market].pool =
                [markets[e.market].pool EXCEPT ![e.side] = @ + e.amount]
           /\ markets'[e.market].total = markets[e.market].total + e.amount
<1> DEFINE m == e.market
           R == [status |-> markets[m].status,
                 pool |-> [markets[m].pool EXCEPT ![e.side] = @ + e.amount],
                 total |-> markets[m].total + e.amount]
<1>1. e.market \in Markets /\ e.amount \in Nat /\ e.side \in Sides
  BY DEF Stakes, ChainRow
<1>2. markets[m] \in MarketRow
  BY <1>1 DEF TablesOK
<1>3. /\ markets[m].pool \in [Sides -> Nat] /\ markets[m].total \in Nat
      /\ markets[m].status \in {None, "open", "locked", "resolved", "cancelled"}
  BY <1>2 DEF MarketRow
<1>4. [markets[m].pool EXCEPT ![e.side] = @ + e.amount] \in [Sides -> Nat]
  BY <1>1, <1>3
<1>5. markets[m].total + e.amount \in Nat
  BY <1>1, <1>3
<1>6. R \in MarketRow
  BY <1>3, <1>4, <1>5 DEF MarketRow
<1>7. markets' = [markets EXCEPT ![m] = R]
  <2>1. markets \in [Markets -> MarketRow]
    BY DEF TablesOK
  <2>2. markets' = [markets EXCEPT ![m].pool[e.side] = @ + e.amount,
                                   ![m].total = @ + e.amount]
    BY DEF Stakes, HandleBetPlaced
  <2> DEFINE P == [markets[m] EXCEPT !.pool = [markets[m].pool EXCEPT ![e.side] = @ + e.amount]]
             M == [markets EXCEPT ![m] = P]
  <2>3. P = [status |-> markets[m].status,
             pool |-> [markets[m].pool EXCEPT ![e.side] = @ + e.amount],
             total |-> markets[m].total]
    BY <1>2 DEF MarketRow
  <2>4. P \in MarketRow /\ P.total = markets[m].total
    BY <1>3, <1>4, <2>3 DEF MarketRow
  <2>5. M = [markets EXCEPT ![m].pool[e.side] = @ + e.amount]
    BY <1>1, <2>1
  <2>6. markets' = [[markets EXCEPT ![m].pool[e.side] = @ + e.amount]
                      EXCEPT ![m].total = @ + e.amount]
    BY <2>2
  <2> HIDE DEF P
  <2>7. [P EXCEPT !.total = P.total + e.amount] = R
    <3> DEFINE pool == [markets[m].pool EXCEPT ![e.side] = @ + e.amount]
    <3>1. P = [status |-> markets[m].status, pool |-> pool,
               total |-> markets[m].total]
      BY <2>3
    <3>2. R = [status |-> markets[m].status, pool |-> pool,
               total |-> markets[m].total + e.amount]
      OBVIOUS
    <3> HIDE DEF pool, R
    <3> QED
      BY <3>1, <3>2
  <2>8. M[m] = P /\ M \in [Markets -> MarketRow]
    BY <1>1, <2>1, <2>4
  <2>9. markets' = [M EXCEPT ![m] = [M[m] EXCEPT !.total = M[m].total + e.amount]]
    BY <1>1, <2>5, <2>6, <2>8
  <2>10. markets' = [M EXCEPT ![m] = R]
    BY <2>7, <2>8, <2>9
  <2> HIDE DEF R
  <2> QED
    BY <1>1, <1>6, <2>1, <2>4, <2>8, <2>10
<1> HIDE DEF R
<1>8. markets' \in [Markets -> MarketRow] /\ markets'[m] = R
      /\ \A x \in Markets \ {m} : markets'[x] = markets[x]
  BY <1>1, <1>6, <1>7 DEF TablesOK
<1>9. /\ R.status = markets[m].status
      /\ R.pool = [markets[m].pool EXCEPT ![e.side] = @ + e.amount]
      /\ R.total = markets[m].total + e.amount
  BY DEF R
<1> QED
  BY <1>1, <1>8, <1>9

(* A bet is written once, where there was none. *)
LEMMA StakedBet ==
    ASSUME TablesOK, NEW e, Stakes(e)
    PROVE  /\ NewBet(e) \in BetRow
           /\ NewBet(e).market = e.market /\ NewBet(e).side = e.side
           /\ NewBet(e).amount = e.amount /\ NewBet(e) # NoBet
           /\ bets' \in [Txs -> BetRow]
           /\ \A t \in Txs \ {e.tx} : bets'[t] = bets[t]
           /\ bets'[e.tx] = IF bets[e.tx] = NoBet THEN NewBet(e) ELSE bets[e.tx]
<1>1. /\ e.market \in Markets /\ e.amount \in Nat /\ e.side \in Sides
      /\ e.bettor \in Bettors \cup {None} /\ e.tx \in Txs
  BY DEF Stakes, ChainRow
<1>2. /\ NewBet(e) \in BetRow
      /\ NewBet(e).market = e.market /\ NewBet(e).side = e.side
      /\ NewBet(e).amount = e.amount
  BY <1>1 DEF NewBet, BetRow
<1>3. NewBet(e) # NoBet
  BY <1>1, <1>2, RowNames
<1>4. bets' = IF bets[e.tx] = NoBet THEN [bets EXCEPT ![e.tx] = NewBet(e)] ELSE bets
  BY DEF Stakes, HandleBetPlaced, BetStored
<1>5. bets \in [Txs -> BetRow]
  BY DEF TablesOK
<1> QED
  BY <1>1, <1>2, <1>3, <1>4, <1>5

LEMMA ClaimedBets ==
    ASSUME TablesOK, NEW e, Claims(e)
    PROVE  /\ bets' \in [Txs -> BetRow] /\ markets' = markets
           /\ \A t \in Txs : /\ bets'[t].market = bets[t].market
                             /\ bets'[t].side = bets[t].side
                             /\ bets'[t].amount = bets[t].amount
                             /\ bets'[t] # NoBet => bets[t] # NoBet
                             /\ bets[t] # NoBet => bets'[t] # NoBet
                             /\ bets'[t] \in {bets[t], [bets[t] EXCEPT !.claimed = TRUE]}
<1> DEFINE Paid(t) == [bets[t] EXCEPT !.claimed = TRUE]
           After(t) == IF bets[t].market = e.market /\ bets[t].bettor = e.bettor
                       THEN Paid(t) ELSE bets[t]
<1>1. e.market \in Markets
  BY DEF Claims, ChainRow
<1>2. bets' = [t \in Txs |-> After(t)] /\ markets' = markets
  BY DEF Claims, HandleClaimed
<1>3. ASSUME NEW t \in Txs
      PROVE  /\ Paid(t) \in BetRow /\ Paid(t).market = bets[t].market
             /\ Paid(t).side = bets[t].side /\ Paid(t).amount = bets[t].amount
             /\ bets[t] \in BetRow
  BY DEF TablesOK, BetRow
<1>4. ASSUME NEW t \in Txs, bets[t].market = e.market
      PROVE  bets[t] # NoBet /\ Paid(t) # NoBet
  BY <1>1, <1>3, <1>4, RowNames
<1>5. \A t \in Txs : bets'[t] = After(t)
  BY <1>2
<1>6. \A t \in Txs : After(t) \in BetRow
  BY <1>3
<1>7. bets' \in [Txs -> BetRow]
  BY <1>2, <1>6
<1> HIDE DEF Paid
<1> QED
  <2>1. ASSUME NEW t \in Txs
        PROVE  /\ bets'[t].market = bets[t].market
               /\ bets'[t].side = bets[t].side
               /\ bets'[t].amount = bets[t].amount
               /\ bets'[t] # NoBet => bets[t] # NoBet
               /\ bets[t] # NoBet => bets'[t] # NoBet
               /\ bets'[t] \in {bets[t], Paid(t)}
    <3>1. CASE bets[t].market = e.market /\ bets[t].bettor = e.bettor
      <4>1. bets'[t] = Paid(t)
        BY <1>5, <3>1
      <4> QED
        BY <1>3, <1>4, <3>1, <4>1
    <3>2. CASE ~(bets[t].market = e.market /\ bets[t].bettor = e.bettor)
      <4>1. bets'[t] = bets[t]
        BY <1>5, <3>2
      <4> QED
        BY <4>1
    <3> QED
      BY <3>1, <3>2
  <2> QED
    BY <1>2, <1>7, <2>1 DEF Paid

LEMMA TablesKept ==
    ASSUME TablesOK, NEW e \in ChainRow, e.tx \in Txs, ProcessEvent(e)
    PROVE  TablesOK'
<1>1. CASE UNCHANGED rows
  BY <1>1 DEF rows, TablesOK, HasRow
<1>2. CASE Opens(e.market)
  BY <1>2, RowNames DEF Opens, TablesOK, HasRow
<1>3. ASSUME NEW st \in {"locked", "resolved", "cancelled"}, Moves(e.market, st)
      PROVE  TablesOK'
  <2> DEFINE m == e.market
             R == [markets[m] EXCEPT !.status = st]
  <2>1. m \in Markets /\ markets[m] \in MarketRow
    BY <1>3 DEF Moves, TablesOK
  <2>2. R \in MarketRow /\ R.status # None
    BY <2>1 DEF MarketRow, None
  <2>3. markets' = [markets EXCEPT ![m] = R] /\ bets' = bets
    BY <1>3 DEF Moves
  <2> HIDE DEF R
  <2> QED
    BY <2>1, <2>2, <2>3 DEF TablesOK, HasRow
<1>4. CASE Stakes(e)
  <2>1. \A t \in Txs : bets'[t] # NoBet => /\ bets'[t].market \in Markets
                                           /\ HasRow(bets'[t].market)
    <3>1. \A m \in Markets : HasRow(m) => HasRow(m)'
      BY <1>4, StakedMarket DEF HasRow
    <3>2. e.market \in Markets /\ HasRow(e.market) /\ e.tx \in Txs
      BY <1>4, StakedMarket DEF Stakes
    <3>3. TAKE t \in Txs
    <3>4. CASE bets'[t] = bets[t]
      BY <3>1, <3>4 DEF TablesOK, HasRow
    <3>5. CASE t = e.tx /\ bets'[t] = NewBet(e)
      BY <1>4, <3>1, <3>2, <3>5, StakedBet DEF HasRow
    <3> QED
      BY <1>4, <3>4, <3>5, StakedBet
  <2>2. \A m \in Markets : HasRow(m) => HasRow(m)'
    BY <1>4, StakedMarket DEF HasRow
  <2> QED
    BY <1>4, <2>1, <2>2, StakedBet, StakedMarket DEF TablesOK, HasRow
<1>5. CASE Claims(e)
  BY <1>5, ClaimedBets DEF TablesOK, HasRow
<1> QED
  BY <1>1, <1>2, <1>3, <1>4, <1>5, Effects

-----------------------------------------------------------------------------
(* The pools *)

LEMMA StakeRows ==
    ASSUME bets \in [Txs -> BetRow], NEW m, NEW s
    PROVE  /\ IsFiniteSet(Txs)
           /\ \A t \in Txs : /\ StakeOn(m, s)[t] \in Nat
                             /\ bets[t] = NoBet => StakeOn(m, s)[t] = 0
           /\ SumFunctionOnSet(StakeOn(m, s), Txs) \in Int
<1>1. IsFiniteSet(Txs)
  BY IndexerAssumption, FS_Interval DEF Txs
<1>2. \A t \in Txs : /\ StakeOn(m, s)[t] \in Nat
                     /\ bets[t] = NoBet => StakeOn(m, s)[t] = 0
  BY RowNames DEF StakeOn, BetRow
<1> QED
  BY <1>1, <1>2, SumInt

LEMMA PoolSum ==
    ASSUME markets \in [Markets -> MarketRow], NEW m \in Markets
    PROVE  /\ SumFunction(markets[m].pool) = SumFunctionOnSet(markets[m].pool, Sides)
           /\ markets[m].pool \in [Sides -> Nat] /\ markets[m].total \in Nat
           /\ IsFiniteSet(Sides)
<1>1. markets[m].pool \in [Sides -> Nat] /\ markets[m].total \in Nat
  BY DEF MarketRow
<1>2. DOMAIN markets[m].pool = Sides
  BY <1>1
<1> QED
  BY <1>1, <1>2, IndexerAssumption, Zenon DEF SumFunction

(* Bets that keep their market, side and amount keep the pools' sums, and   *)
(* the pools are those of the same or of a larger row.                      *)
LEMMA SameStakes ==
    ASSUME bets \in [Txs -> BetRow],
           \A t \in Txs : /\ bets'[t].market = bets[t].market
                          /\ bets'[t].side = bets[t].side
                          /\ bets'[t].amount = bets[t].amount,
           NEW m, NEW s
    PROVE  SumFunctionOnSet(StakeOn(m, s), Txs)'
             = SumFunctionOnSet(StakeOn(m, s), Txs)
<1>1. StakeOn(m, s)' = StakeOn(m, s)
  BY DEF StakeOn
<1> QED
  BY <1>1, Zenon DEF Txs

LEMMA StakedPools ==
    ASSUME TablesOK, PoolsCoverBets, NEW e, Stakes(e),
           NEW m \in Markets, NEW s \in Sides
    PROVE  (SumFunctionOnSet(StakeOn(m, s), Txs) <= markets[m].pool[s])'
<1> DEFINE f == StakeOn(m, s)
           g == StakeOn(m, s)'
           gain == IF e.market = m /\ e.side = s THEN e.amount ELSE 0
<1>1. e.tx \in Txs /\ e.side \in Sides
  BY DEF Stakes
<1>2. bets \in [Txs -> BetRow] /\ bets' \in [Txs -> BetRow]
  BY StakedBet DEF TablesOK
<1>3. e.amount \in Nat /\ e.market \in Markets /\ gain \in Nat
  BY StakedMarket
<1>4. /\ IsFiniteSet(Txs)
      /\ \A t \in Txs : f[t] \in Nat /\ (bets[t] = NoBet => f[t] = 0)
      /\ SumFunctionOnSet(f, Txs) \in Int
  BY <1>2, StakeRows
<1>5. \A t \in Txs : g[t] \in Nat
  BY <1>2 DEF StakeOn, BetRow, Txs
<1>6. \A t \in Txs \ {e.tx} : f[t] = g[t]
  BY StakedBet DEF StakeOn, Txs
<1>7. g[e.tx] <= f[e.tx] + gain
  <2>1. CASE bets[e.tx] = NoBet
    <3>1. bets'[e.tx] = NewBet(e)
      BY <2>1, StakedBet
    <3>2. g[e.tx] = gain
      BY <1>1, <3>1, StakedBet DEF StakeOn, Txs
    <3> HIDE DEF f, g, gain
    <3> QED
      BY <1>1, <1>3, <1>4, <2>1, <3>2
  <2>2. CASE bets[e.tx] # NoBet
    <3>1. bets'[e.tx] = bets[e.tx]
      BY <2>2, StakedBet
    <3>2. g[e.tx] = f[e.tx]
      BY <1>1, <3>1 DEF StakeOn, Txs
    <3> HIDE DEF f, g, gain
    <3> QED
      BY <1>1, <1>3, <1>4, <3>2
  <2> QED
    BY <2>1, <2>2
<1>8. markets'[m].pool[s] = markets[m].pool[s] + gain
  <2>0. markets[m].pool \in [Sides -> Nat]
    BY PoolSum DEF TablesOK
  <2>1. CASE m = e.market
    <3>1. markets'[m].pool = [markets[m].pool EXCEPT ![e.side] = @ + e.amount]
      BY <2>1, StakedMarket
    <3> QED
      BY <1>1, <1>3, <2>0, <2>1, <3>1
  <2>2. CASE m # e.market
    <3>1. markets'[m] = markets[m]
      BY <2>2, StakedMarket
    <3> QED
      BY <2>0, <2>2, <3>1
  <2> QED
    BY <2>1, <2>2
<1>9. SumFunctionOnSet(f, Txs) <= markets[m].pool[s] /\ markets[m].pool[s] \in Nat
  BY PoolSum DEF PoolsCoverBets, TablesOK
<1>10. SumFunctionOnSet(StakeOn(m, s), Txs)' = SumFunctionOnSet(g, Txs)
  BY Zenon DEF Txs
<1> HIDE DEF f, g, gain
<1>11. SumFunctionOnSet(g, Txs) = SumFunctionOnSet(f, Txs) - f[e.tx] + g[e.tx]
  <2>1. \A t \in Txs : f[t] \in Int /\ g[t] \in Int
    BY <1>4, <1>5
  <2>2. IsFiniteSet(Txs) /\ e.tx \in Txs
    BY <1>1, <1>4
  <2> DEFINE x == e.tx
  <2>3. x \in Txs /\ \A t \in Txs \ {x} : f[t] = g[t]
    BY <1>6, <2>2
  <2> HIDE DEF x
  <2>4. SumFunctionOnSet(g, Txs) = SumFunctionOnSet(f, Txs) - f[x] + g[x]
    BY <2>1, <2>2, <2>3, SumUpdate
  <2> QED
    BY <2>4 DEF x
<1>12. SumFunctionOnSet(g, Txs) <= markets'[m].pool[s]
  BY <1>1, <1>3, <1>4, <1>5, <1>7, <1>8, <1>9, <1>11
<1> QED
  BY <1>10, <1>12

LEMMA StakedTotal ==
    ASSUME TablesOK, PoolsCoverBets, NEW e, Stakes(e), NEW m \in Markets
    PROVE  (markets[m].total = SumFunction(markets[m].pool))'
<1> DEFINE f == markets[m].pool
           g == markets'[m].pool
<1>1. /\ markets \in [Markets -> MarketRow] /\ markets' \in [Markets -> MarketRow]
      /\ e.market \in Markets /\ e.amount \in Nat /\ e.side \in Sides
  BY StakedMarket DEF TablesOK, Stakes
<1>2. /\ f \in [Sides -> Nat] /\ markets[m].total = SumFunctionOnSet(f, Sides)
      /\ IsFiniteSet(Sides) /\ markets[m].total \in Nat
  BY <1>1, PoolSum DEF PoolsCoverBets
<1>3. g \in [Sides -> Nat]
  BY <1>1 DEF MarketRow
<1>4. SumFunction(markets[m].pool)' = SumFunctionOnSet(g, Sides)
  <2>1. DOMAIN g = Sides
    BY <1>3
  <2> QED
    BY <2>1, Zenon DEF SumFunction
<1>5. markets'[m].total = SumFunctionOnSet(g, Sides)
  <2>1. CASE m = e.market
    <3>1. g = [f EXCEPT ![e.side] = @ + e.amount]
          /\ markets'[m].total = markets[m].total + e.amount
      BY <2>1, StakedMarket
    <3> HIDE DEF f, g
    <3>2. /\ \A s \in Sides : f[s] \in Int /\ g[s] \in Int
          /\ \A s \in Sides \ {e.side} : f[s] = g[s]
          /\ g[e.side] = f[e.side] + e.amount
      BY <1>1, <1>2, <1>3, <3>1
    <3>3. SumFunctionOnSet(g, Sides)
            = SumFunctionOnSet(f, Sides) - f[e.side] + g[e.side]
      BY <1>1, <1>2, <3>2, SumUpdate
    <3>4. f[e.side] \in Int /\ SumFunctionOnSet(f, Sides) \in Int
      BY <1>1, <1>2, <3>2
    <3> QED
      BY <1>1, <1>2, <3>1, <3>2, <3>3, <3>4
  <2>2. CASE m # e.market
    <3>1. markets'[m] = markets[m]
      BY <2>2, StakedMarket
    <3> QED
      BY <1>2, <3>1
  <2> QED
    BY <2>1, <2>2
<1> QED
  BY <1>4, <1>5

LEMMA PoolsKept ==
    ASSUME TablesOK, PoolsCoverBets, NEW e \in ChainRow, e.tx \in Txs,
           ProcessEvent(e)
    PROVE  PoolsCoverBets'
<1> DEFINE Covered(m) ==
        /\ \A s \in Sides : SumFunctionOnSet(StakeOn(m, s), Txs)
                              <= markets[m].pool[s]
        /\ markets[m].total = SumFunction(markets[m].pool)
<1>1. SUFFICES ASSUME NEW m \in Markets PROVE Covered(m)'
  BY DEF PoolsCoverBets
<1>2. Covered(m)
  BY DEF PoolsCoverBets
<1>3. bets \in [Txs -> BetRow] /\ markets \in [Markets -> MarketRow]
  BY DEF TablesOK
<1>4. ASSUME \A t \in Txs : /\ bets'[t].market = bets[t].market
                            /\ bets'[t].side = bets[t].side
                            /\ bets'[t].amount = bets[t].amount,
             /\ markets'[m].pool = markets[m].pool
             /\ markets'[m].total = markets[m].total
      PROVE  Covered(m)'
  <2>1. \A s \in Sides : SumFunctionOnSet(StakeOn(m, s), Txs)'
                           = SumFunctionOnSet(StakeOn(m, s), Txs)
    BY <1>3, <1>4, SameStakes
  <2>2. SumFunction(markets[m].pool)' = SumFunction(markets[m].pool)
    BY <1>4, Zenon
  <2> QED
    BY <1>2, <1>4, <2>1, <2>2
<1>5. CASE UNCHANGED rows
  BY <1>4, <1>5 DEF rows
<1>6. CASE Opens(e.market)
  <2>1. CASE m = e.market
    <3>1. /\ markets'[m].pool = [s \in Sides |-> 0] /\ markets'[m].total = 0
          /\ bets' = bets
      BY <1>3, <1>6, <2>1, RowNames DEF Opens
    <3>2. ASSUME NEW s \in Sides
          PROVE  (SumFunctionOnSet(StakeOn(m, s), Txs) <= markets[m].pool[s])'
      <4>1. ASSUME NEW t \in Txs
            PROVE  StakeOn(m, s)[t] = 0
        <5>1. bets[t] # NoBet => bets[t].market # m
          BY <1>6, <2>1 DEF Opens, TablesOK
        <5>2. CASE bets[t] = NoBet
          BY <1>3, <5>2, StakeRows
        <5>3. CASE bets[t].market # m
          BY <5>3 DEF StakeOn
        <5> QED
          BY <5>1, <5>2, <5>3
      <4>2. SumFunctionOnSet(StakeOn(m, s), Txs) = 0
        BY <1>3, <4>1, StakeRows, SumZero
      <4>3. SumFunctionOnSet(StakeOn(m, s), Txs)' = 0
        BY <1>3, <3>1, <4>2, SameStakes
      <4> QED
        BY <3>1, <4>3
    <3>3. (markets[m].total = SumFunction(markets[m].pool))'
      <4> DEFINE g == [s \in Sides |-> 0]
      <4>1. DOMAIN g = Sides /\ \A s \in Sides : g[s] = 0
        OBVIOUS
      <4>2. SumFunction(markets[m].pool)' = SumFunction(g)
        BY <3>1, Zenon
      <4> HIDE DEF g
      <4>3. SumFunction(g) = SumFunctionOnSet(g, Sides)
        BY <4>1, Zenon DEF SumFunction
      <4>4. SumFunctionOnSet(g, Sides) = 0
        BY <4>1, IndexerAssumption, SumZero
      <4> QED
        BY <3>1, <4>2, <4>3, <4>4
    <3> QED
      BY <3>2, <3>3
  <2>2. CASE m # e.market
    BY <1>3, <1>4, <1>6, <2>2 DEF Opens
  <2> QED
    BY <2>1, <2>2
<1>7. ASSUME NEW st \in {"locked", "resolved", "cancelled"}, Moves(e.market, st)
      PROVE  Covered(m)'
  <2>1. markets'[m].pool = markets[m].pool /\ markets'[m].total = markets[m].total
    BY <1>3, <1>7 DEF Moves, MarketRow
  <2> QED
    BY <1>4, <1>7, <2>1 DEF Moves
<1>8. CASE Stakes(e)
  BY <1>8, StakedPools, StakedTotal
<1>9. CASE Claims(e)
  <2>1. markets' = markets
    BY <1>9, ClaimedBets
  <2> QED
    BY <1>4, <1>9, <2>1, ClaimedBets
<1> HIDE DEF Covered
<1> QED
  BY <1>5, <1>6, <1>7, <1>8, <1>9, Effects

-----------------------------------------------------------------------------
(* What only grows *)

LEMMA NetworkMoves ==
    ASSUME [Next]_vars
    PROVE  \/ UNCHANGED network
           \/ CloseLedger
           \/ \E e \in Events : Emit(e)
<1>1. ASSUME NEW w, Fetch(w) \/ Record(w) \/ Handle(w) \/ Save(w)
                      \/ LedgerFails(w) \/ EventFails(w) \/ Crash(w)
      PROVE  UNCHANGED network
  BY <1>1, Zenon DEF Fetch, Record, Handle, Save, LedgerFails, EventFails, Crash
<1>2. ASSUME Boot \/ LoadCheckpoint \/ BackfillFromLedger \/ Poll
      PROVE  UNCHANGED network
  BY <1>2, Zenon DEF Boot, LoadCheckpoint, BackfillFromLedger, Poll
<1>3. ASSUME NEW first, NEW final, StartBackfill(first, final)
      PROVE  UNCHANGED network
  BY <1>3, Zenon DEF StartBackfill
<1>4. ASSUME NEW t, Stream(t)
      PROVE  UNCHANGED network
  BY <1>4, Zenon DEF Stream
<1>5. ASSUME UNCHANGED vars
      PROVE  UNCHANGED network
  BY <1>5 DEF vars
<1> QED
  BY <1>1, <1>2, <1>3, <1>4, <1>5, Steps, Zenon

LEMMA ChainGrows ==
    ASSUME ChainOK, [Next]_vars
    PROVE  /\ ChainOK' /\ latest <= latest'
           /\ \A t \in DOMAIN chain : t \in DOMAIN chain' /\ chain'[t] = chain[t]
           /\ \A t \in DOMAIN chain' :
                 t \in DOMAIN chain \/ chain'[t].ledger = latest + 1
<1>1. CASE UNCHANGED network
  BY <1>1 DEF network, ChainOK
<1>2. CASE CloseLedger
  BY <1>2 DEF CloseLedger, ChainOK
<1>3. ASSUME NEW e \in Events, Emit(e)
      PROVE  /\ ChainOK' /\ latest <= latest'
             /\ \A t \in DOMAIN chain : t \in DOMAIN chain' /\ chain'[t] = chain[t]
             /\ \A t \in DOMAIN chain' :
                   t \in DOMAIN chain \/ chain'[t].ledger = latest + 1
  <2> DEFINE r == [kind |-> e.kind, market |-> e.market, bettor |-> e.bettor,
                   side |-> e.side, amount |-> e.amount,
                   ledger |-> latest + 1, tx |-> Len(chain) + 1]
  <2>1. /\ chain' = Append(chain, r) /\ latest' = latest
        /\ Len(chain) < MaxEvents
    BY <1>3 DEF Emit
  <2>2. latest \in Nat /\ Len(chain) \in Nat /\ chain \in Seq(ChainRow)
    BY DEF ChainOK
  <2>3. /\ e.kind \in Kinds /\ e.market \in Markets
        /\ e.bettor \in Bettors \cup {None} /\ e.side \in Sides \cup {None}
        /\ e.amount \in Nat
    <3>1. CASE e \in [kind : Turns, market : Markets, bettor : {None},
                      side : {None}, amount : {0}]
      BY <3>1 DEF Kinds
    <3>2. CASE e \in [kind : {"bet_placed"}, market : Markets, bettor : Bettors,
                      side : Sides, amount : Amounts]
      BY <3>2, IndexerAssumption DEF Kinds
    <3>3. CASE e \in [kind : {"winnings_claimed", "refund_claimed"},
                      market : Markets, bettor : Bettors, side : {None},
                      amount : {0}]
      BY <3>3 DEF Kinds
    <3> QED
      BY <3>1, <3>2, <3>3, Zenon DEF Events
  <2>4. r \in ChainRow /\ r.ledger = latest + 1 /\ r.tx = Len(chain) + 1
    BY <2>2, <2>3 DEF ChainRow
  <2> HIDE DEF r
  <2>5. /\ chain' \in Seq(ChainRow) /\ Len(chain') = Len(chain) + 1
        /\ DOMAIN chain' = 1..Len(chain) + 1 /\ DOMAIN chain = 1..Len(chain)
        /\ \A t \in 1..Len(chain) : chain'[t] = chain[t]
        /\ chain'[Len(chain) + 1] = r
    BY <2>1, <2>2, <2>4
  <2>6. \A t \in DOMAIN chain' : chain'[t].tx = t /\ chain'[t].ledger \in 1..latest + 1
    BY <2>2, <2>4, <2>5 DEF ChainOK
  <2>7. \A t \in DOMAIN chain' : \A u \in DOMAIN chain' :
           t <= u => chain'[t].ledger <= chain'[u].ledger
    BY <2>2, <2>4, <2>5, <2>6 DEF ChainOK
  <2>8. Len(chain') <= MaxEvents
    BY <2>1, <2>2, <2>5, IndexerAssumption
  <2> QED
    BY <2>1, <2>2, <2>4, <2>5, <2>6, <2>7, <2>8 DEF ChainOK
<1> QED
  BY <1>1, <1>2, <1>3, NetworkMoves

(* A bet's row stays that bet's, and no bet on record is lost. *)
LEMMA BetsStay ==
    ASSUME RowsInv, [Next]_vars, NEW t \in Txs, bets[t] # NoBet
    PROVE  /\ bets'[t] # NoBet
           /\ bets'[t] \in {bets[t], [bets[t] EXCEPT !.claimed = TRUE]}
<1>1. TablesOK
  BY DEF RowsInv
<1>2. ASSUME NEW e \in ChainRow, e.tx \in Txs, ProcessEvent(e)
      PROVE  /\ bets'[t] # NoBet
             /\ bets'[t] \in {bets[t], [bets[t] EXCEPT !.claimed = TRUE]}
  <2>1. CASE bets' = bets
    BY <2>1
  <2>2. CASE Stakes(e)
    <3>1. bets'[t] = bets[t]
      BY <1>1, <2>2, StakedBet
    <3> QED
      BY <3>1
  <2>3. CASE Claims(e)
    BY <1>1, <2>3, ClaimedBets
  <2> QED
    BY <1>1, <1>2, <2>1, <2>2, <2>3, Effects DEF Opens, Moves, rows
<1> QED
  BY <1>2, RowMoves DEF rows

LEMMA RecordsMove ==
    ASSUME [Next]_vars
    PROVE  eventRows' = eventRows \/ \E w \in Workers : Record(w)
<1>1. ASSUME NEW w, Fetch(w) \/ Handle(w) \/ Save(w)
                      \/ LedgerFails(w) \/ EventFails(w) \/ Crash(w)
      PROVE  eventRows' = eventRows
  BY <1>1, Zenon DEF Fetch, Handle, Save, LedgerFails, EventFails, Crash
<1>2. ASSUME Boot \/ LoadCheckpoint \/ BackfillFromLedger \/ Poll \/ CloseLedger
      PROVE  eventRows' = eventRows
  BY <1>2, Zenon DEF Boot, LoadCheckpoint, BackfillFromLedger, Poll, CloseLedger
<1>3. ASSUME NEW first, NEW final, StartBackfill(first, final)
      PROVE  eventRows' = eventRows
  BY <1>3, Zenon DEF StartBackfill
<1>4. ASSUME NEW t, Stream(t) \/ Emit(t)
      PROVE  eventRows' = eventRows
  BY <1>4, Zenon DEF Stream, Emit
<1>5. ASSUME UNCHANGED vars
      PROVE  eventRows' = eventRows
  BY <1>5 DEF vars
<1> QED
  BY <1>1, <1>2, <1>3, <1>4, <1>5, Steps, Zenon

LEMMA RecordsStay ==
    ASSUME RowsInv, [Next]_vars
    PROVE  /\ eventRows' \in [Txs -> Kinds \cup {None}]
           /\ \A t \in DOMAIN chain :
                 eventRows[t] = chain[t].kind => eventRows'[t] = chain[t].kind
<1>1. eventRows \in [Txs -> Kinds \cup {None}]
  BY DEF RowsInv, WorkersOK
<1>2. CASE eventRows' = eventRows
  BY <1>1, <1>2
<1>3. ASSUME NEW w \in Workers, Record(w)
      PROVE  /\ eventRows' \in [Txs -> Kinds \cup {None}]
             /\ \A t \in DOMAIN chain :
                   eventRows[t] = chain[t].kind => eventRows'[t] = chain[t].kind
  <2> DEFINE e == Head(queue[w])
  <2>1. queue[w] # <<>>
    BY <1>3 DEF Record, RowsInv, WorkersOK
  <2>2. e \in ChainRow /\ e.tx \in DOMAIN chain /\ e.tx \in Txs
        /\ e = Payload(chain[e.tx])
    BY <2>1, HeadRow DEF RowsInv
  <2>3. eventRows' = [eventRows EXCEPT ![e.tx] = e.kind]
    BY <1>3 DEF Record
  <2> HIDE DEF e
  <2>4. e.kind = chain[e.tx].kind /\ e.kind \in Kinds
    <3>1. chain[e.tx] \in ChainRow
      BY <2>2, ChainTx DEF RowsInv
    <3>2. e.kind = chain[e.tx].kind
      BY <2>2, <3>1, PayloadRow
    <3> QED
      BY <3>1, <3>2 DEF ChainRow
  <2> QED
    BY <1>1, <2>2, <2>3, <2>4
<1> QED
  BY <1>2, <1>3, RecordsMove

LEMMA SwallowedGrows ==
    ASSUME [Next]_vars
    PROVE  swallowed \subseteq swallowed'
<1>1. ASSUME NEW w, Fetch(w) \/ Record(w) \/ Save(w) \/ Crash(w)
      PROVE  swallowed' = swallowed
  BY <1>1, Zenon DEF Fetch, Record, Save, Crash
<1>2. ASSUME NEW w, Handle(w) \/ LedgerFails(w) \/ EventFails(w)
      PROVE  swallowed \subseteq swallowed'
  BY <1>2 DEF Handle, LedgerFails, EventFails
<1>3. ASSUME Boot \/ LoadCheckpoint \/ BackfillFromLedger \/ Poll \/ CloseLedger
      PROVE  swallowed' = swallowed
  BY <1>3, Zenon DEF Boot, LoadCheckpoint, BackfillFromLedger, Poll, CloseLedger
<1>4. ASSUME NEW first, NEW final, StartBackfill(first, final)
      PROVE  swallowed' = swallowed
  BY <1>4, Zenon DEF StartBackfill
<1>5. ASSUME NEW t, Stream(t) \/ Emit(t)
      PROVE  swallowed' = swallowed
  BY <1>5, Zenon DEF Stream, Emit
<1>6. ASSUME UNCHANGED vars
      PROVE  swallowed' = swallowed
  BY <1>6 DEF vars
<1> QED
  BY <1>1, <1>2, <1>3, <1>4, <1>5, <1>6, Steps

(* What is settled stays settled. *)
LEMMA PassedStays ==
    ASSUME RowsInv, [Next]_vars, NEW t \in DOMAIN chain, Passed(t)
    PROVE  Passed(t)'
<1> DEFINE l == chain[t].ledger
           Now == {u \in DOMAIN chain : chain[u].ledger = l}
           Next_ == {u \in DOMAIN chain' : chain'[u].ledger = l}
<1>1. ChainOK /\ ChainOK' /\ t \in DOMAIN chain' /\ chain'[t] = chain[t] /\ t \in Txs
  BY ChainGrows, ChainTx DEF RowsInv
<1>2. CASE Indexed(t)
  <2>1. chain'[t].kind = "bet_placed" => bets'[t] # NoBet
    BY <1>1, <1>2, BetsStay DEF Indexed
  <2>2. eventRows'[t] = chain'[t].kind
    BY <1>1, <1>2, RecordsStay DEF Indexed
  <2> QED
    BY <2>1, <2>2 DEF Passed, Settled, Indexed
<1>3. CASE l \in swallowed
  BY <1>1, <1>3, SwallowedGrows DEF Passed, Settled
<1>4. CASE Crowded(l)
  <2>1. Now \in SUBSET Next_
    BY ChainGrows DEF RowsInv
  <2>2. /\ Len(chain) \in Nat /\ Len(chain') \in Nat
        /\ Now \in SUBSET (1..Len(chain)) /\ Next_ \in SUBSET (1..Len(chain'))
    BY <1>1 DEF ChainOK
  <2>3. Cardinality(Now) > Limit
    BY <1>4 DEF Crowded
  <2>4. chain'[t].ledger = l
    BY <1>1
  <2> HIDE DEF Now, Next_
  <2>5. IsFiniteSet(Next_) /\ Cardinality(Next_) \in Nat /\ Cardinality(Now) \in Nat
    BY <2>2, RankType
  <2>6. Cardinality(Now) <= Cardinality(Next_)
    BY <2>1, <2>5, FS_Subset
  <2>7. Cardinality(Next_) > Limit
    BY <2>3, <2>5, <2>6, IndexerAssumption
  <2>8. Crowded(chain[t].ledger)'
    BY <2>4, <2>7 DEF Crowded, Next_
  <2> QED
    BY <2>8 DEF Passed, Settled
<1>5. CASE ~Asked(t)
  <2>1. ~Asked(t)'
    BY <1>1, <1>5 DEF Asked, Emitter
  <2> QED
    BY <2>1 DEF Passed
<1> QED
  BY <1>2, <1>3, <1>4, <1>5 DEF Passed, Settled

(* Everything up to a ledger will be settled after the step. *)
UptoNext(l) == \A t \in DOMAIN chain' : chain'[t].ledger <= l => Passed(t)'

LEMMA UptoStays ==
    ASSUME RowsInv, [Next]_vars
    PROVE  \A l \in Int : l <= latest /\ Upto(l) => UptoNext(l)
<1> SUFFICES ASSUME NEW l \in Int, l <= latest, Upto(l),
                    NEW t \in DOMAIN chain', chain'[t].ledger <= l
             PROVE  Passed(t)'
  BY DEF UptoNext
<1>1. latest \in Nat
  BY DEF RowsInv, ChainOK
<1>2. t \in DOMAIN chain /\ chain'[t] = chain[t]
  BY <1>1, ChainGrows DEF RowsInv
<1>3. Passed(t)
  BY <1>2 DEF Upto
<1> QED
  BY <1>2, <1>3, PassedStays

-----------------------------------------------------------------------------
(* Where the workers are *)

(* One worker moves: to a label, a ledger, a last ledger and a queue. *)
Local(w, l, n, k, q) ==
    /\ pc' = [pc EXCEPT ![w] = l] /\ seq' = [seq EXCEPT ![w] = n]
    /\ to' = [to EXCEPT ![w] = k] /\ queue' = [queue EXCEPT ![w] = q]
    /\ UNCHANGED network
Sound(l, n, k, q) ==
    /\ l \in Labels /\ n \in Nat /\ k \in Nat /\ k <= latest /\ q \in Seq(ChainRow)
    /\ l \in {"record", "handle"} <=> q # <<>>
    /\ l \in Busy => n \in 1..latest
    /\ IsAnswer(q)
Kept ==
    /\ checkpoint' \in 0..latest /\ last' \in 0..latest
    /\ swallowed' \subseteq 1..latest
    /\ eventRows' \in [Txs -> Kinds \cup {None}]

LEMMA WorkerTypes ==
    ASSUME ChainOK, WorkersOK, NEW w \in Workers
    PROVE  /\ pc[w] \in Labels /\ seq[w] \in Nat /\ to[w] \in Nat
           /\ queue[w] \in Seq(ChainRow) /\ to[w] <= latest /\ latest \in Nat
           /\ pc[w] \in {"record", "handle"} <=> queue[w] # <<>>
           /\ pc[w] \in Busy => seq[w] \in 1..latest
           /\ IsAnswer(queue[w])
           /\ pc = [pc EXCEPT ![w] = pc[w]] /\ seq = [seq EXCEPT ![w] = seq[w]]
           /\ to = [to EXCEPT ![w] = to[w]]
           /\ queue = [queue EXCEPT ![w] = queue[w]]
BY DEF ChainOK, WorkersOK

LEMMA NoAnswer == <<>> \in Seq(ChainRow) /\ IsAnswer(<<>>)
BY DEF IsAnswer

LEMMA TailAnswer ==
    ASSUME NEW q \in Seq(ChainRow), IsAnswer(q), q # <<>>
    PROVE  /\ Tail(q) \in Seq(ChainRow) /\ IsAnswer(Tail(q))
           /\ Tail(q) = <<>> <=> Len(q) = 1
           /\ Head(q) = q[1] /\ 1 \in DOMAIN q
           /\ \A i \in DOMAIN q : i # 1 => i - 1 \in DOMAIN Tail(q)
                                           /\ Tail(q)[i - 1] = q[i]
<1>1. /\ Tail(q) \in Seq(ChainRow) /\ Len(Tail(q)) = Len(q) - 1
      /\ Len(q) \in Nat /\ Len(q) # 0
      /\ DOMAIN q = 1..Len(q) /\ DOMAIN Tail(q) = 1..Len(q) - 1
      /\ Head(q) = q[1]
  OBVIOUS
<1>2. \A i \in 1..Len(q) - 1 : Tail(q)[i] = q[i + 1] /\ i + 1 \in DOMAIN q
  BY <1>1
<1>3. IsAnswer(Tail(q))
  BY <1>1, <1>2 DEF IsAnswer
<1>4. Tail(q) = <<>> <=> Len(q) = 1
  <2>1. \A s \in Seq(ChainRow) : s = <<>> <=> Len(s) = 0
    OBVIOUS
  <2> QED
    BY <1>1, <2>1
<1>5. \A i \in DOMAIN q : i # 1 => i - 1 \in DOMAIN Tail(q)
                                   /\ Tail(q)[i - 1] = q[i]
  BY <1>1, <1>2
<1> QED
  BY <1>1, <1>3, <1>4, <1>5

LEMMA LocalKept ==
    ASSUME ChainOK, WorkersOK, NEW w \in Workers, NEW l, NEW n, NEW k, NEW q,
           Local(w, l, n, k, q), Sound(l, n, k, q), Kept
    PROVE  /\ WorkersOK'
           /\ pc'[w] = l /\ seq'[w] = n /\ to'[w] = k /\ queue'[w] = q
           /\ \A x \in Workers \ {w} :
                 /\ pc'[x] = pc[x] /\ seq'[x] = seq[x]
                 /\ to'[x] = to[x] /\ queue'[x] = queue[x]
<1>1. /\ pc' \in [Workers -> Labels] /\ pc'[w] = l
      /\ \A x \in Workers \ {w} : pc'[x] = pc[x]
  BY DEF Local, Sound, WorkersOK
<1>2. /\ seq' \in [Workers -> Nat] /\ seq'[w] = n
      /\ \A x \in Workers \ {w} : seq'[x] = seq[x]
  BY DEF Local, Sound, WorkersOK
<1>3. /\ to' \in [Workers -> Nat] /\ to'[w] = k
      /\ \A x \in Workers \ {w} : to'[x] = to[x]
  BY DEF Local, Sound, WorkersOK
<1>4. /\ queue' \in [Workers -> Seq(ChainRow)] /\ queue'[w] = q
      /\ \A x \in Workers \ {w} : queue'[x] = queue[x]
  BY DEF Local, Sound, WorkersOK
<1>5. chain' = chain /\ latest' = latest
  BY DEF Local, network
<1>6. ASSUME NEW x \in Workers
      PROVE  /\ pc'[x] \in {"record", "handle"} <=> queue'[x] # <<>>
             /\ to'[x] <= latest'
             /\ pc'[x] \in Busy => seq'[x] \in 1..latest'
             /\ IsAnswer(queue[x])'
  <2>1. CASE x = w
    <3>1. IsAnswer(queue[x])'
      BY <1>4, <1>5, <2>1 DEF Sound, IsAnswer
    <3> QED
      BY <1>1, <1>2, <1>3, <1>4, <1>5, <2>1, <3>1 DEF Sound
  <2>2. CASE x # w
    <3>1. IsAnswer(queue[x])'
      BY <1>4, <1>5, <2>2 DEF WorkersOK, IsAnswer
    <3> QED
      BY <1>1, <1>2, <1>3, <1>4, <1>5, <2>2, <3>1 DEF WorkersOK
  <2> QED
    BY <2>1, <2>2
<1>7. /\ checkpoint' \in 0..latest' /\ last' \in 0..latest'
      /\ swallowed' \subseteq 1..latest'
      /\ eventRows' \in [Txs -> Kinds \cup {None}]
  BY <1>5 DEF Kept
<1>8. WorkersOK'
  BY <1>1, <1>2, <1>3, <1>4, <1>6, <1>7 DEF WorkersOK
<1> QED
  BY <1>1, <1>2, <1>3, <1>4, <1>8

LEMMA BootMoves ==
    ASSUME RowsInv, Boot
    PROVE  /\ Local("poller", "boot", seq["poller"], to["poller"], queue["poller"])
           /\ Sound("boot", seq["poller"], to["poller"], queue["poller"])
           /\ Kept
<1>1. "poller" \in Workers
  BY DEF Workers
<1> QED
  BY <1>1, WorkerTypes DEF RowsInv, WorkersOK, Boot, Goto, Local, Sound, Kept,
     network, Labels, Busy

LEMMA LoadMoves ==
    ASSUME RowsInv, LoadCheckpoint
    PROVE  \E l \in {"resume", "idle"} : \E k \in {checkpoint, to["poller"]} :
               /\ Local("poller", l, seq["poller"], k, queue["poller"])
               /\ Sound(l, seq["poller"], k, queue["poller"])
               /\ Kept
               /\ l = "resume" => k = checkpoint
<1>1. "poller" \in Workers
  BY DEF Workers
<1>2. checkpoint \in Nat /\ checkpoint <= latest
  BY DEF RowsInv, WorkersOK, ChainOK
<1>3. Kept
  BY DEF RowsInv, WorkersOK, LoadCheckpoint, Kept
<1>4. CASE checkpoint > last
  <2>1. /\ Local("poller", "resume", seq["poller"], checkpoint, queue["poller"])
        /\ Sound("resume", seq["poller"], checkpoint, queue["poller"])
    BY <1>1, <1>2, <1>4, WorkerTypes DEF RowsInv, LoadCheckpoint, Goto, Local,
       Sound, network, Labels, Busy
  <2> QED
    BY <1>3, <2>1
<1>5. CASE ~(checkpoint > last)
  <2>1. /\ Local("poller", "idle", seq["poller"], to["poller"], queue["poller"])
        /\ Sound("idle", seq["poller"], to["poller"], queue["poller"])
    BY <1>1, <1>5, WorkerTypes DEF RowsInv, LoadCheckpoint, Goto, Local,
       Sound, network, Labels, Busy
  <2> QED
    BY <1>3, <2>1
<1> QED
  BY <1>4, <1>5

(* A worker that leaves has nothing left of its own. *)
LEMMA LeaveMoves ==
    ASSUME RowsInv, NEW w \in Workers, NEW l \in {"idle", "down"}, Leave(w, l),
           UNCHANGED network
    PROVE  Local(w, l, 0, 0, <<>>) /\ Sound(l, 0, 0, <<>>)
<1>1. Local(w, l, 0, 0, <<>>)
  BY DEF Leave, Goto, Local
<1>2. latest \in Nat
  BY DEF RowsInv, ChainOK
<1> QED
  BY <1>1, <1>2, NoAnswer DEF Sound, Labels, Busy

LEMMA ResumeMoves ==
    ASSUME RowsInv, BackfillFromLedger
    PROVE  /\ Local("poller", "idle", 0, 0, <<>>) /\ Sound("idle", 0, 0, <<>>)
           /\ Kept
<1>1. "poller" \in Workers
  BY DEF Workers
<1>2. to["poller"] \in Nat /\ to["poller"] <= latest /\ latest \in Nat
  BY <1>1, WorkerTypes DEF RowsInv
<1> QED
  BY <1>1, <1>2, LeaveMoves DEF RowsInv, WorkersOK, BackfillFromLedger, Kept, network

LEMMA PollMoves ==
    ASSUME RowsInv, Poll
    PROVE  /\ Local("poller", "fetch", last + 1, latest, queue["poller"])
           /\ Sound("fetch", last + 1, latest, queue["poller"])
           /\ Kept
<1>1. "poller" \in Workers
  BY DEF Workers
<1>2. last \in Nat /\ last + 1 <= latest
  BY DEF RowsInv, WorkersOK, ChainOK, Poll, Behind
<1>3. Kept
  BY DEF RowsInv, WorkersOK, Poll, Kept
<1> QED
  BY <1>1, <1>2, <1>3, WorkerTypes DEF RowsInv, Poll, Goto, Local, Sound, network,
     Labels, Busy

LEMMA StartMoves ==
    ASSUME RowsInv, NEW first \in 1..latest, NEW final \in 1..latest,
           StartBackfill(first, final)
    PROVE  /\ Local("backfill", "fetch", first, final, queue["backfill"])
           /\ Sound("fetch", first, final, queue["backfill"])
           /\ Kept
<1>1. "backfill" \in Workers
  BY DEF Workers
<1>2. Kept
  BY DEF RowsInv, WorkersOK, StartBackfill, Kept
<1>3. first \in Nat /\ final \in Nat /\ final <= latest
  BY DEF RowsInv, ChainOK
<1> QED
  BY <1>1, <1>2, <1>3, WorkerTypes DEF RowsInv, StartBackfill, Goto, Local, Sound,
     network, Labels, Busy

LEMMA FetchMoves ==
    ASSUME RowsInv, NEW w \in Workers, Fetch(w)
    PROVE  \E l \in {"save", "record"} :
               /\ Local(w, l, seq[w], to[w], AnswerFrom(seq[w]))
               /\ Sound(l, seq[w], to[w], AnswerFrom(seq[w]))
               /\ Kept
<1> DEFINE q == AnswerFrom(seq[w])
           l == IF q = <<>> THEN "save" ELSE "record"
<1>1. q \in Seq(ChainRow) /\ IsAnswer(q)
  BY AnswerSound DEF RowsInv
<1>2. queue' = [queue EXCEPT ![w] = q] /\ queue'[w] = q
  BY DEF Fetch, EventsFrom, RowsInv, WorkersOK
<1>3. pc' = [pc EXCEPT ![w] = l]
  BY <1>2 DEF Fetch, Goto
<1>4. Kept
  BY DEF RowsInv, WorkersOK, Fetch, Kept
<1> HIDE DEF q
<1>5. Local(w, l, seq[w], to[w], q)
  BY <1>2, <1>3, WorkerTypes DEF RowsInv, Fetch, Local, network
<1>6. Sound(l, seq[w], to[w], q)
  BY <1>1, WorkerTypes DEF RowsInv, Fetch, Sound, Labels, Busy
<1> QED
  BY <1>4, <1>5, <1>6 DEF q

LEMMA RecordMoves ==
    ASSUME RowsInv, NEW w \in Workers, Record(w), [Next]_vars
    PROVE  /\ Local(w, "handle", seq[w], to[w], queue[w])
           /\ Sound("handle", seq[w], to[w], queue[w])
           /\ Kept
<1>1. Kept
  BY RecordsStay DEF RowsInv, WorkersOK, Record, Kept
<1>2. Local(w, "handle", seq[w], to[w], queue[w])
  BY WorkerTypes DEF RowsInv, Record, Goto, Local, network
<1>3. Sound("handle", seq[w], to[w], queue[w])
  BY WorkerTypes DEF RowsInv, Record, Sound, Labels, Busy
<1> QED
  BY <1>1, <1>2, <1>3

LEMMA HandleMoves ==
    ASSUME RowsInv, NEW w \in Workers, Handle(w) \/ EventFails(w)
    PROVE  \E l \in {"save", "record"} :
               /\ Local(w, l, seq[w], to[w], Tail(queue[w]))
               /\ Sound(l, seq[w], to[w], Tail(queue[w]))
               /\ Kept
<1> DEFINE q == Tail(queue[w])
           l == IF Len(queue[w]) = 1 THEN "save" ELSE "record"
<1>1. /\ pc[w] = "handle" /\ queue' = [queue EXCEPT ![w] = Tail(@)]
      /\ pc' = [pc EXCEPT ![w] = l]
      /\ UNCHANGED <<network, eventRows, checkpoint, seq, to, last, from>>
      /\ swallowed' \subseteq swallowed \cup {seq[w]}
  BY DEF Handle, EventFails, Goto
<1>2. /\ queue[w] \in Seq(ChainRow) /\ IsAnswer(queue[w]) /\ queue[w] # <<>>
      /\ seq[w] \in 1..latest
  BY <1>1, WorkerTypes DEF RowsInv, Busy
<1>3. q \in Seq(ChainRow) /\ IsAnswer(q) /\ (q = <<>> <=> Len(queue[w]) = 1)
  BY <1>2, TailAnswer
<1>4. Kept
  BY <1>1, <1>2 DEF RowsInv, WorkersOK, Kept
<1>5. queue' = [queue EXCEPT ![w] = q]
  BY <1>1
<1> HIDE DEF q
<1>6. Local(w, l, seq[w], to[w], q)
  BY <1>1, <1>5, WorkerTypes DEF RowsInv, Local, network
<1>7. Sound(l, seq[w], to[w], q)
  BY <1>1, <1>3, WorkerTypes DEF RowsInv, Sound, Labels, Busy
<1> QED
  BY <1>4, <1>6, <1>7 DEF q

LEMMA SaveMoves ==
    ASSUME RowsInv, NEW w \in Workers, Save(w)
    PROVE  /\ Kept
           /\ checkpoint' \in {checkpoint, seq[w]} /\ last' \in {last, seq[w]}
           /\ \/ /\ Local(w, "fetch", seq[w] + 1, to[w], <<>>)
                 /\ Sound("fetch", seq[w] + 1, to[w], <<>>)
              \/ \E l \in {"idle", "down"} : /\ Local(w, l, 0, 0, <<>>)
                                             /\ Sound(l, 0, 0, <<>>)
<1>1. pc[w] = "save" /\ UNCHANGED <<network, rows, eventRows, swallowed, budget>>
  BY DEF Save
<1>2. /\ queue[w] = <<>> /\ seq[w] \in 1..latest /\ seq[w] \in Nat /\ to[w] \in Nat
      /\ to[w] <= latest /\ latest \in Nat
  BY <1>1, WorkerTypes DEF RowsInv, Busy
<1>3. checkpoint' \in {checkpoint, seq[w]} /\ last' \in {last, seq[w]}
  BY DEF Save
<1>4. Kept
  BY <1>1, <1>2, <1>3 DEF RowsInv, WorkersOK, Kept
<1>5. CASE seq[w] < to[w]
  <2>1. Local(w, "fetch", seq[w] + 1, to[w], <<>>)
    BY <1>1, <1>2, <1>5, WorkerTypes DEF RowsInv, Save, Goto, Local, network
  <2>2. Sound("fetch", seq[w] + 1, to[w], <<>>)
    BY <1>2, <1>5, NoAnswer DEF Sound, Labels, Busy
  <2> QED
    BY <1>3, <1>4, <2>1, <2>2
<1>6. CASE ~(seq[w] < to[w])
  <2>1. PICK l \in {"idle", "down"} : Leave(w, l)
    BY <1>6 DEF Save
  <2>2. UNCHANGED network
    BY <1>1
  <2> QED
    BY <1>3, <1>4, <2>1, <2>2, LeaveMoves
<1> QED
  BY <1>5, <1>6

LEMMA LedgerMoves ==
    ASSUME RowsInv, NEW w \in Workers, LedgerFails(w)
    PROVE  /\ Local(w, "save", seq[w], to[w], <<>>)
           /\ Sound("save", seq[w], to[w], <<>>)
           /\ Kept
<1>1. pc[w] \in Busy
  BY DEF LedgerFails, Busy
<1>2. seq[w] \in 1..latest
  BY <1>1, WorkerTypes DEF RowsInv
<1>3. Kept
  BY <1>2 DEF RowsInv, WorkersOK, LedgerFails, Kept
<1>4. Local(w, "save", seq[w], to[w], <<>>)
  BY WorkerTypes DEF RowsInv, LedgerFails, Goto, Local, network
<1>5. Sound("save", seq[w], to[w], <<>>)
  BY <1>2, WorkerTypes, NoAnswer DEF RowsInv, Sound, Labels, Busy
<1> QED
  BY <1>3, <1>4, <1>5

LEMMA CrashMoves ==
    ASSUME RowsInv, NEW w \in Workers, Crash(w)
    PROVE  /\ Local(w, "down", 0, 0, <<>>) /\ Sound("down", 0, 0, <<>>)
           /\ Kept /\ last' \in {0, last}
<1>1. /\ Leave(w, "down") /\ UNCHANGED network /\ last' \in {0, last}
      /\ UNCHANGED <<eventRows, checkpoint, swallowed>>
  BY DEF Crash
<1>2. Kept
  BY <1>1 DEF RowsInv, WorkersOK, ChainOK, Kept
<1> QED
  BY <1>1, <1>2, LeaveMoves

(* Steps that move no worker. *)
LEMMA StillKept ==
    ASSUME RowsInv, [Next]_vars, UNCHANGED <<eventRows, checkpoint, worker, swallowed>>
    PROVE  WorkersOK'
<1>1. /\ ChainOK' /\ latest <= latest' /\ latest \in Nat /\ latest' \in Nat
      /\ \A t \in DOMAIN chain : t \in DOMAIN chain' /\ chain'[t] = chain[t]
  BY ChainGrows DEF RowsInv, ChainOK
<1>2. /\ pc' = pc /\ seq' = seq /\ to' = to /\ queue' = queue /\ last' = last
      /\ eventRows' = eventRows /\ checkpoint' = checkpoint /\ swallowed' = swallowed
  BY DEF worker
<1>3. ASSUME NEW w \in Workers PROVE IsAnswer(queue[w])'
  BY <1>1, <1>2 DEF RowsInv, WorkersOK, IsAnswer
<1>4. /\ checkpoint' \in 0..latest' /\ last' \in 0..latest'
      /\ swallowed' \subseteq 1..latest'
  BY <1>1, <1>2 DEF RowsInv, WorkersOK
<1>5. ASSUME NEW w \in Workers
      PROVE  to[w] <= latest' /\ (pc[w] \in Busy => seq[w] \in 1..latest')
  BY <1>1, WorkerTypes DEF RowsInv
<1> QED
  BY <1>2, <1>3, <1>4, <1>5 DEF RowsInv, WorkersOK

-----------------------------------------------------------------------------
(* The rows *)

LEMMA WorkersKept ==
    ASSUME RowsInv, [Next]_vars
    PROVE  WorkersOK'
<1> "poller" \in Workers /\ "backfill" \in Workers
  BY DEF Workers
<1>a. ChainOK /\ WorkersOK
  BY DEF RowsInv
<1>1. CASE \E e \in Events : Emit(e)
  BY <1>1, StillKept DEF Emit
<1>2. CASE CloseLedger
  BY <1>2, StillKept DEF CloseLedger
<1>3. CASE Boot
  BY <1>a, <1>3, BootMoves, LocalKept
<1>4. CASE LoadCheckpoint
  BY <1>a, <1>4, LoadMoves, LocalKept
<1>5. CASE BackfillFromLedger
  BY <1>a, <1>5, ResumeMoves, LocalKept
<1>6. CASE Poll
  BY <1>a, <1>6, PollMoves, LocalKept
<1>7. ASSUME NEW first \in 1..latest, NEW final \in 1..latest,
             StartBackfill(first, final)
      PROVE  WorkersOK'
  BY <1>a, <1>7, StartMoves, LocalKept
<1>8. CASE \E t \in DOMAIN chain : Stream(t)
  BY <1>8, StillKept DEF Stream
<1>9. ASSUME NEW w \in Workers, Fetch(w) PROVE WorkersOK'
  BY <1>a, <1>9, FetchMoves, LocalKept
<1>10. ASSUME NEW w \in Workers, Record(w) PROVE WorkersOK'
  BY <1>a, <1>10, RecordMoves, LocalKept
<1>11. ASSUME NEW w \in Workers, Handle(w) \/ EventFails(w) PROVE WorkersOK'
  BY <1>a, <1>11, HandleMoves, LocalKept
<1>12. ASSUME NEW w \in Workers, Save(w) PROVE WorkersOK'
  BY <1>a, <1>12, SaveMoves, LocalKept
<1>13. ASSUME NEW w \in Workers, LedgerFails(w) PROVE WorkersOK'
  BY <1>a, <1>13, LedgerMoves, LocalKept
<1>14. ASSUME NEW w \in Workers, Crash(w) PROVE WorkersOK'
  BY <1>a, <1>14, CrashMoves, LocalKept
<1>15. CASE UNCHANGED vars
  BY <1>15, StillKept DEF vars
<1> QED
  BY <1>1, <1>2, <1>3, <1>4, <1>5, <1>6, <1>7, <1>8, <1>9, <1>10, <1>11, <1>12,
     <1>13, <1>14, <1>15, Steps, Zenon

LEMMA RowsNext ==
    ASSUME RowsInv, [Next]_vars
    PROVE  RowsInv'
<1>1. ChainOK'
  BY ChainGrows DEF RowsInv
<1>2. WorkersOK'
  BY WorkersKept
<1>3. TablesOK' /\ PoolsCoverBets'
  <2>1. CASE UNCHANGED rows
    <3>1. TablesOK'
      BY <2>1 DEF RowsInv, TablesOK, HasRow, rows
    <3>2. PoolsCoverBets'
      <4>1. markets' = markets /\ bets' = bets
        BY <2>1 DEF rows
      <4>2. PoolsCoverBets' = PoolsCoverBets
        BY <4>1 DEF PoolsCoverBets, StakeOn
      <4> QED
        BY <4>2 DEF RowsInv
    <3> QED
      BY <3>1, <3>2
  <2>2. CASE \E e \in ChainRow : e.tx \in Txs /\ ProcessEvent(e)
    BY <2>2, TablesKept, PoolsKept DEF RowsInv
  <2> QED
    BY <2>1, <2>2, RowMoves
<1> QED
  BY <1>1, <1>2, <1>3 DEF RowsInv

LEMMA RowsInit ==
    ASSUME Init
    PROVE  RowsInv
<1>1. ChainOK
  BY IndexerAssumption DEF Init, ChainOK
<1>2. TablesOK
  BY RowNames DEF Init, TablesOK
<1>3. WorkersOK
  <2>1. <<>> \in Seq(ChainRow) /\ IsAnswer(<<>>)
    BY NoAnswer
  <2>2. \A w \in Workers : queue[w] = <<>> /\ pc[w] = "down"
    BY DEF Init
  <2>3. /\ pc \in [Workers -> Labels] /\ queue \in [Workers -> Seq(ChainRow)]
        /\ seq \in [Workers -> Nat] /\ to \in [Workers -> Nat]
        /\ \A w \in Workers : to[w] = 0
        /\ eventRows \in [Txs -> Kinds \cup {None}]
    BY <2>1 DEF Init, Labels
  <2>4. checkpoint = 0 /\ last = 0 /\ latest = 0 /\ swallowed = {}
    BY DEF Init, Genesis
  <2> QED
    BY <2>1, <2>2, <2>3, <2>4 DEF WorkersOK, Busy
<1>4. PoolsCoverBets
  <2>1. SUFFICES ASSUME NEW m \in Markets
                 PROVE  /\ \A s \in Sides : SumFunctionOnSet(StakeOn(m, s), Txs)
                                              <= markets[m].pool[s]
                        /\ markets[m].total = SumFunction(markets[m].pool)
    BY DEF PoolsCoverBets
  <2>2. /\ bets \in [Txs -> BetRow] /\ \A t \in Txs : bets[t] = NoBet
        /\ markets \in [Markets -> MarketRow]
        /\ markets[m].pool = [s \in Sides |-> 0] /\ markets[m].total = 0
    BY RowNames DEF Init
  <2>3. ASSUME NEW s \in Sides
        PROVE  SumFunctionOnSet(StakeOn(m, s), Txs) <= markets[m].pool[s]
    <3>1. SumFunctionOnSet(StakeOn(m, s), Txs) = 0
      BY <2>2, StakeRows, SumZero
    <3>2. markets[m].pool[s] = 0
      BY <2>2
    <3> QED
      BY <3>1, <3>2
  <2>4. SumFunction(markets[m].pool) = 0
    <3>1. SumFunction(markets[m].pool) = SumFunctionOnSet(markets[m].pool, Sides)
      BY <2>2, PoolSum
    <3>2. \A s \in Sides : markets[m].pool[s] = 0
      BY <2>2
    <3>3. SumFunctionOnSet(markets[m].pool, Sides) = 0
      BY <3>2, IndexerAssumption, SumZero
    <3> QED
      BY <3>1, <3>3
  <2> QED
    BY <2>2, <2>3, <2>4
<1> QED
  BY <1>1, <1>2, <1>3, <1>4 DEF RowsInv

LEMMA RowsInvSound ==
    ASSUME RowsInv
    PROVE  RowsSound
<1>1. ASSUME NEW m \in Markets
      PROVE  DOMAIN markets[m].pool = Sides
             /\ \A s \in Sides : markets[m].pool[s] \in Nat
  BY DEF RowsInv, TablesOK, MarketRow
<1>2. TypeOK
  BY <1>1 DEF RowsInv, ChainOK, TablesOK, WorkersOK, TypeOK, Labels
<1> QED
  BY <1>2 DEF RowsSound, RowsInv

(* However often events are replayed, lost or failed on, the pools of a     *)
(* market's row cover the stakes of the bets on record and add up to its    *)
(* total: a bet's insert and its market's update commit together, and a     *)
(* market's row, once there, is never begun again (handleMarketCreated,     *)
(* handleBetPlaced).                                                        *)
THEOREM AlwaysRowsSound == Spec => []RowsSound
<1>1. RowsInv /\ [Next]_vars => RowsInv'
  BY RowsNext
<1> QED
  BY <1>1, RowsInit, RowsInvSound, PTL DEF Spec

(* A bet's row, once written, keeps what it says of the bet through every   *)
(* replay of its event, and a claimed bet is not opened again.              *)
THEOREM AlwaysBetRowsStable == Spec => BetRowsStable
<1>1. RowsInv /\ [Next]_vars => RowsInv'
  BY RowsNext
<1>2. RowsInv /\ [Next]_vars =>
        [\A t \in Txs : bets[t] # NoBet =>
            bets'[t] \in {bets[t], [bets[t] EXCEPT !.claimed = TRUE]}]_vars
  BY BetsStay
<1> QED
  BY <1>1, <1>2, RowsInit, PTL DEF Spec, BetRowsStable

-----------------------------------------------------------------------------
(* The checkpoint *)

LEMMA ClosedLedger ==
    ASSUME RowsInv, [Next]_vars, NEW l \in Int, l <= latest,
           NEW t \in DOMAIN chain', chain'[t].ledger <= l
    PROVE  t \in DOMAIN chain /\ chain'[t] = chain[t]
<1>1. latest \in Nat
  BY DEF RowsInv, ChainOK
<1> QED
  BY <1>1, ChainGrows DEF RowsInv

LEMMA HeadKind ==
    ASSUME RowsInv, NEW w \in Workers, queue[w] # <<>>
    PROVE  /\ Head(queue[w]).tx \in DOMAIN chain /\ Head(queue[w]).tx \in Txs
           /\ Head(queue[w]) \in ChainRow
           /\ Head(queue[w]).kind = chain[Head(queue[w]).tx].kind
<1> DEFINE e == Head(queue[w])
<1>1. /\ e \in ChainRow /\ e.tx \in DOMAIN chain /\ e.tx \in Txs
      /\ e = Payload(chain[e.tx])
  BY HeadRow DEF RowsInv
<1>2. chain[e.tx] \in ChainRow
  BY <1>1, ChainTx DEF RowsInv
<1> HIDE DEF e
<1>3. e.kind = chain[e.tx].kind
  BY <1>1, <1>2, PayloadRow
<1> QED
  BY <1>1, <1>3 DEF e

(* A worker that does not move is disturbed by no step of the others. *)
LEMMA OthersProgress ==
    ASSUME RowsInv, [Next]_vars, NEW w \in Workers, WorkerProgress(w),
           pc'[w] = pc[w], seq'[w] = seq[w], queue'[w] = queue[w]
    PROVE  WorkerProgress(w)'
<1>1. pc[w] \in Busy => seq[w] \in 1..latest /\ latest \in Nat
  BY WorkerTypes DEF RowsInv
<1>2. ASSUME pc[w] \in Busy PROVE Upto(seq[w] - 1)'
  <2>1. seq[w] - 1 \in Int /\ seq[w] - 1 <= latest /\ Upto(seq[w] - 1)
    BY <1>1, <1>2 DEF WorkerProgress
  <2>2. UptoNext(seq[w] - 1)
    BY <2>1, UptoStays
  <2> QED
    BY <2>2 DEF Upto, UptoNext
<1>3. ASSUME pc[w] \in {"record", "handle", "save"},
             NEW t \in DOMAIN chain', chain'[t].ledger = seq'[w]
      PROVE  Passed(t)' \/ Queued(w, t)'
  <2>1. pc[w] \in Busy
    BY <1>3 DEF Busy
  <2>2. seq[w] \in Int /\ seq[w] <= latest /\ chain'[t].ledger <= seq[w]
    BY <1>1, <1>3, <2>1
  <2>3. t \in DOMAIN chain /\ chain'[t] = chain[t]
    BY <2>2, ClosedLedger
  <2>4. Passed(t) \/ Queued(w, t)
    BY <1>3, <2>3 DEF WorkerProgress
  <2>5. Queued(w, t) => Queued(w, t)'
    BY DEF Queued
  <2> QED
    BY <2>3, <2>4, <2>5, PassedStays
<1>4. ASSUME pc[w] = "handle"
      PROVE  eventRows'[Head(queue'[w]).tx] = Head(queue'[w]).kind
  <2>1. queue[w] # <<>>
    BY <1>4, WorkerTypes DEF RowsInv
  <2>2. eventRows[Head(queue[w]).tx] = Head(queue[w]).kind
    BY <1>4 DEF WorkerProgress
  <2> QED
    BY <2>1, <2>2, HeadKind, RecordsStay
<1> QED
  BY <1>2, <1>3, <1>4 DEF WorkerProgress

(* A worker about to save has settled its ledger. *)
LEMMA SavedUpto ==
    ASSUME IInv, NEW w \in Workers, pc[w] = "save"
    PROVE  Upto(seq[w]) /\ seq[w] \in 1..latest
<1>1. seq[w] \in 1..latest /\ queue[w] = <<>> /\ latest \in Nat
  BY WorkerTypes DEF IInv, RowsInv, Busy
<1>2. SUFFICES ASSUME NEW t \in DOMAIN chain, chain[t].ledger <= seq[w]
               PROVE  Passed(t)
  BY <1>1 DEF Upto
<1>3. WorkerProgress(w)
  BY DEF IInv, Progress
<1>4. ~Queued(w, t)
  BY <1>1 DEF Queued
<1>5. chain[t].ledger \in Nat
  BY DEF IInv, RowsInv, ChainOK, ChainRow
<1>6. CASE chain[t].ledger = seq[w]
  BY <1>3, <1>4, <1>6 DEF WorkerProgress
<1>7. CASE chain[t].ledger <= seq[w] - 1
  BY <1>3, <1>7 DEF WorkerProgress, Upto, Busy
<1> QED
  BY <1>1, <1>2, <1>5, <1>6, <1>7

(* The checkpoint, and what the poller remembers of it, move only to where  *)
(* all is settled.                                                          *)
LEMMA CheckpointMoves ==
    ASSUME IInv, [Next]_vars
    PROVE  /\ \E l \in 0..latest : checkpoint' = l /\ Upto(l)
           /\ \E l \in 0..latest : last' = l /\ Upto(l)
<1>1. /\ checkpoint \in 0..latest /\ last \in 0..latest
      /\ Upto(checkpoint) /\ Upto(last) /\ latest \in Nat
  BY DEF IInv, Progress, RowsInv, WorkersOK, ChainOK
<1>2. 0 \in 0..latest /\ Upto(0)
  BY <1>1 DEF IInv, RowsInv, ChainOK, Upto
<1>3. CASE BackfillFromLedger
  <2>1. to["poller"] \in 0..latest /\ Upto(to["poller"])
    BY <1>3, WorkerTypes DEF BackfillFromLedger, IInv, RowsInv, Progress, Workers
  <2> QED
    BY <1>3, <2>1 DEF BackfillFromLedger
<1>4. ASSUME NEW w \in Workers, Save(w)
      PROVE  /\ checkpoint' \in {checkpoint, seq[w]} /\ last' \in {last, seq[w]}
             /\ seq[w] \in 0..latest /\ Upto(seq[w])
  <2>1. pc[w] = "save" /\ checkpoint' \in {checkpoint, seq[w]}
        /\ last' \in {last, seq[w]}
    BY <1>4 DEF Save
  <2> QED
    BY <1>1, <2>1, SavedUpto
<1>5. ASSUME NEW w, Fetch(w) \/ Record(w) \/ Handle(w) \/ LedgerFails(w)
                      \/ EventFails(w)
      PROVE  checkpoint' = checkpoint /\ last' = last
  BY <1>5, Zenon DEF Fetch, Record, Handle, LedgerFails, EventFails
<1>6. ASSUME NEW w, Crash(w)
      PROVE  checkpoint' = checkpoint /\ last' \in {0, last}
  BY <1>6 DEF Crash
<1>7. ASSUME Boot
      PROVE  checkpoint' = checkpoint /\ last' = checkpoint
  BY <1>7 DEF Boot
<1>8. ASSUME LoadCheckpoint \/ Poll \/ CloseLedger
      PROVE  checkpoint' = checkpoint /\ last' = last
  BY <1>8, Zenon DEF LoadCheckpoint, Poll, CloseLedger, worker
<1>9. ASSUME NEW first, NEW final, StartBackfill(first, final)
      PROVE  checkpoint' = checkpoint /\ last' = last
  BY <1>9, Zenon DEF StartBackfill
<1>10. ASSUME NEW t, Stream(t) \/ Emit(t)
      PROVE  checkpoint' = checkpoint /\ last' = last
  BY <1>10, Zenon DEF Stream, Emit, worker
<1>11. ASSUME UNCHANGED vars
      PROVE  checkpoint' = checkpoint /\ last' = last
  BY <1>11 DEF vars, worker
<1>12. \/ BackfillFromLedger
       \/ \E w \in Workers : Save(w)
       \/ checkpoint' = checkpoint /\ last' \in {0, last, checkpoint}
  BY <1>5, <1>6, <1>7, <1>8, <1>9, <1>10, <1>11, Steps
<1>13. CASE \E w \in Workers : Save(w)
  BY <1>1, <1>4, <1>13
<1>14. CASE checkpoint' = checkpoint /\ last' \in {0, last, checkpoint}
  BY <1>1, <1>2, <1>14
<1> QED
  BY <1>3, <1>12, <1>13, <1>14

LEMMA CheckpointUpto ==
    ASSUME IInv, [Next]_vars
    PROVE  Upto(checkpoint)' /\ Upto(last)'
<1>1. PICK l \in 0..latest : checkpoint' = l /\ Upto(l)
  BY CheckpointMoves
<1>2. PICK k \in 0..latest : last' = k /\ Upto(k)
  BY CheckpointMoves
<1>3. latest \in Nat
  BY DEF IInv, RowsInv, ChainOK
<1>4. UptoNext(l) /\ UptoNext(k)
  BY <1>1, <1>2, <1>3, UptoStays DEF IInv
<1> QED
  BY <1>1, <1>2, <1>4 DEF Upto, UptoNext

-----------------------------------------------------------------------------
(* The ledger a worker is at *)

(* What a step must show of the worker that makes it. *)
LEMMA MoverProgress ==
    ASSUME IInv, [Next]_vars, NEW w \in Workers, NEW n \in 1..latest,
           seq'[w] = n, Upto(n - 1),
           pc'[w] \in {"record", "handle", "save"} =>
              \A t \in DOMAIN chain :
                  chain[t].ledger = n => Passed(t)' \/ Queued(w, t)',
           pc'[w] = "handle" =>
              eventRows'[Head(queue'[w]).tx] = Head(queue'[w]).kind
    PROVE  WorkerProgress(w)'
<1>1. latest \in Nat /\ RowsInv
  BY DEF IInv, RowsInv, ChainOK
<1>2. Upto(seq[w] - 1)'
  <2>1. UptoNext(n - 1)
    BY <1>1, UptoStays
  <2> QED
    BY <2>1 DEF Upto, UptoNext
<1>3. ASSUME pc'[w] \in {"record", "handle", "save"},
             NEW t \in DOMAIN chain', chain'[t].ledger = seq'[w]
      PROVE  Passed(t)' \/ Queued(w, t)'
  <2>1. n \in Int /\ n <= latest /\ chain'[t].ledger <= n
    BY <1>1, <1>3
  <2>2. t \in DOMAIN chain /\ chain'[t] = chain[t]
    BY <1>1, <2>1, ClosedLedger
  <2> QED
    BY <1>3, <2>2
<1> QED
  BY <1>2, <1>3 DEF WorkerProgress

LEMMA IdleProgress ==
    ASSUME NEW w \in Workers, pc'[w] \notin Busy
    PROVE  WorkerProgress(w)'
BY DEF WorkerProgress, Busy

LEMMA FetchProgress ==
    ASSUME IInv, [Next]_vars, NEW w \in Workers, Fetch(w)
    PROVE  WorkerProgress(w)'
<1>1. RowsInv /\ WorkerProgress(w) /\ pc[w] = "fetch"
  BY DEF IInv, Progress, Fetch
<1>2. PICK l \in {"save", "record"} :
          /\ Local(w, l, seq[w], to[w], AnswerFrom(seq[w]))
          /\ Sound(l, seq[w], to[w], AnswerFrom(seq[w])) /\ Kept
  BY <1>1, FetchMoves
<1>3. pc'[w] = l /\ seq'[w] = seq[w] /\ queue'[w] = AnswerFrom(seq[w])
  BY <1>1, <1>2, LocalKept DEF RowsInv
<1>4. seq[w] \in 1..latest /\ latest \in Nat /\ Upto(seq[w] - 1)
  BY <1>1, WorkerTypes DEF RowsInv, WorkerProgress, Busy
<1>5. ASSUME NEW t \in DOMAIN chain, chain[t].ledger = seq[w]
      PROVE  Passed(t)' \/ Queued(w, t)'
  <2>1. CASE Crowded(chain[t].ledger) \/ ~Asked(t)
    <3>1. Passed(t)
      BY <2>1 DEF Passed, Settled
    <3> QED
      BY <1>1, <3>1, PassedStays
  <2>2. CASE ~Crowded(chain[t].ledger) /\ Asked(t)
    <3>1. chain[t].ledger <= latest
      BY <1>4, <1>5
    <3>2. \E i \in DOMAIN AnswerFrom(chain[t].ledger) :
              AnswerFrom(chain[t].ledger)[i].tx = t
      BY <1>1, <2>2, <3>1, AnswerComplete DEF RowsInv
    <3> QED
      BY <1>3, <1>5, <3>2 DEF Queued
  <2> QED
    BY <2>1, <2>2
<1> QED
  BY <1>2, <1>3, <1>4, <1>5, MoverProgress

LEMMA RecordProgress ==
    ASSUME IInv, [Next]_vars, NEW w \in Workers, Record(w)
    PROVE  WorkerProgress(w)'
<1>1. RowsInv /\ WorkerProgress(w) /\ pc[w] = "record"
  BY DEF IInv, Progress, Record
<1>2. pc'[w] = "handle" /\ seq'[w] = seq[w] /\ queue'[w] = queue[w]
  BY <1>1, RecordMoves, LocalKept DEF RowsInv
<1>3. seq[w] \in 1..latest /\ queue[w] # <<>> /\ Upto(seq[w] - 1)
  BY <1>1, WorkerTypes DEF RowsInv, WorkerProgress, Busy
<1>4. ASSUME NEW t \in DOMAIN chain, chain[t].ledger = seq[w]
      PROVE  Passed(t)' \/ Queued(w, t)'
  <2>1. Passed(t) \/ Queued(w, t)
    BY <1>1, <1>4 DEF WorkerProgress
  <2>2. Queued(w, t) => Queued(w, t)'
    BY <1>2 DEF Queued
  <2> QED
    BY <1>1, <2>1, <2>2, PassedStays
<1>5. eventRows'[Head(queue'[w]).tx] = Head(queue'[w]).kind
  <2> DEFINE e == Head(queue[w])
  <2>1. e.tx \in Txs
    BY <1>1, <1>3, HeadKind
  <2>2. eventRows' = [eventRows EXCEPT ![e.tx] = e.kind]
    BY DEF Record
  <2>3. DOMAIN eventRows = Txs
    BY <1>1 DEF RowsInv, WorkersOK
  <2>4. eventRows'[e.tx] = e.kind
    BY <2>1, <2>2, <2>3
  <2> QED
    BY <1>2, <2>4
<1> QED
  BY <1>2, <1>3, <1>4, <1>5, MoverProgress

LEMMA HandleProgress ==
    ASSUME IInv, [Next]_vars, NEW w \in Workers, Handle(w) \/ EventFails(w)
    PROVE  WorkerProgress(w)'
<1> DEFINE e == Head(queue[w])
<1>1. RowsInv /\ WorkerProgress(w) /\ pc[w] = "handle" /\ TablesOK
  BY DEF IInv, RowsInv, Progress, Handle, EventFails
<1>2. PICK l \in {"save", "record"} :
          /\ Local(w, l, seq[w], to[w], Tail(queue[w]))
          /\ Sound(l, seq[w], to[w], Tail(queue[w])) /\ Kept
  BY <1>1, HandleMoves
<1>3. pc'[w] = l /\ seq'[w] = seq[w] /\ queue'[w] = Tail(queue[w])
      /\ chain' = chain
  <2> DEFINE q == Tail(queue[w])
  <2>1. Local(w, l, seq[w], to[w], q) /\ Sound(l, seq[w], to[w], q)
    BY <1>2
  <2> HIDE DEF q
  <2>2. pc'[w] = l /\ seq'[w] = seq[w] /\ queue'[w] = q
    BY <1>1, <1>2, <2>1, LocalKept DEF RowsInv
  <2> QED
    BY <2>1, <2>2 DEF Local, network, q
<1>4. seq[w] \in 1..latest /\ queue[w] # <<>> /\ Upto(seq[w] - 1)
      /\ queue[w] \in Seq(ChainRow) /\ IsAnswer(queue[w])
  BY <1>1, WorkerTypes DEF RowsInv, WorkerProgress, Busy
<1>5. /\ e.tx \in DOMAIN chain /\ e.tx \in Txs /\ e \in ChainRow
      /\ e.kind = chain[e.tx].kind /\ eventRows[e.tx] = e.kind
  BY <1>1, <1>4, HeadKind DEF WorkerProgress
<1>6. ASSUME NEW t \in DOMAIN chain, chain[t].ledger = seq[w]
      PROVE  Passed(t)' \/ Queued(w, t)'
  <2>1. CASE Passed(t)
    BY <1>1, <2>1, PassedStays
  <2>2. CASE seq[w] \in swallowed'
    <3>1. chain'[t].ledger \in swallowed'
      BY <1>3, <1>6, <2>2
    <3> QED
      BY <3>1 DEF Passed, Settled
  <2>3. ASSUME NEW i \in DOMAIN queue[w], queue[w][i].tx = t, i # 1
        PROVE  Queued(w, t)'
    <3>1. /\ i - 1 \in DOMAIN Tail(queue[w])
          /\ Tail(queue[w])[i - 1] = queue[w][i]
      BY <1>4, <2>3, TailAnswer
    <3>2. i - 1 \in DOMAIN queue'[w] /\ queue'[w][i - 1].tx = t
      BY <1>3, <2>3, <3>1
    <3> QED
      BY <3>2 DEF Queued
  <2>4. CASE e.tx = t /\ seq[w] \notin swallowed'
    <3>1. ProcessEvent(e) /\ ~HandlerFails(e)
      BY <2>4 DEF Handle, EventFails
    <3> HIDE DEF e
    <3>2. ASSUME e.kind = "bet_placed"
          PROVE  bets'[e.tx] # NoBet
      <4>1. HandleBetPlaced(e)
        BY <3>1, <3>2 DEF ProcessEvent
      <4>2. Stakes(e)
        BY <1>5, <3>1, <3>2, <4>1 DEF Stakes, HandlerFails, ChainRow
      <4> QED
        BY <1>1, <1>5, <4>2, StakedBet
    <3>3. eventRows'[t] = chain[t].kind
      BY <1>1, <1>5, <2>4, RecordsStay
    <3>4. Indexed(t)'
      BY <1>3, <1>5, <2>4, <3>2, <3>3 DEF Indexed
    <3> QED
      BY <3>4 DEF Passed, Settled
  <2>5. ASSUME Queued(w, t) PROVE Queued(w, t)' \/ e.tx = t
    <3>1. PICK i \in DOMAIN queue[w] : queue[w][i].tx = t
      BY <2>5 DEF Queued
    <3>2. e = queue[w][1]
      BY <1>4, TailAnswer
    <3> HIDE DEF e
    <3> QED
      BY <2>3, <3>1, <3>2
  <2>6. Passed(t) \/ Queued(w, t)
    BY <1>1, <1>6 DEF WorkerProgress
  <2> QED
    BY <2>1, <2>2, <2>4, <2>5, <2>6
<1> QED
  BY <1>2, <1>3, <1>4, <1>6, MoverProgress

LEMMA SaveProgress ==
    ASSUME IInv, [Next]_vars, NEW w \in Workers, Save(w)
    PROVE  WorkerProgress(w)'
<1>1. RowsInv /\ pc[w] = "save"
  BY DEF IInv, Save
<1>2. Upto(seq[w]) /\ seq[w] \in 1..latest /\ latest \in Nat
  BY <1>1, SavedUpto DEF RowsInv, ChainOK
<1>3. Kept
  BY <1>1, SaveMoves
<1>4. CASE Local(w, "fetch", seq[w] + 1, to[w], <<>>)
           /\ Sound("fetch", seq[w] + 1, to[w], <<>>)
  <2> DEFINE n == seq[w] + 1
  <2>1. pc'[w] = "fetch" /\ seq'[w] = n
    BY <1>1, <1>3, <1>4, LocalKept DEF RowsInv
  <2>2. n \in 1..latest
    BY <1>4 DEF Sound, Busy
  <2>3. n - 1 = seq[w]
    BY <1>2
  <2> HIDE DEF n
  <2>4. Upto(n - 1)
    BY <1>2, <2>3
  <2> QED
    BY <2>1, <2>2, <2>4, MoverProgress
<1>5. ASSUME NEW l \in {"idle", "down"}, Local(w, l, 0, 0, <<>>),
             Sound(l, 0, 0, <<>>)
      PROVE  WorkerProgress(w)'
  <2>1. pc'[w] = l
    BY <1>1, <1>3, <1>5, LocalKept DEF RowsInv
  <2> QED
    BY <2>1, IdleProgress DEF Busy
<1> QED
  BY <1>1, <1>4, <1>5, SaveMoves

LEMMA LedgerProgress ==
    ASSUME IInv, [Next]_vars, NEW w \in Workers, LedgerFails(w)
    PROVE  WorkerProgress(w)'
<1>1. RowsInv /\ WorkerProgress(w) /\ pc[w] \in Busy
  BY DEF IInv, Progress, LedgerFails, Busy
<1>2. pc'[w] = "save" /\ seq'[w] = seq[w] /\ chain' = chain
  BY <1>1, LedgerMoves, LocalKept DEF RowsInv, Local, network
<1>3. seq[w] \in 1..latest /\ Upto(seq[w] - 1)
  BY <1>1, WorkerTypes DEF RowsInv, WorkerProgress
<1>4. seq[w] \in swallowed'
  BY DEF LedgerFails
<1>5. ASSUME NEW t \in DOMAIN chain, chain[t].ledger = seq[w]
      PROVE  Passed(t)'
  <2>1. chain'[t].ledger \in swallowed'
    BY <1>2, <1>4, <1>5
  <2> QED
    BY <2>1 DEF Passed, Settled
<1> QED
  BY <1>2, <1>3, <1>5, MoverProgress

LEMMA PollProgress ==
    ASSUME IInv, [Next]_vars, Poll
    PROVE  WorkerProgress("poller")'
<1>1. RowsInv /\ "poller" \in Workers /\ Upto(last) /\ last \in Nat
  BY DEF IInv, Progress, RowsInv, WorkersOK, ChainOK, Workers
<1>2. pc'["poller"] = "fetch" /\ seq'["poller"] = last + 1
  BY <1>1, PollMoves, LocalKept DEF RowsInv
<1>3. last + 1 \in 1..latest
  BY <1>1, PollMoves DEF Sound, Busy
<1>4. last + 1 - 1 = last
  BY <1>1
<1>5. Upto(last + 1 - 1)
  BY <1>1, <1>4
<1> QED
  BY <1>1, <1>2, <1>3, <1>5, MoverProgress

LEMMA StartProgress ==
    ASSUME IInv, [Next]_vars, NEW first \in 1..latest, NEW final \in 1..latest,
           StartBackfill(first, final)
    PROVE  WorkerProgress("backfill")'
<1>1. RowsInv /\ "backfill" \in Workers /\ Upto(checkpoint) /\ checkpoint \in Nat
      /\ latest \in Nat
  BY DEF IInv, Progress, RowsInv, WorkersOK, ChainOK, Workers
<1>2. pc'["backfill"] = "fetch" /\ seq'["backfill"] = first
  BY <1>1, StartMoves, LocalKept DEF RowsInv
<1>3. first <= checkpoint + 1 /\ first \in Nat
  BY <1>1 DEF StartBackfill
<1>4. Upto(first - 1)
  <2>1. SUFFICES ASSUME NEW t \in DOMAIN chain, chain[t].ledger <= first - 1
                 PROVE  Passed(t)
    BY DEF Upto
  <2>2. chain[t].ledger \in Nat
    BY <1>1 DEF RowsInv, ChainOK, ChainRow
  <2>3. chain[t].ledger <= checkpoint
    BY <1>1, <1>3, <2>1, <2>2
  <2> QED
    BY <1>1, <2>3 DEF Upto
<1> QED
  BY <1>1, <1>2, <1>4, MoverProgress

LEMMA ProgressStill ==
    ASSUME IInv, [Next]_vars, pc' = pc, seq' = seq, queue' = queue
    PROVE  \A w \in Workers : WorkerProgress(w)'
BY OthersProgress DEF IInv, Progress

(* One worker moves, the others stay. *)
LEMMA ProgressOf ==
    ASSUME IInv, [Next]_vars, NEW w \in Workers, NEW l, NEW n, NEW k, NEW q,
           Local(w, l, n, k, q), Sound(l, n, k, q), Kept, WorkerProgress(w)'
    PROVE  \A x \in Workers : WorkerProgress(x)'
<1>1. \A x \in Workers \ {w} :
          pc'[x] = pc[x] /\ seq'[x] = seq[x] /\ queue'[x] = queue[x]
  BY LocalKept DEF IInv, RowsInv
<1>2. ASSUME NEW x \in Workers \ {w} PROVE WorkerProgress(x)'
  BY <1>1, OthersProgress DEF IInv, Progress
<1> QED
  BY <1>2

(* The same of a worker that has nothing to do after the step. *)
LEMMA ProgressIdle ==
    ASSUME IInv, [Next]_vars, NEW w \in Workers, NEW l \in Labels \ Busy,
           NEW n, NEW k, NEW q, Local(w, l, n, k, q), Sound(l, n, k, q), Kept
    PROVE  \A x \in Workers : WorkerProgress(x)'
<1>1. pc'[w] = l
  BY LocalKept DEF IInv, RowsInv
<1>2. WorkerProgress(w)'
  BY <1>1, IdleProgress
<1> QED
  BY <1>2, ProgressOf

LEMMA WorkersNext ==
    ASSUME IInv, [Next]_vars
    PROVE  \A w \in Workers : WorkerProgress(w)'
<1> DEFINE Goal == \A w \in Workers : WorkerProgress(w)'
<1>a. RowsInv /\ "poller" \in Workers /\ "backfill" \in Workers
  BY DEF IInv, Workers
<1>b. {"boot", "resume", "idle", "down"} \subseteq Labels \ Busy
  BY DEF Labels, Busy
<1>1. CASE \E e \in Events : Emit(e)
  BY <1>1, ProgressStill DEF Emit, worker
<1>2. CASE CloseLedger
  BY <1>2, ProgressStill DEF CloseLedger, worker
<1>3. CASE Boot
  BY <1>a, <1>b, <1>3, BootMoves, ProgressIdle
<1>4. CASE LoadCheckpoint
  BY <1>a, <1>b, <1>4, LoadMoves, ProgressIdle
<1>5. CASE BackfillFromLedger
  BY <1>a, <1>b, <1>5, ResumeMoves, ProgressIdle
<1>6. CASE Poll
  BY <1>a, <1>6, PollMoves, PollProgress, ProgressOf
<1>7. ASSUME NEW first \in 1..latest, NEW final \in 1..latest,
             StartBackfill(first, final)
      PROVE  Goal
  BY <1>a, <1>7, StartMoves, StartProgress, ProgressOf
<1>8. CASE \E t \in DOMAIN chain : Stream(t)
  BY <1>8, ProgressStill DEF Stream, worker
<1>9. ASSUME NEW w \in Workers, Fetch(w) PROVE Goal
  BY <1>a, <1>9, FetchMoves, FetchProgress, ProgressOf
<1>10. ASSUME NEW w \in Workers, Record(w) PROVE Goal
  BY <1>a, <1>10, RecordMoves, RecordProgress, ProgressOf
<1>11. ASSUME NEW w \in Workers, Handle(w) \/ EventFails(w) PROVE Goal
  BY <1>a, <1>11, HandleMoves, HandleProgress, ProgressOf
<1>12. ASSUME NEW w \in Workers, Save(w) PROVE Goal
  BY <1>a, <1>12, SaveMoves, SaveProgress, ProgressOf
<1>13. ASSUME NEW w \in Workers, LedgerFails(w) PROVE Goal
  BY <1>a, <1>13, LedgerMoves, LedgerProgress, ProgressOf
<1>14. ASSUME NEW w \in Workers, Crash(w) PROVE Goal
  BY <1>a, <1>b, <1>14, CrashMoves, ProgressIdle
<1>15. CASE UNCHANGED vars
  BY <1>15, ProgressStill DEF vars, worker
<1> HIDE DEF Goal
<1>16. Goal
  BY <1>7, <1>9, <1>10, <1>11, <1>12, <1>13, <1>14, <1>1, <1>2, <1>3, <1>4, <1>5,
     <1>6, <1>8, <1>15, Steps, Zenon DEF Goal
<1> QED
  BY <1>16 DEF Goal

(* A poller that is to resume has its ledger from the checkpoint. *)
LEMMA ResumeNext ==
    ASSUME IInv, [Next]_vars, pc'["poller"] = "resume"
    PROVE  Upto(to["poller"])'
<1>a. /\ RowsInv /\ ChainOK /\ WorkersOK /\ "poller" \in Workers /\ latest \in Nat
      /\ checkpoint \in 0..latest /\ Upto(checkpoint)
  BY DEF IInv, RowsInv, Progress, ChainOK, WorkersOK, Workers
<1>b. ASSUME NEW l \in 0..latest, to'["poller"] = l, Upto(l)
      PROVE  Upto(to["poller"])'
  <2>1. UptoNext(l)
    BY <1>a, <1>b, UptoStays
  <2> QED
    BY <1>b, <2>1 DEF Upto, UptoNext
<1>c. ASSUME pc'["poller"] = pc["poller"], to'["poller"] = to["poller"]
      PROVE  Upto(to["poller"])'
  <2>1. to["poller"] \in 0..latest /\ Upto(to["poller"])
    BY <1>a, <1>c, WorkerTypes DEF IInv, Progress
  <2> QED
    BY <1>b, <1>c, <2>1
<1>d. ASSUME NEW w \in Workers, NEW l, NEW n, NEW k, NEW q,
             Local(w, l, n, k, q), Sound(l, n, k, q), Kept, l # "resume"
      PROVE  Upto(to["poller"])'
  <2>1. w # "poller"
    BY <1>a, <1>d, LocalKept
  <2>2. pc'["poller"] = pc["poller"] /\ to'["poller"] = to["poller"]
    BY <1>a, <1>d, <2>1, LocalKept
  <2> QED
    BY <1>c, <2>2
<1>1. CASE \E e \in Events : Emit(e)
  BY <1>1, <1>c DEF Emit, worker
<1>2. CASE CloseLedger
  BY <1>2, <1>c DEF CloseLedger, worker
<1>3. CASE Boot
  BY <1>a, <1>d, <1>3, BootMoves
<1>4. CASE LoadCheckpoint
  <2>1. PICK l \in {"resume", "idle"}, k \in {checkpoint, to["poller"]} :
            /\ Local("poller", l, seq["poller"], k, queue["poller"])
            /\ Sound(l, seq["poller"], k, queue["poller"])
            /\ Kept
            /\ l = "resume" => k = checkpoint
    BY <1>a, <1>4, LoadMoves
  <2>2. pc'["poller"] = l /\ to'["poller"] = k
    BY <1>a, <2>1, LocalKept
  <2> QED
    BY <1>a, <1>b, <2>1, <2>2
<1>5. CASE BackfillFromLedger
  BY <1>a, <1>d, <1>5, ResumeMoves
<1>6. CASE Poll
  BY <1>a, <1>d, <1>6, PollMoves
<1>7. ASSUME NEW first \in 1..latest, NEW final \in 1..latest,
             StartBackfill(first, final)
      PROVE  Upto(to["poller"])'
  <2>1. "backfill" \in Workers
    BY DEF Workers
  <2> QED
    BY <1>a, <1>d, <1>7, <2>1, StartMoves
<1>8. CASE \E t \in DOMAIN chain : Stream(t)
  BY <1>8, <1>c DEF Stream, worker
<1>9. ASSUME NEW w \in Workers, Fetch(w) PROVE Upto(to["poller"])'
  <2>1. PICK l \in {"save", "record"} :
            /\ Local(w, l, seq[w], to[w], AnswerFrom(seq[w]))
            /\ Sound(l, seq[w], to[w], AnswerFrom(seq[w])) /\ Kept
    BY <1>a, <1>9, FetchMoves
  <2> QED
    BY <1>d, <2>1
<1>10. ASSUME NEW w \in Workers, Record(w) PROVE Upto(to["poller"])'
  BY <1>a, <1>d, <1>10, RecordMoves
<1>11. ASSUME NEW w \in Workers, Handle(w) \/ EventFails(w) PROVE Upto(to["poller"])'
  <2>1. PICK l \in {"save", "record"} :
            /\ Local(w, l, seq[w], to[w], Tail(queue[w]))
            /\ Sound(l, seq[w], to[w], Tail(queue[w])) /\ Kept
    BY <1>a, <1>11, HandleMoves
  <2> QED
    BY <1>d, <2>1
<1>12. ASSUME NEW w \in Workers, Save(w) PROVE Upto(to["poller"])'
  BY <1>a, <1>d, <1>12, SaveMoves
<1>13. ASSUME NEW w \in Workers, LedgerFails(w) PROVE Upto(to["poller"])'
  BY <1>a, <1>d, <1>13, LedgerMoves
<1>14. ASSUME NEW w \in Workers, Crash(w) PROVE Upto(to["poller"])'
  BY <1>a, <1>d, <1>14, CrashMoves
<1>15. CASE UNCHANGED vars
  BY <1>15, <1>c DEF vars, worker
<1> QED
  BY <1>1, <1>2, <1>3, <1>4, <1>5, <1>6, <1>7, <1>8, <1>9, <1>10, <1>11, <1>12,
     <1>13, <1>14, <1>15, Steps, Zenon

LEMMA IndexerNext ==
    ASSUME IInv, [Next]_vars
    PROVE  IInv'
<1>1. RowsInv'
  BY RowsNext DEF IInv
<1>2. \A w \in Workers : WorkerProgress(w)'
  BY WorkersNext
<1>3. pc'["poller"] = "resume" => Upto(to["poller"])'
  BY ResumeNext
<1>4. Upto(checkpoint)' /\ Upto(last)'
  BY CheckpointUpto
<1> QED
  BY <1>1, <1>2, <1>3, <1>4 DEF IInv, Progress

LEMMA IndexerInit ==
    ASSUME Init
    PROVE  IInv
<1>1. RowsInv
  BY RowsInit
<1>2. chain = <<>> /\ \A w \in Workers : pc[w] = "down"
  BY DEF Init
<1>3. DOMAIN chain = {}
  BY <1>2
<1>4. \A l : Upto(l)
  BY <1>3 DEF Upto
<1> QED
  BY <1>1, <1>2, <1>3, <1>4 DEF IInv, Progress, WorkerProgress, Workers, Busy

(* What the checkpoint has passed is on record, unless an error was         *)
(* swallowed in that ledger or its events did not fit into one answer:      *)
(* crashes between any two steps, and backfills, lose nothing (startIndexer,*)
(* backfillLedgerRange, saveCheckpoint).  It holds of the events asked for, *)
(* whichever contracts the request names.                                   *)
THEOREM AlwaysCheckpointHonest == Spec => []CheckpointHonest
<1>1. IInv /\ [Next]_vars => IInv'
  BY IndexerNext
<1>2. IInv => CheckpointHonest
  BY DEF IInv, Progress, Upto, Passed, CheckpointHonest
<1> QED
  BY <1>1, <1>2, IndexerInit, PTL DEF Spec

==============================================================================
