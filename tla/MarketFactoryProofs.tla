------------------------- MODULE MarketFactoryProofs -------------------------
(***************************************************************************)
(* Theorems about the factory, for any set of administrators, any code and *)
(* any configurations tried, however many markets there are: of what       *)
(* create_market accepts and who is nominated, and of the lists that it    *)
(* keeps and pages.  The inductions over a list's positions are over sets  *)
(* of numbers (NatSetInduction).                                           *)
(***************************************************************************)
EXTENDS MarketFactory, SumTheorems

(* What the argument needs to know of the state: the markets are records    *)
(* made by create_market.                                                   *)
MarketsTyped == markets \in Seq(MarketRecord)

IInv == MarketsTyped /\ MarketsWellConfigured /\ NominationIsCurrent

LEMMA CreateMarketStep ==
    ASSUME IInv,
           NEW s \in Schedules, NEW min \in BetLimits, NEW max \in BetLimits,
           NEW f \in Fees, NEW override \in Fees \cup {NoFee},
           CreateMarket(s, min, max, f, override), wasm \in Wasms \cup {NoWasm}
    PROVE  MarketsTyped' /\ MarketsWellConfigured'
<1> DEFINE fee == FeeInForce(f, override)
           new == [status |-> "Open", code |-> wasm, scheduledAt |-> s,
                   min |-> min, max |-> max, fee |-> fee]
<1>1. fee \in Fees /\ fee <= 1000
  BY DEF CreateMarket, FeeAccepted, FeeInForce
<1>2. min # 0 /\ min <= max
  BY FactoryInputs DEF CreateMarket, LimitsAccepted
<1>3. new \in MarketRecord
  BY <1>1 DEF CreateMarket, MarketRecord, Statuses
<1>4. markets' = Append(markets, new) /\ markets \in Seq(MarketRecord)
  BY DEF CreateMarket, IInv, MarketsTyped
<1>5. new.min = min /\ new.max = max /\ new.fee = fee
  OBVIOUS
<1> HIDE DEF new, fee
<1>6. /\ MarketsTyped' /\ Len(markets') = Len(markets) + 1
      /\ markets'[Len(markets) + 1] = new
      /\ \A i \in 1..Len(markets) : markets'[i] = markets[i]
  BY <1>3, <1>4 DEF MarketsTyped
<1>7. ASSUME NEW id \in MarketIds'
      PROVE  /\ markets'[id + 1].min # 0
             /\ markets'[id + 1].min <= markets'[id + 1].max
             /\ markets'[id + 1].fee <= 1000
  <2>1. id \in 0..Len(markets) /\ Len(markets) \in Nat
    BY <1>4, <1>6 DEF MarketIds, count
  <2>2. CASE id = Len(markets)
    BY <1>1, <1>2, <1>5, <1>6, <2>2
  <2>3. CASE id # Len(markets)
    <3>1. id \in MarketIds /\ id + 1 \in 1..Len(markets)
      BY <2>1, <2>3 DEF MarketIds, count
    <3>2. /\ markets[id + 1].min # 0
          /\ markets[id + 1].min <= markets[id + 1].max
          /\ markets[id + 1].fee <= 1000
      BY <3>1 DEF IInv, MarketsWellConfigured, MarketAt
    <3>3. QED
      BY <1>6, <3>1, <3>2
  <2>4. QED
    BY <2>2, <2>3
<1>8. QED
  BY <1>6, <1>7 DEF MarketsWellConfigured, MarketAt

LEMMA MarketMovesStep ==
    ASSUME IInv, NEW id \in MarketIds, NEW st \in Statuses, MarketMoves(id, st)
    PROVE  MarketsTyped' /\ MarketsWellConfigured'
<1>1. /\ markets \in Seq(MarketRecord) /\ id + 1 \in 1..Len(markets)
      /\ markets' = [markets EXCEPT ![id + 1].status = st]
  BY DEF IInv, MarketsTyped, MarketMoves, MarketIds, count
<1>2. markets[id + 1] \in MarketRecord
  BY <1>1
<1>3. [markets[id + 1] EXCEPT !.status = st] \in MarketRecord
  BY <1>2 DEF MarketRecord
<1>4. /\ MarketsTyped' /\ Len(markets') = Len(markets)
      /\ \A i \in 1..Len(markets) :
            /\ markets'[i].min = markets[i].min
            /\ markets'[i].max = markets[i].max
            /\ markets'[i].fee = markets[i].fee
  <2>1. markets' = [markets EXCEPT ![id + 1] =
                      [markets[id + 1] EXCEPT !.status = st]]
    BY <1>1
  <2>2. markets' \in Seq(MarketRecord) /\ Len(markets') = Len(markets)
    BY <1>1, <1>3, <2>1
  <2>3. ASSUME NEW i \in 1..Len(markets)
        PROVE  /\ markets'[i].min = markets[i].min
               /\ markets'[i].max = markets[i].max
               /\ markets'[i].fee = markets[i].fee
    <3>1. CASE i = id + 1
      BY <1>1, <1>2, <2>1, <3>1 DEF MarketRecord
    <3>2. CASE i # id + 1
      BY <1>1, <2>1, <3>2
    <3>3. QED
      BY <3>1, <3>2
  <2>4. QED
    BY <2>2, <2>3 DEF MarketsTyped
<1>5. MarketIds' = MarketIds
  BY <1>4 DEF MarketIds, count
<1>6. ASSUME NEW k \in MarketIds
      PROVE  /\ markets'[k + 1].min # 0
             /\ markets'[k + 1].min <= markets'[k + 1].max
             /\ markets'[k + 1].fee <= 1000
  <2>1. k + 1 \in 1..Len(markets)
    BY <1>1 DEF MarketIds, count
  <2>2. QED
    BY <1>4, <2>1 DEF IInv, MarketsWellConfigured, MarketAt
<1>7. QED
  BY <1>4, <1>5, <1>6 DEF MarketsWellConfigured, MarketAt

(* Only the handover touches who administers and who is nominated.          *)
LEMMA NominationStep ==
    ASSUME NominationIsCurrent, [FactoryNext]_factoryVars
    PROVE  NominationIsCurrent'
<1> USE DEF roles, NominationIsCurrent
<1>1. CASE UNCHANGED roles
  BY <1>1
<1>2. ASSUME NEW a \in Admins, ProposeAdmin(a)
      PROVE  NominationIsCurrent'
  BY <1>2 DEF ProposeAdmin
<1>3. CASE AcceptAdmin
  BY <1>3 DEF AcceptAdmin, PendingCleared
<1>4. QED
  BY <1>1, <1>2, <1>3
     DEF FactoryNext, factoryVars, UpdateMarketWasm, UpgradeAllMarkets, CreateMarket,
         RemoveOpenMarket, MarketMoves, AddOracle, RemoveOracle, PauseFactory,
         UnpauseFactory, FactoryTick

WasmOK == wasm \in Wasms \cup {NoWasm}

LEMMA WasmStep ==
    ASSUME WasmOK, [FactoryNext]_factoryVars
    PROVE  WasmOK'
  BY DEF WasmOK, FactoryNext, factoryVars, UpdateMarketWasm, UpgradeAllMarkets, CreateMarket,
         RemoveOpenMarket, MarketMoves, AddOracle, RemoveOracle, ProposeAdmin,
         AcceptAdmin, PauseFactory, UnpauseFactory, FactoryTick

LEMMA MarketsStep ==
    ASSUME IInv, WasmOK, [FactoryNext]_factoryVars
    PROVE  MarketsTyped' /\ MarketsWellConfigured'
<1>1. CASE UNCHANGED markets
  BY <1>1
     DEF IInv, MarketsTyped, MarketsWellConfigured, MarketIds, MarketAt, count
<1>2. QED
  BY <1>1, CreateMarketStep, MarketMovesStep
     DEF WasmOK, FactoryNext, factoryVars, UpdateMarketWasm, UpgradeAllMarkets,
         RemoveOpenMarket, AddOracle, RemoveOracle, ProposeAdmin, AcceptAdmin,
         PauseFactory, UnpauseFactory, FactoryTick

LEMMA FactoryInductive == FactorySpec => [](IInv /\ WasmOK)
<1>1. FactoryInit => IInv /\ WasmOK
  BY DEF FactoryInit, IInv, WasmOK, MarketsTyped, MarketsWellConfigured, MarketIds,
         count, NominationIsCurrent
<1>2. IInv /\ WasmOK /\ [FactoryNext]_factoryVars => (IInv /\ WasmOK)'
  BY MarketsStep, NominationStep, WasmStep DEF IInv
<1>3. QED
  BY <1>1, <1>2, PTL DEF FactorySpec

(* Every market create_market accepts has the limits and the fee that the   *)
(* market contract's own theorems assume (Market.tla, ConfigAssumption).    *)
THEOREM MarketsAlwaysWellConfigured == FactorySpec => []MarketsWellConfigured
<1>1. IInv => MarketsWellConfigured
  BY DEF IInv
<1>2. QED
  BY <1>1, FactoryInductive, PTL

(* A pending nomination is always the current administrator's own: none     *)
(* survives a handover (propose_admin, accept_admin).                       *)
THEOREM NominationAlwaysCurrent == FactorySpec => []NominationIsCurrent
<1>1. FactoryInit => NominationIsCurrent
  BY DEF FactoryInit, NominationIsCurrent
<1>2. NominationIsCurrent /\ [FactoryNext]_factoryVars => NominationIsCurrent'
  BY NominationStep
<1>3. QED
  BY <1>1, <1>2, PTL DEF FactorySpec

-----------------------------------------------------------------------------
(* The open list without an id                                              *)

(* The lists that remove_open_market's loop builds, one for every position. *)
Copies(g, list, id, n) ==
    g = [k \in 0..n |-> IF k = 0 THEN <<>>
                        ELSE IF list[k] = id THEN g[k - 1]
                        ELSE Append(g[k - 1], list[k])]

Occurs(v, list) == \E j \in DOMAIN list : list[j] = v
NoneTwice(list) == \A j, k \in DOMAIN list : list[j] = list[k] => j = k

LEMMA CopiesExist ==
    ASSUME NEW list, NEW id, NEW n \in Nat
    PROVE  \E g : Copies(g, list, id, n)
<1> DEFINE P == {m \in Nat : \E g : Copies(g, list, id, m)}
<1>1. 0 \in P
  <2> DEFINE g == [k \in 0..0 |-> <<>>]
  <2>1. Copies(g, list, id, 0)
    BY DEF Copies
  <2> QED
    BY <2>1
<1>2. ASSUME NEW m \in P
      PROVE  m + 1 \in P
  <2>1. PICK g : Copies(g, list, id, m)
    OBVIOUS
  <2> DEFINE last == IF list[m + 1] = id THEN g[m] ELSE Append(g[m], list[m + 1])
             h == [k \in 0..(m + 1) |-> IF k = m + 1 THEN last ELSE g[k]]
  <2>2. ASSUME NEW k \in 0..(m + 1)
        PROVE  h[k] = IF k = 0 THEN <<>>
                      ELSE IF list[k] = id THEN h[k - 1]
                      ELSE Append(h[k - 1], list[k])
    <3>1. CASE k = m + 1
      <4>1. h[k] = last /\ h[k - 1] = g[m] /\ k # 0
        BY <3>1
      <4> QED
        BY <3>1, <4>1
    <3>2. CASE k \in 0..m
      <4>1. h[k] = g[k] /\ (k # 0 => h[k - 1] = g[k - 1])
        BY <3>2
      <4>2. g[k] = IF k = 0 THEN <<>>
                   ELSE IF list[k] = id THEN g[k - 1]
                   ELSE Append(g[k - 1], list[k])
        BY <2>1, <3>2 DEF Copies
      <4> HIDE DEF h
      <4> QED
        BY <4>1, <4>2
    <3> QED
      BY <3>1, <3>2
  <2>3. Copies(h, list, id, m + 1)
    <3>1. DOMAIN h = 0..(m + 1) /\ h = [k \in 0..(m + 1) |-> h[k]]
      OBVIOUS
    <3> HIDE DEF h
    <3> QED
      BY <2>2, <3>1 DEF Copies
  <2> QED
    BY <2>3
<1>3. P = Nat
  <2> HIDE DEF P
  <2> QED
    BY <1>1, <1>2, NatSetInduction DEF P
<1> QED
  BY <1>3

(* What a copy has of the list: all but the id, in no greater number, and   *)
(* nothing twice that was not there twice.                                  *)
CopyOf(copy, list, id, S, n) ==
    /\ copy \in Seq(S) /\ Len(copy) <= n
    /\ \A v : Occurs(v, copy) <=> v # id /\ \E j \in 1..n : list[j] = v
    /\ NoneTwice(list) => NoneTwice(copy)

LEMMA CopyAppend ==
    ASSUME NEW S, NEW list \in Seq(S), NEW id, NEW n \in Nat, n + 1 <= Len(list),
           NEW copy, CopyOf(copy, list, id, S, n), list[n + 1] # id
    PROVE  CopyOf(Append(copy, list[n + 1]), list, id, S, n + 1)
<1> DEFINE e == list[n + 1]
           longer == Append(copy, e)
<1>1. copy \in Seq(S) /\ e \in S /\ Len(copy) \in Nat /\ Len(copy) <= n
  BY DEF CopyOf
<1>2. /\ longer \in Seq(S) /\ Len(longer) = Len(copy) + 1
      /\ DOMAIN longer = 1..Len(copy) + 1 /\ DOMAIN copy = 1..Len(copy)
      /\ \A j \in 1..Len(copy) : longer[j] = copy[j]
      /\ longer[Len(copy) + 1] = e
  BY <1>1
<1> HIDE DEF longer, e
<1>3. ASSUME NEW v
      PROVE  Occurs(v, longer) <=> v # id /\ \E j \in 1..n + 1 : list[j] = v
  <2>1. Occurs(v, longer) <=> Occurs(v, copy) \/ v = e
    BY <1>1, <1>2 DEF Occurs
  <2>2. (\E j \in 1..n + 1 : list[j] = v) <=> v = e \/ \E j \in 1..n : list[j] = v
    <3>1. \A j : j \in 1..n + 1 <=> j \in 1..n \/ j = n + 1
      OBVIOUS
    <3> QED
      BY <3>1 DEF e
  <2>3. Occurs(v, copy) <=> v # id /\ \E j \in 1..n : list[j] = v
    BY DEF CopyOf
  <2>4. e # id
    BY DEF e
  <2> QED
    BY <2>1, <2>2, <2>3, <2>4
<1>4. NoneTwice(list) => NoneTwice(longer)
  <2> SUFFICES ASSUME NoneTwice(list) PROVE NoneTwice(longer)
    OBVIOUS
  <2>1. ~Occurs(e, copy)
    <3>1. SUFFICES ASSUME NEW j \in 1..n, list[j] = e PROVE FALSE
      BY DEF CopyOf
    <3>2. j \in DOMAIN list /\ n + 1 \in DOMAIN list
      OBVIOUS
    <3>3. j = n + 1
      BY <3>1, <3>2 DEF NoneTwice, e
    <3> QED
      BY <3>3
  <2>2. NoneTwice(copy)
    BY DEF CopyOf
  <2> QED
    BY <1>1, <1>2, <2>1, <2>2 DEF NoneTwice, Occurs
<1> QED
  BY <1>1, <1>2, <1>3, <1>4 DEF CopyOf, longer, e

LEMMA CopySkip ==
    ASSUME NEW S, NEW list \in Seq(S), NEW id, NEW n \in Nat, n + 1 <= Len(list),
           NEW copy, CopyOf(copy, list, id, S, n), list[n + 1] = id
    PROVE  CopyOf(copy, list, id, S, n + 1)
<1>1. \A j : j \in 1..n + 1 <=> j \in 1..n \/ j = n + 1
  OBVIOUS
<1>2. copy \in Seq(S) /\ Len(copy) <= n + 1
  BY DEF CopyOf
<1>3. ASSUME NEW v
      PROVE  Occurs(v, copy) <=> v # id /\ \E j \in 1..n + 1 : list[j] = v
  BY <1>1 DEF CopyOf
<1> QED
  BY <1>2, <1>3 DEF CopyOf

LEMMA CopyIs ==
    ASSUME NEW S, NEW list \in Seq(S), NEW id, NEW g,
           Copies(g, list, id, Len(list))
    PROVE  CopyOf(g[Len(list)], list, id, S, Len(list))
<1> DEFINE P == {n \in Nat : n <= Len(list) => CopyOf(g[n], list, id, S, n)}
<1>0. Len(list) \in Nat
  OBVIOUS
<1>1. 0 \in P
  <2>1. g[0] = <<>>
    BY <1>0 DEF Copies
  <2>2. <<>> \in Seq(S) /\ Len(<<>>) <= 0 /\ DOMAIN <<>> = {} /\ 1..0 = {}
    OBVIOUS
  <2>3. \A v : Occurs(v, <<>>) <=> v # id /\ \E j \in 1..0 : list[j] = v
    BY <2>2 DEF Occurs
  <2>4. NoneTwice(<<>>)
    BY <2>2 DEF NoneTwice
  <2>5. CopyOf(<<>>, list, id, S, 0)
    BY <2>2, <2>3, <2>4 DEF CopyOf
  <2> QED
    BY <2>1, <2>5
<1>2. ASSUME NEW n \in P
      PROVE  n + 1 \in P
  <2> SUFFICES ASSUME n + 1 <= Len(list)
               PROVE  CopyOf(g[n + 1], list, id, S, n + 1)
    OBVIOUS
  <2>1. n \in Nat /\ CopyOf(g[n], list, id, S, n)
    BY <1>0
  <2>2. g[n + 1] = IF list[n + 1] = id THEN g[n] ELSE Append(g[n], list[n + 1])
    <3>1. n + 1 \in 0..Len(list) /\ n + 1 # 0 /\ (n + 1) - 1 = n
      BY <1>0, <2>1
    <3> QED
      BY <3>1 DEF Copies
  <2> HIDE DEF P
  <2> QED
    BY <2>1, <2>2, CopyAppend, CopySkip
<1>3. P = Nat
  <2> HIDE DEF P
  <2> QED
    BY <1>1, <1>2, NatSetInduction DEF P
<1> QED
  BY <1>0, <1>3

(* What remove_open_market leaves on the list.                              *)
LEMMA WithoutIs ==
    ASSUME NEW S, openMarkets \in Seq(S), NEW id
    PROVE  CopyOf(Without(id), openMarkets, id, S, Len(openMarkets))
<1> DEFINE g == CHOOSE g : Copies(g, openMarkets, id, Len(openMarkets))
<1>1. Len(openMarkets) \in Nat
  OBVIOUS
<1>2. Copies(g, openMarkets, id, Len(openMarkets))
  <2>1. \E f : Copies(f, openMarkets, id, Len(openMarkets))
    BY <1>1, CopiesExist
  <2> QED
    BY <2>1
<1>3. Without(id) = g[Len(openMarkets)]
  BY DEF Without, Copies
<1> HIDE DEF g
<1> QED
  BY <1>2, <1>3, CopyIs

-----------------------------------------------------------------------------
(* Pages put end to end                                                     *)

(* The k-th page of a list.                                                 *)
Page(list, size, k) ==
    SubSeq(list, (k - 1) * size + 1, AtMost(k * size, Len(list)))

Upto(list, m) == SubSeq(list, 1, AtMost(m, Len(list)))

(* A part of a list, as a function.                                         *)
LEMMA Part ==
    ASSUME NEW S, NEW list \in Seq(S), NEW a \in Nat, NEW b \in Nat, b <= Len(list)
    PROVE  LET part == SubSeq(list, a + 1, b)
           IN  /\ part \in Seq(S)
               /\ Len(part) = IF a <= b THEN b - a ELSE 0
               /\ DOMAIN part = 1..Len(part)
               /\ \A i \in 1..Len(part) : part[i] = list[a + i]
<1> DEFINE part == SubSeq(list, a + 1, b)
<1>1. CASE a <= b
  BY <1>1
<1>2. CASE b < a
  <2>1. part = <<>>
    BY <1>2
  <2> QED
    BY <1>2, <2>1
<1> QED
  BY <1>1, <1>2

LEMMA OnePageMore ==
    ASSUME NEW S, NEW list \in Seq(S), NEW a \in Nat, NEW size \in Nat
    PROVE  Upto(list, a) \o SubSeq(list, a + 1, AtMost(a + size, Len(list)))
             = Upto(list, a + size)
<1> DEFINE n == Len(list)
           b == AtMost(a + size, n)
           front == Upto(list, a)
           page == SubSeq(list, a + 1, b)
           both == Upto(list, a + size)
<1>1. n \in Nat /\ b \in Nat /\ b <= n /\ AtMost(a, n) \in Nat /\ AtMost(a, n) <= n
  BY DEF AtMost
<1>2. /\ front \in Seq(S) /\ Len(front) = AtMost(a, n)
      /\ \A i \in 1..Len(front) : front[i] = list[i]
  BY <1>1, Part DEF Upto
<1>3. /\ page \in Seq(S) /\ Len(page) = IF a <= b THEN b - a ELSE 0
      /\ \A i \in 1..Len(page) : page[i] = list[a + i]
  BY <1>1, Part
<1>4. /\ both \in Seq(S) /\ Len(both) = b
      /\ \A i \in 1..Len(both) : both[i] = list[i]
  BY <1>1, Part DEF Upto
<1>5. b = IF a + size <= n THEN a + size ELSE n
  BY DEF AtMost
<1>6. AtMost(a, n) = IF a <= n THEN a ELSE n
  BY DEF AtMost
<1> HIDE DEF b, front, page, both, n
<1>7. Len(front) + Len(page) = Len(both)
  BY <1>1, <1>2, <1>3, <1>4, <1>5, <1>6
<1>8. ASSUME NEW i \in 1..Len(both)
      PROVE  (front \o page)[i] = both[i]
  <2>1. CASE i <= Len(front)
    BY <1>2, <1>3, <1>4, <2>1
  <2>2. CASE i > Len(front)
    <3>1. Len(front) = a /\ i - a \in 1..Len(page)
      BY <1>1, <1>2, <1>3, <1>4, <1>5, <1>6, <1>7, <2>2
    <3>2. (front \o page)[i] = page[i - a]
      <4>1. i \in 1..Len(front) + Len(page)
        BY <1>7
      <4>2. (front \o page)[i] = page[i - Len(front)]
        BY <1>2, <1>3, <2>2, <4>1
      <4> QED
        BY <3>1, <4>2
    <3>3. page[i - a] = list[a + (i - a)]
      BY <1>3, <3>1
    <3> QED
      BY <1>4, <3>1, <3>2, <3>3
  <2>3. i <= Len(front) \/ i > Len(front)
    BY <1>2, <1>4
  <2> QED
    BY <2>1, <2>2, <2>3, Zenon
<1>9. front \o page \in Seq(S) /\ Len(front \o page) = Len(both)
  BY <1>2, <1>3, <1>7
<1>10. front \o page = both
  BY <1>4, <1>8, <1>9
<1> QED
  BY <1>10 DEF front, page, both, b, n

(* The running concatenation that FlattenSeq takes the last of.             *)
Joined(f, seqs) ==
    f = [i \in 1..Len(seqs) |-> IF i = 1 THEN seqs[i] ELSE f[i - 1] \o seqs[i]]

LEMMA OneTimeMore ==
    ASSUME NEW i \in Nat \ {0}, NEW m \in Nat
    PROVE  (i - 1) * m \in Nat /\ i * m = (i - 1) * m + m
OBVIOUS

LEMMA PagesJoin ==
    ASSUME NEW S, NEW list \in Seq(S), NEW size \in Nat \ {0}, NEW n \in Nat \ {0},
           Len(list) <= n
    PROVE  FlattenSeq([k \in 1..n |-> Page(list, size, k)]) = list
<1> DEFINE pages == [k \in 1..n |-> Page(list, size, k)]
           fronts == [i \in 1..n |-> Upto(list, i * size)]
<1>1. Len(pages) = n /\ Len(list) \in Nat
  OBVIOUS
<1>2. pages[1] = Upto(list, size)
  <2>1. pages[1] = Page(list, size, 1)
    OBVIOUS
  <2>2. (1 - 1) * size + 1 = 1 /\ 1 * size = size
    OBVIOUS
  <2> QED
    BY <2>1, <2>2 DEF Page, Upto
<1>3. ASSUME NEW i \in 2..n
      PROVE  Upto(list, (i - 1) * size) \o pages[i] = Upto(list, i * size)
  <2> DEFINE a == (i - 1) * size
  <2>1. a \in Nat /\ i * size = a + size
    BY OneTimeMore
  <2>4. pages[i] = Page(list, size, i)
    OBVIOUS
  <2> HIDE DEF pages
  <2>5. pages[i] = SubSeq(list, a + 1, AtMost(i * size, Len(list)))
    BY <2>4 DEF Page
  <2> HIDE DEF a
  <2>2. pages[i] = SubSeq(list, a + 1, AtMost(a + size, Len(list)))
    BY <2>1, <2>5
  <2>3. Upto(list, a) \o pages[i] = Upto(list, a + size)
    BY <2>1, <2>2, OnePageMore
  <2> QED
    BY <2>1, <2>3 DEF a
<1> HIDE DEF pages
<1>4. Joined(fronts, pages)
  <2>1. ASSUME NEW i \in 1..n
        PROVE  fronts[i] = IF i = 1 THEN pages[i] ELSE fronts[i - 1] \o pages[i]
    <3>1. CASE i = 1
      <4>1. 1 * size = size
        OBVIOUS
      <4> QED
        BY <1>2, <3>1, <4>1
    <3>2. CASE i # 1
      <4>1. i \in 2..n /\ i - 1 \in 1..n
        BY <3>2
      <4> QED
        BY <1>3, <3>2, <4>1
    <3> QED
      BY <3>1, <3>2
  <2>2. fronts = [i \in 1..n |-> fronts[i]]
    OBVIOUS
  <2> HIDE DEF fronts
  <2> QED
    BY <1>1, <2>1, <2>2 DEF Joined
<1>5. ASSUME NEW f, Joined(f, pages)
      PROVE  f[n] = Upto(list, n * size)
  <2> DEFINE P == {i \in Nat : i + 1 <= n => f[i + 1] = Upto(list, (i + 1) * size)}
  <2>1. \A i \in 1..n : f[i] = IF i = 1 THEN pages[i] ELSE f[i - 1] \o pages[i]
    BY <1>1, <1>5 DEF Joined
  <2>2. 0 \in P
    <3>1. (0 + 1) * size = size /\ 0 + 1 = 1
      OBVIOUS
    <3> QED
      BY <1>2, <2>1, <3>1
  <2>3. ASSUME NEW i \in P
        PROVE  i + 1 \in P
    <3> SUFFICES ASSUME i + 2 <= n
                 PROVE  f[i + 2] = Upto(list, (i + 2) * size)
      <4>1. (i + 1) + 1 = i + 2
        OBVIOUS
      <4> QED
        BY <4>1
    <3>1. i \in Nat /\ f[i + 1] = Upto(list, (i + 1) * size)
      OBVIOUS
    <3> HIDE DEF P
    <3>2. i + 2 \in 2..n /\ i + 2 \in 1..n /\ i + 2 # 1 /\ (i + 2) - 1 = i + 1
      BY <3>1
    <3>3. f[i + 2] = f[i + 1] \o pages[i + 2]
      BY <2>1, <3>2
    <3>4. Upto(list, (i + 1) * size) \o pages[i + 2] = Upto(list, (i + 2) * size)
      BY <1>3, <3>2
    <3> QED
      BY <3>1, <3>3, <3>4
  <2>4. P = Nat
    <3> HIDE DEF P
    <3> QED
      BY <2>2, <2>3, NatSetInduction DEF P
  <2>5. n - 1 \in Nat /\ (n - 1) + 1 = n
    OBVIOUS
  <2>6. n - 1 \in P
    BY <2>4, <2>5
  <2> QED
    BY <2>5, <2>6
<1>6. FlattenSeq(pages) = Upto(list, n * size)
  <2> DEFINE flatten == CHOOSE f : Joined(f, pages)
  <2>1. Joined(flatten, pages)
    BY <1>4
  <2>2. FlattenSeq(pages) = flatten[n]
    BY <1>1 DEF FlattenSeq, Joined
  <2> HIDE DEF flatten
  <2> QED
    BY <1>5, <2>1, <2>2
<1>7. Upto(list, n * size) = list
  <2>1. n * size \in Nat /\ n <= n * size
    OBVIOUS
  <2>2. AtMost(n * size, Len(list)) = Len(list)
    BY <1>1, <2>1 DEF AtMost
  <2> QED
    BY <2>2 DEF Upto
<1> QED
  BY <1>6, <1>7 DEF pages

-----------------------------------------------------------------------------
(* The lists                                                                *)

(* All markets with their statuses, as list_markets shows them.             *)
Shown == [i \in 1..count |-> <<i - 1, markets[i].status>>]

(* The open list is of ids that exist, as many as there are at most, and    *)
(* what bounds the number of markets bounds its length.                     *)
ListsInv ==
    /\ FactoryTypeOK /\ OpenMarketsListed
    /\ Len(openMarkets) <= count /\ count <= MaxMarkets

LEMMA SeqWider ==
    ASSUME NEW S, NEW T, S \subseteq T, NEW s \in Seq(S)
    PROVE  s \in Seq(T)
<1>1. s = [i \in 1..Len(s) |-> s[i]] /\ Len(s) \in Nat
  OBVIOUS
<1>2. \A i \in 1..Len(s) : s[i] \in T
  OBVIOUS
<1> QED
  BY <1>1, <1>2

(* What the variables other than the two lists hold.                        *)
RestOK ==
    /\ admin \in Admins
    /\ pendingAdmin \in Admins \cup {NoOne}
    /\ proposer \in Admins \cup {NoOne}
    /\ oracles \in SUBSET Oracles
    /\ paused \in BOOLEAN
    /\ wasm \in Wasms \cup {NoWasm}
    /\ clock \in Nat
    /\ upgradedTo \in Wasms \cup {NoWasm}

LEMMA RestStep ==
    ASSUME FactoryTypeOK, [FactoryNext]_factoryVars
    PROVE  RestOK'
<1> USE DEF FactoryTypeOK, RestOK, roles
<1>1. CASE UNCHANGED <<roles, oracles, paused, wasm, clock, upgradedTo>>
  BY <1>1
<1>2. ASSUME NEW w \in Wasms, UpdateMarketWasm(w) \/ UpgradeAllMarkets(w)
      PROVE  RestOK'
  BY <1>2 DEF UpdateMarketWasm, UpgradeAllMarkets
<1>3. ASSUME NEW o \in Oracles, AddOracle(o) \/ RemoveOracle(o)
      PROVE  RestOK'
  BY <1>3 DEF AddOracle, RemoveOracle
<1>4. ASSUME NEW a \in Admins, ProposeAdmin(a)
      PROVE  RestOK'
  BY <1>4 DEF ProposeAdmin
<1>5. CASE AcceptAdmin
  BY <1>5 DEF AcceptAdmin, PendingCleared
<1>6. CASE PauseFactory \/ UnpauseFactory
  BY <1>6 DEF PauseFactory, UnpauseFactory
<1>7. CASE FactoryTick
  <2>1. clock + 1 \in Nat
    OBVIOUS
  <2> QED
    BY <1>7, <2>1 DEF FactoryTick
<1> HIDE DEF FactoryTypeOK, RestOK
<1> QED
  BY <1>1, <1>2, <1>3, <1>4, <1>5, <1>6, <1>7
     DEF FactoryNext, factoryVars, CreateMarket, RemoveOpenMarket, MarketMoves

(* A new market is listed at the end of the list.                           *)
LEMMA ListsCreate ==
    ASSUME ListsInv, [FactoryNext]_factoryVars,
           NEW s \in Schedules, NEW min \in BetLimits, NEW max \in BetLimits,
           NEW f \in Fees, NEW override \in Fees \cup {NoFee},
           CreateMarket(s, min, max, f, override)
    PROVE  ListsInv'
<1> DEFINE n == Len(markets)
           fee == FeeInForce(f, override)
           new == [status |-> "Open", code |-> wasm, scheduledAt |-> s,
                   min |-> min, max |-> max, fee |-> fee]
<1>1. /\ markets \in Seq(MarketRecord) /\ n \in Nat /\ count = n
      /\ openMarkets \in Seq(0..n - 1) /\ Len(openMarkets) <= n /\ n < MaxMarkets
      /\ MaxMarkets \in Nat
  BY FactoryInputs DEF ListsInv, FactoryTypeOK, MarketIds, count, CreateMarket
<1>2. new \in MarketRecord
  <2>1. fee \in Fees /\ wasm \in Wasms
    BY DEF FeeInForce, CreateMarket, ListsInv, FactoryTypeOK
  <2> QED
    BY <2>1 DEF MarketRecord, Statuses
<1>3. markets' = Append(markets, new) /\ openMarkets' = Append(openMarkets, n)
  BY DEF CreateMarket, ListAsOpen, count
<1> HIDE DEF new, fee
<1>4. /\ markets' \in Seq(MarketRecord) /\ Len(markets') = n + 1
      /\ \A i \in 1..n : markets'[i] = markets[i]
  BY <1>1, <1>2, <1>3
<1>5. count' = n + 1 /\ MarketIds' = 0..n
  BY <1>1, <1>4 DEF MarketIds, count
<1>6. openMarkets \in Seq(0..n)
  <2>1. 0..n - 1 \subseteq 0..n
    BY <1>1
  <2> QED
    BY <1>1, <2>1, SeqWider
<1>7. /\ openMarkets' \in Seq(0..n) /\ Len(openMarkets') = Len(openMarkets) + 1
      /\ DOMAIN openMarkets' = 1..Len(openMarkets) + 1
      /\ \A j \in 1..Len(openMarkets) : openMarkets'[j] = openMarkets[j]
      /\ openMarkets'[Len(openMarkets) + 1] = n
  BY <1>1, <1>3, <1>6
<1>8. Len(openMarkets) \in Nat /\ DOMAIN openMarkets = 1..Len(openMarkets)
  BY <1>1
<1>9. ASSUME NEW id \in 0..n, markets'[id + 1].status = "Open"
      PROVE  \E k \in DOMAIN openMarkets' : openMarkets'[k] = id
  <2>1. CASE id = n
    BY <1>7, <1>8, <2>1
  <2>2. CASE id # n
    <3>1. id \in MarketIds /\ id + 1 \in 1..n
      BY <1>1, <2>2 DEF MarketIds
    <3>2. MarketAt(id).status = "Open"
      BY <1>4, <1>9, <3>1 DEF MarketAt
    <3>3. PICK k \in DOMAIN openMarkets : openMarkets[k] = id
      BY <3>1, <3>2 DEF ListsInv, OpenMarketsListed
    <3>4. k \in DOMAIN openMarkets' /\ openMarkets'[k] = id
      BY <1>7, <1>8, <3>3
    <3> QED
      BY <3>4
  <2> QED
    BY <2>1, <2>2
<1>10. ASSUME NEW j \in DOMAIN openMarkets', NEW k \in DOMAIN openMarkets',
              openMarkets'[j] = openMarkets'[k]
       PROVE  j = k
  <2>1. \A i \in 1..Len(openMarkets) : openMarkets[i] # n
    BY <1>1
  <2>2. \A i, l \in 1..Len(openMarkets) : openMarkets[i] = openMarkets[l] => i = l
    BY <1>8 DEF ListsInv, OpenMarketsListed
  <2> QED
    BY <1>7, <1>8, <1>10, <2>1, <2>2
<1>11. OpenMarketsListed'
  BY <1>5, <1>9, <1>10 DEF OpenMarketsListed, MarketAt
<1>12. FactoryTypeOK'
  <2>1. RestOK'
    BY RestStep DEF ListsInv
  <2> QED
    BY <1>4, <1>5, <1>7, <2>1 DEF FactoryTypeOK, RestOK
<1> QED
  BY <1>1, <1>5, <1>7, <1>8, <1>11, <1>12, FactoryInputs DEF ListsInv

(* A market that is taken off the list is not open.                         *)
LEMMA ListsRemove ==
    ASSUME ListsInv, [FactoryNext]_factoryVars, NEW id \in MarketIds, RemoveOpenMarket(id)
    PROVE  ListsInv'
<1>1. openMarkets' = Without(id) /\ markets' = markets /\ MarketAt(id).status # "Open"
  BY DEF RemoveOpenMarket, Removable
<1>2. openMarkets \in Seq(MarketIds) /\ MarketIds' = MarketIds /\ count' = count
  BY <1>1 DEF ListsInv, FactoryTypeOK, MarketIds, count
<1>3. CopyOf(openMarkets', openMarkets, id, MarketIds, Len(openMarkets))
  BY <1>1, <1>2, WithoutIs
<1>4. ASSUME NEW v \in MarketIds, MarketAt(v).status = "Open"
      PROVE  Occurs(v, openMarkets')
  <2>1. v # id
    BY <1>1, <1>4
  <2>2. PICK k \in DOMAIN openMarkets : openMarkets[k] = v
    BY <1>4 DEF ListsInv, OpenMarketsListed
  <2>3. k \in 1..Len(openMarkets)
    BY <1>2
  <2> QED
    BY <1>3, <2>1, <2>2, <2>3 DEF CopyOf
<1>5. NoneTwice(openMarkets')
  <2>1. NoneTwice(openMarkets)
    BY DEF ListsInv, OpenMarketsListed, NoneTwice
  <2> QED
    BY <1>3, <2>1 DEF CopyOf
<1>6. OpenMarketsListed'
  BY <1>1, <1>2, <1>4, <1>5 DEF OpenMarketsListed, MarketAt, Occurs, NoneTwice
<1>7. openMarkets' \in Seq(MarketIds') /\ Len(openMarkets') <= count'
  <2>1. /\ openMarkets' \in Seq(MarketIds) /\ Len(openMarkets') <= Len(openMarkets)
        /\ Len(openMarkets) <= count
    BY <1>3 DEF CopyOf, ListsInv
  <2>2. Len(openMarkets') \in Nat /\ Len(openMarkets) \in Nat /\ count \in Nat
    BY <1>2, <2>1 DEF ListsInv, FactoryTypeOK, count
  <2> QED
    BY <1>2, <2>1, <2>2
<1>8. FactoryTypeOK'
  <2>1. RestOK'
    BY RestStep DEF ListsInv
  <2> QED
    BY <1>1, <1>7, <2>1 DEF FactoryTypeOK, RestOK, ListsInv
<1> QED
  BY <1>2, <1>6, <1>7, <1>8 DEF ListsInv

(* A market never becomes open again.                                       *)
LEMMA ListsMove ==
    ASSUME ListsInv, [FactoryNext]_factoryVars, NEW id \in MarketIds, NEW st \in Statuses,
           MarketMoves(id, st)
    PROVE  ListsInv'
<1>1. /\ markets \in Seq(MarketRecord) /\ id + 1 \in 1..Len(markets)
      /\ markets' = [markets EXCEPT ![id + 1].status = st] /\ openMarkets' = openMarkets
  BY DEF ListsInv, FactoryTypeOK, MarketMoves, MarketIds, count
<1>2. st # "Open"
  BY DEF MarketMoves, StatusMoves
<1>3. markets[id + 1] \in MarketRecord
  BY <1>1
<1>4. [markets[id + 1] EXCEPT !.status = st] \in MarketRecord
  BY <1>3 DEF MarketRecord
<1>5. markets' = [markets EXCEPT ![id + 1] = [markets[id + 1] EXCEPT !.status = st]]
  BY <1>1
<1>6. markets' \in Seq(MarketRecord) /\ Len(markets') = Len(markets)
  BY <1>1, <1>4, <1>5
<1>7. MarketIds' = MarketIds /\ count' = count
  BY <1>6 DEF MarketIds, count
<1>8. ASSUME NEW v \in MarketIds, markets'[v + 1].status = "Open"
      PROVE  \E k \in DOMAIN openMarkets : openMarkets[k] = v
  <2>1. v + 1 \in 1..Len(markets)
    BY <1>1 DEF MarketIds, count
  <2>2. v + 1 # id + 1
    BY <1>1, <1>2, <1>3, <1>5, <1>8 DEF MarketRecord
  <2>3. markets[v + 1].status = "Open"
    BY <1>1, <1>5, <1>8, <2>1, <2>2
  <2> QED
    BY <2>3 DEF ListsInv, OpenMarketsListed, MarketAt
<1>9. OpenMarketsListed'
  BY <1>1, <1>7, <1>8 DEF OpenMarketsListed, ListsInv, MarketAt
<1>10. FactoryTypeOK'
  <2>1. RestOK'
    BY RestStep DEF ListsInv
  <2> QED
    BY <1>1, <1>6, <1>7, <2>1 DEF FactoryTypeOK, RestOK, ListsInv
<1> QED
  BY <1>1, <1>7, <1>9, <1>10 DEF ListsInv

LEMMA ListsInductive ==
    /\ FactoryInit => ListsInv
    /\ ListsInv /\ [FactoryNext]_factoryVars => ListsInv'
<1>1. FactoryInit => ListsInv
  <2> SUFFICES ASSUME FactoryInit PROVE ListsInv
    OBVIOUS
  <2>1. markets = <<>> /\ openMarkets = <<>> /\ count = 0 /\ MarketIds = {}
    BY DEF FactoryInit, count, MarketIds
  <2>2. FactoryTypeOK
    <3>1. <<>> \in Seq(MarketRecord) /\ <<>> \in Seq({})
      OBVIOUS
    <3> QED
      BY <2>1, <3>1 DEF FactoryInit, FactoryTypeOK
  <2> QED
    BY <2>1, <2>2, FactoryInputs DEF ListsInv, OpenMarketsListed
<1>2. ASSUME ListsInv, [FactoryNext]_factoryVars
      PROVE  ListsInv'
  <2>1. CASE UNCHANGED <<openMarkets, markets>>
    <3>1. RestOK'
      BY <1>2, RestStep DEF ListsInv
    <3> QED
      BY <1>2, <2>1, <3>1 DEF ListsInv, FactoryTypeOK, RestOK, OpenMarketsListed, MarketIds,
                              MarketAt, count
  <2> QED
    BY <1>2, <2>1, ListsCreate, ListsRemove, ListsMove
       DEF FactoryNext, factoryVars, UpdateMarketWasm, UpgradeAllMarkets, AddOracle, RemoveOracle,
           ProposeAdmin, AcceptAdmin, PauseFactory, UnpauseFactory, FactoryTick
<1> QED
  BY <1>1, <1>2

(* The pages of both lists are those of a list laid out end to end.         *)
LEMMA PagesAre ==
    ASSUME ListsInv, NEW size \in 1..100, NEW k \in Nat \ {0}
    PROVE  /\ ListMarketIds((k - 1) * size, size) = Page(openMarkets, size, k)
           /\ ListMarkets((k - 1) * size, size) = Page(Shown, size, k)
<1> DEFINE a == (k - 1) * size
<1>1. a \in Nat /\ k * size = a + size /\ AtMost(size, 100) = size
  BY OneTimeMore DEF AtMost
<1>2. count \in Nat /\ markets \in Seq(MarketRecord) /\ count = Len(markets)
  BY DEF ListsInv, FactoryTypeOK, count
<1>3. ListMarketIds(a, size) = Page(openMarkets, size, k)
  BY <1>1 DEF ListMarketIds, Page
<1>4. Len(Shown) = count /\ \A i \in 1..count : Shown[i] = <<i - 1, markets[i].status>>
  BY <1>2 DEF Shown
<1> HIDE DEF a
<1>5. Page(Shown, size, k) = SubSeq(Shown, a + 1, AtMost(a + size, count))
  BY <1>1, <1>4 DEF Page, a
<1> DEFINE rest == IF a < count THEN count - a ELSE 0
<1>6. SubSeq(Shown, a + 1, AtMost(a + size, count))
        = [i \in 1..AtMost(size, rest) |-> Shown[a + i]]
  <2> DEFINE part == SubSeq(Shown, a + 1, AtMost(a + size, count))
             All == {Shown[i] : i \in 1..count}
  <2>1. Shown \in Seq(All)
    BY <1>2 DEF Shown
  <2> HIDE DEF All
  <2>2. AtMost(a + size, count) \in Nat /\ AtMost(a + size, count) <= count
    BY <1>1, <1>2 DEF AtMost
  <2>3. /\ part \in Seq(All)
        /\ Len(part) = IF a <= AtMost(a + size, count)
                       THEN AtMost(a + size, count) - a ELSE 0
        /\ DOMAIN part = 1..Len(part)
        /\ \A i \in 1..Len(part) : part[i] = Shown[a + i]
    BY <1>1, <1>4, <2>1, <2>2, Part
  <2>5. part = [i \in DOMAIN part |-> part[i]]
    <3> HIDE DEF part
    <3> QED
      BY <2>3
  <2>4. AtMost(size, rest) = IF a <= AtMost(a + size, count)
                             THEN AtMost(a + size, count) - a ELSE 0
    BY <1>1, <1>2 DEF AtMost
  <2> HIDE DEF part, rest
  <2> QED
    BY <2>3, <2>4, <2>5 DEF part
<1>7. ListMarkets(a, size) = [i \in 1..AtMost(size, rest) |-> Shown[a + i]]
  <2>1. ASSUME NEW i \in 1..AtMost(size, rest)
        PROVE  Shown[a + i] = <<a + i - 1, MarketAt(a + i - 1).status>>
    <3>1. a + i \in 1..count /\ a + i - 1 = (a + i) - 1 /\ (a + i - 1) + 1 = a + i
      BY <1>1, <1>2 DEF AtMost
    <3>2. Shown[a + i] = <<(a + i) - 1, markets[a + i].status>>
      BY <1>4, <3>1
    <3>3. MarketAt(a + i - 1).status = markets[a + i].status
      BY <3>1 DEF MarketAt
    <3> QED
      BY <3>1, <3>2, <3>3, Zenon
  <2> QED
    BY <1>1, <2>1 DEF ListMarkets
<1> QED
  BY <1>3, <1>5, <1>6, <1>7 DEF a

LEMMA PagesOfLists == ListsInv => PagesCover
<1> SUFFICES ASSUME ListsInv, NEW size \in 1..AtMost(MaxMarkets + 1, 100)
             PROVE  /\ Pages(ListMarketIds, size) = openMarkets
                    /\ Pages(ListMarkets, size) = Shown
  BY DEF PagesCover, Shown
<1> DEFINE n == MaxMarkets + 1
<1>1. n \in Nat \ {0} /\ size \in 1..100 /\ size \in Nat \ {0}
  BY FactoryInputs DEF AtMost
<1>2. /\ openMarkets \in Seq(MarketIds) /\ Len(openMarkets) <= n
      /\ count \in Nat /\ count <= n
  BY FactoryInputs DEF ListsInv, FactoryTypeOK, count
<1>3. Shown \in Seq({Shown[i] : i \in 1..count}) /\ Len(Shown) <= n
  BY <1>2 DEF Shown
<1>4. [k \in 1..n |-> ListMarketIds((k - 1) * size, size)]
        = [k \in 1..n |-> Page(openMarkets, size, k)]
  <2>1. ASSUME NEW k \in 1..n
        PROVE  ListMarketIds((k - 1) * size, size) = Page(openMarkets, size, k)
    <3>1. k \in Nat \ {0}
      BY <1>1
    <3> QED
      BY <1>1, <3>1, PagesAre
  <2> QED
    BY <2>1, Zenon
<1>5. [k \in 1..n |-> ListMarkets((k - 1) * size, size)]
        = [k \in 1..n |-> Page(Shown, size, k)]
  <2>1. ASSUME NEW k \in 1..n
        PROVE  ListMarkets((k - 1) * size, size) = Page(Shown, size, k)
    <3>1. k \in Nat \ {0}
      BY <1>1
    <3> QED
      BY <1>1, <3>1, PagesAre
  <2> QED
    BY <2>1, Zenon
<1>6. Pages(ListMarketIds, size) = openMarkets
  BY <1>1, <1>2, <1>4, PagesJoin DEF Pages
<1>7. Pages(ListMarkets, size) = Shown
  BY <1>1, <1>3, <1>5, PagesJoin DEF Pages
<1> QED
  BY <1>6, <1>7

(* No open market drops off the list, none is listed twice, and the pages   *)
(* of either list, of any size that is granted, put end to end are the list:*)
(* however removals and the markets' own moves interleave, and however many *)
(* markets there are (create_market, remove_open_market, list_markets,      *)
(* list_market_ids).                                                        *)
THEOREM ListsAlwaysSound == FactorySpec => []ListsSound
<1>1. ListsInv => ListsSound
  BY PagesOfLists DEF ListsInv, ListsSound
<1> QED
  BY <1>1, ListsInductive, PTL DEF FactorySpec
==============================================================================
