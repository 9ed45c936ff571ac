----------------------------- MODULE MarketProofs -----------------------------
(***************************************************************************)
(* Theorems about the market contract, for any number of bettors, oracles  *)
(* and tokens, any stakes, fee, schedule and resolution window.            *)
(*                                                                         *)
(* The argument: IInv holds initially and every operation preserves it     *)
(* (one lemma per operation that touches money or status); the safety      *)
(* invariants are among its conjuncts or follow from it, and the action    *)
(* properties follow from it and the guards.                               *)
(***************************************************************************)
EXTENDS Market, SumTheorems, TLAPS

USE DEF Sides, Outcomes, Statuses, Roles, None

-----------------------------------------------------------------------------
(* Arithmetic of the payout formula. *)

(* A floor division never exceeds the quotient. *)
LEMMA DivBound ==
    ASSUME NEW n \in Nat, NEW d \in Nat \ {0}
    PROVE  n \div d \in Nat /\ d * (n \div d) <= n
  OBVIOUS

(* The fee is part of the pool, so the net pool is not negative. *)
LEMMA FeeBounds ==
    ASSUME NEW total \in Nat
    PROVE  /\ FeeOf(total) \in Nat
           /\ NetOf(total) \in Nat
           /\ FeeOf(total) + NetOf(total) = total
<1>1. FeeBps \in Nat /\ FeeBps <= 1000
  BY ConfigAssumption
<1>2. total * FeeBps \in Nat /\ total * FeeBps <= total * 1000
  BY <1>1
<1>3. (total * FeeBps) \div 10000 \in Nat
  BY <1>2
<1>4. (total * FeeBps) \div 10000 <= total
  BY <1>2, <1>3
<1>5. QED
  BY <1>3, <1>4 DEF FeeOf, NetOf

(* A stake that is part of the winning pool is never paid more than the net *)
(* pool.                                                                    *)
LEMMA PayoutBounds ==
    ASSUME NEW stake \in Nat, NEW winning \in Nat, NEW total \in Nat
    PROVE  /\ PayoutOf(stake, winning, total) \in Nat
           /\ stake <= winning =>
                PayoutOf(stake, winning, total) <= NetOf(total)
<1> DEFINE net == NetOf(total)
<1>1. net \in Nat
  BY FeeBounds
<1> HIDE DEF net
<1>2. CASE winning = 0
  <2>1. PayoutOf(stake, winning, total) = 0
    BY <1>2 DEF PayoutOf
  <2>2. QED
    BY <1>1, <2>1 DEF net
<1>3. CASE winning > 0
  <2>1. PayoutOf(stake, winning, total) = (stake * net) \div winning
    BY <1>3 DEF PayoutOf, net
  <2> DEFINE q == (stake * net) \div winning
  <2>2. stake * net \in Nat
    BY <1>1
  <2>3. q \in Nat /\ winning * q <= stake * net
    BY <1>3, <2>2, DivBound
  <2> HIDE DEF q
  <2>4. ASSUME stake <= winning PROVE q <= net
    <3>1. stake * net <= winning * net
      BY <1>1, <2>4
    <3>2. winning * q <= winning * net
      BY <1>1, <2>2, <2>3, <3>1
    <3>3. QED
      BY <1>1, <1>3, <2>3, <3>2
  <2>5. QED
    BY <2>1, <2>3, <2>4 DEF q, net
<1>4. QED
  BY <1>2, <1>3

-----------------------------------------------------------------------------
(* Type correctness. *)

(* What the type invariant says of one bettor. *)
LEMMA BetFacts ==
    ASSUME TypeOK, NEW b \in Bettors
    PROVE  /\ bets[b].side \in Sides \cup {None}
           /\ bets[b].amount \in Nat
           /\ bets[b].claimed \in BOOLEAN
           /\ paid[b] \in Nat
           /\ HasBet(b) => bets[b] \in BetRecord
           /\ ~HasBet(b) => bets[b] = NoBet
<1>1. bets[b] \in BetRecord \/ bets[b] = NoBet
  BY DEF TypeOK
<1>2. CASE bets[b] \in BetRecord
  <2>1. bets[b].side \in Sides /\ bets[b].amount \in Stakes
        /\ bets[b].claimed \in BOOLEAN
    BY <1>2 DEF BetRecord
  <2>2. paid[b] \in Nat
    BY DEF TypeOK
  <2>3. QED
    BY <1>2, <2>1, <2>2 DEF Stakes, HasBet
<1>3. CASE bets[b] = NoBet
  <2>1. bets[b].side = None /\ bets[b].amount = 0
    BY <1>3 DEF NoBet
  <2>2. bets[b].claimed \in BOOLEAN
    BY <1>3 DEF NoBet
  <2>3. paid[b] \in Nat
    BY DEF TypeOK
  <2>4. bets[b].amount \in Nat /\ ~HasBet(b)
    BY <2>1 DEF HasBet
  <2>5. QED
    BY <1>3, <2>1, <2>2, <2>3, <2>4
<1>4. QED
  BY <1>1, <1>2, <1>3

LEMMA PayoutFacts ==
    ASSUME TypeOK, NEW b \in Bettors, HasBet(b)
    PROVE  Payout(b) \in Nat /\ Fee \in Nat
<1>1. bets[b].side \in Sides /\ bets[b].amount \in Nat
  BY BetFacts DEF HasBet
<1>2. pool[bets[b].side] \in Nat /\ totalPool \in Nat
  BY <1>1 DEF TypeOK
<1>3. Payout(b) \in Nat
  BY <1>1, <1>2, PayoutBounds DEF Payout
<1>4. Fee \in Nat
  BY <1>2, FeeBounds DEF Fee
<1>5. QED
  BY <1>3, <1>4

(* Marking a bettor's record as claimed changes nothing else of the records.*)
LEMMA MarkClaimed ==
    ASSUME TypeOK, NEW b \in Bettors,
           bets' = [bets EXCEPT ![b].claimed = TRUE]
    PROVE  /\ bets'[b].claimed
           /\ \A c \in Bettors : /\ bets'[c].side = bets[c].side
                                 /\ bets'[c].amount = bets[c].amount
           /\ \A c \in Bettors \ {b} : bets'[c] = bets[c]
           /\ HasBet(b) => bets' \in [Bettors -> BetRecord \cup {NoBet}]
<1> DEFINE r == [bets[b] EXCEPT !.claimed = TRUE]
<1>1. bets \in [Bettors -> BetRecord \cup {NoBet}]
  BY DEF TypeOK
<1>2. bets' = [bets EXCEPT ![b] = r]
  OBVIOUS
<1>3. /\ r.claimed
      /\ r.side = bets[b].side
      /\ r.amount = bets[b].amount
      /\ HasBet(b) => r \in BetRecord
  <2>1. CASE bets[b] \in BetRecord
    BY <2>1 DEF BetRecord
  <2>2. CASE bets[b] = NoBet
    BY <2>2 DEF NoBet, HasBet
  <2>3. QED
    BY <1>1, <2>1, <2>2
<1> HIDE DEF r
<1>4. bets'[b] = r /\ \A c \in Bettors \ {b} : bets'[c] = bets[c]
  BY <1>1, <1>2
<1>5. HasBet(b) => bets' \in [Bettors -> BetRecord \cup {NoBet}]
  BY <1>1, <1>2, <1>3
<1>6. QED
  BY <1>3, <1>4, <1>5

LEMMA TypeInit == Init => TypeOK
<1> SUFFICES ASSUME Init PROVE TypeOK
  OBVIOUS
<1>1. /\ status \in Statuses
      /\ outcome \in Outcomes \cup {None}
      /\ oracleUsed \in Roles \cup {None}
      /\ resolvedAt \in Nat
      /\ totalPool \in Nat
      /\ now \in Nat
  BY DEF Init
<1>2. paused \in BOOLEAN /\ whitelist \in SUBSET Oracles
  BY DEF Init
<1>3. pool \in [Sides -> Nat] /\ paid \in [Bettors -> Nat]
  BY DEF Init
<1>4. bets \in [Bettors -> BetRecord \cup {NoBet}]
  BY DEF Init
<1>5. pending \in [Oracles -> Outcomes \cup {None}]
  BY DEF Init, NoReports
<1>6. balance \in [Tokens -> Nat] /\ treasuryFees \in [Tokens -> Nat]
  BY DEF Init
<1>7. /\ stakedIn \in [Bettors -> Tokens \cup {None}]
      /\ paidIn \in [Bettors -> Tokens \cup {None}]
  BY DEF Init
<1>8. QED
  BY <1>1, <1>2, <1>3, <1>4, <1>5, <1>6, <1>7 DEF TypeOK

LEMMA TypeStep ==
    ASSUME TypeOK, [Next]_vars
    PROVE  TypeOK'
<1> USE DEF state, pools, money
<1>1. CASE UNCHANGED vars
  BY <1>1 DEF TypeOK, vars
<1>2. ASSUME NEW b \in Bettors, NEW s \in BetSides, NEW a \in BetAmounts,
             NEW t \in Tokens, PlaceBet(b, s, a, t)
      PROVE  TypeOK'
  <2>1. a \in Stakes /\ a \in Nat /\ s \in Sides
    BY <1>2, InputsAssumption, ConfigAssumption DEF PlaceBet, CanBet, Stakes
  <2>2. [side |-> s, amount |-> a, claimed |-> FALSE] \in BetRecord
    BY <2>1 DEF BetRecord
  <2>3. pool' \in [Sides -> Nat] /\ totalPool' \in Nat
    BY <1>2, <2>1 DEF TypeOK, PlaceBet
  <2>4. bets' \in [Bettors -> BetRecord \cup {NoBet}]
    BY <1>2, <2>2 DEF TypeOK, PlaceBet
  <2>5. /\ balance' \in [Tokens -> Nat]
        /\ stakedIn' \in [Bettors -> Tokens \cup {None}]
    BY <1>2, <2>1 DEF TypeOK, PlaceBet
  <2>6. QED
    BY <1>2, <2>3, <2>4, <2>5 DEF TypeOK, PlaceBet
<1>3. CASE LockMarket
  BY <1>3 DEF TypeOK, LockMarket
<1>4. ASSUME NEW o \in Oracles, NEW x \in ReportOutcomes, ResolveMarket(o, x)
      PROVE  TypeOK'
  <2>1. x \in Outcomes
    BY InputsAssumption
  <2>2. CASE Decisive(o, x)
    BY <1>4, <2>1, <2>2 DEF TypeOK, ResolveMarket, NoReports
  <2>3. CASE ~Decisive(o, x)
    BY <1>4, <2>1, <2>3 DEF TypeOK, ResolveMarket
  <2>4. QED
    BY <2>2, <2>3
<1>5. ASSUME NEW b \in Bettors, NEW t \in Tokens, ClaimWinnings(b, t)
      PROVE  TypeOK'
  <2>1. HasBet(b)
    BY <1>5 DEF ClaimWinnings, MayClaim, IsWinner
  <2>2. Payout(b) \in Nat /\ Fee \in Nat /\ paid[b] \in Nat
    BY <2>1, PayoutFacts, BetFacts
  <2>3. bets' \in [Bettors -> BetRecord \cup {NoBet}]
    BY <1>5, <2>1, MarkClaimed DEF ClaimWinnings, Settle
  <2>4. /\ balance' \in [Tokens -> Nat]
        /\ treasuryFees' \in [Tokens -> Nat]
    BY <1>5, <2>2 DEF TypeOK, ClaimWinnings
  <2>5. /\ paid' \in [Bettors -> Nat]
        /\ paidIn' \in [Bettors -> Tokens \cup {None}]
    BY <1>5, <2>2 DEF TypeOK, ClaimWinnings, Settle
  <2>6. QED
    BY <1>5, <2>3, <2>4, <2>5 DEF TypeOK, ClaimWinnings
<1>6. ASSUME NEW b \in Bettors, NEW t \in Tokens, ClaimRefund(b, t)
      PROVE  TypeOK'
  <2>1. HasBet(b)
    BY <1>6 DEF ClaimRefund, CanRefund
  <2>2. bets[b].amount \in Nat /\ paid[b] \in Nat
    BY BetFacts
  <2>3. bets' \in [Bettors -> BetRecord \cup {NoBet}]
    BY <1>6, <2>1, MarkClaimed DEF ClaimRefund, Settle
  <2>4. balance' \in [Tokens -> Nat]
    BY <1>6, <2>2 DEF TypeOK, ClaimRefund
  <2>5. /\ paid' \in [Bettors -> Nat]
        /\ paidIn' \in [Bettors -> Tokens \cup {None}]
    BY <1>6, <2>2 DEF TypeOK, ClaimRefund, Settle
  <2>6. QED
    BY <1>6, <2>3, <2>4, <2>5 DEF TypeOK, ClaimRefund
<1>7. CASE CancelMarket
  BY <1>7 DEF TypeOK, CancelMarket
<1>8. CASE DisputeMarket
  BY <1>8 DEF TypeOK, DisputeMarket
<1>9. ASSUME NEW x \in ReportOutcomes, ResolveDispute(x)
      PROVE  TypeOK'
  BY <1>9, InputsAssumption DEF TypeOK, ResolveDispute
<1>10. CASE EmergencyPause
  BY <1>10 DEF TypeOK, EmergencyPause
<1>11. CASE EmergencyUnpause
  BY <1>11 DEF TypeOK, EmergencyUnpause
<1>12. ASSUME NEW o \in Oracles, AddOracle(o) PROVE TypeOK'
  BY <1>12 DEF TypeOK, AddOracle
<1>13. ASSUME NEW o \in Oracles, RemoveOracle(o) PROVE TypeOK'
  BY <1>13 DEF TypeOK, RemoveOracle
<1>14. CASE Tick
  BY <1>14 DEF TypeOK, Tick
<1>15. QED
  BY <1>1, <1>2, <1>3, <1>4, <1>5, <1>6, <1>7, <1>8, <1>9, <1>10, <1>11,
     <1>12, <1>13, <1>14 DEF Next

(* TypeOK is an invariant: pools, the contract's balance and what it paid   *)
(* are never negative, every stake is within the limits.                    *)
THEOREM TypeCorrect == Spec => []TypeOK
<1>1. Init => TypeOK
  BY TypeInit
<1>2. TypeOK /\ [Next]_vars => TypeOK'
  BY TypeStep
<1>3. QED
  BY <1>1, <1>2, PTL DEF Spec

-----------------------------------------------------------------------------
(* Sums over the bet records. *)

LEMMA TermsAreNat ==
    ASSUME TypeOK
    PROVE  /\ \A s \in Sides, b \in Bettors : StakeOn(s)[b] \in Nat
           /\ \A u \in Tokens, b \in Bettors : /\ Staked(u)[b] \in Nat
                                               /\ Settled(u)[b] \in Nat
  BY BetFacts DEF StakeOn, Staked, Settled

LEMMA SumsAreNat ==
    ASSUME TypeOK, NEW u \in Tokens
    PROVE  /\ SumFunctionOnSet(Staked(u), Bettors) \in Nat
           /\ SumFunctionOnSet(Settled(u), Bettors) \in Nat
<1>1. IsFiniteSet(Bettors)
  BY BettorsAssumption
<1>2. /\ \A c \in Bettors : Staked(u)[c] \in Nat
      /\ \A c \in Bettors : Settled(u)[c] \in Nat
  BY TermsAreNat
<1>3. QED
  BY <1>1, <1>2, SumAtLeast

(* A term that was zero adds what it becomes.                               *)
LEMMA AddToOne ==
    ASSUME NEW f, NEW g, \A c \in Bettors : f[c] \in Nat,
           NEW b \in Bettors, NEW a \in Nat, f[b] = 0, g[b] = a,
           \A c \in Bettors \ {b} : g[c] = f[c]
    PROVE  SumFunctionOnSet(g, Bettors) = SumFunctionOnSet(f, Bettors) + a
<1>1. IsFiniteSet(Bettors)
  BY BettorsAssumption
<1>2. \A c \in Bettors : f[c] \in Int /\ g[c] \in Int
  OBVIOUS
<1>3. SumFunctionOnSet(g, Bettors) = SumFunctionOnSet(f, Bettors) - f[b] + g[b]
  BY <1>1, <1>2, SumUpdate
<1>4. SumFunctionOnSet(f, Bettors) \in Int
  BY <1>1, <1>2, SumInt
<1>5. QED
  BY <1>3, <1>4

(* Nothing but place_bet changes the side or amount of a record, so nothing *)
(* else disturbs the pools.                                                 *)
LEMMA SameStakes ==
    ASSUME PoolsMatchBets, UNCHANGED pools,
           \A c \in Bettors : /\ bets'[c].side = bets[c].side
                              /\ bets'[c].amount = bets[c].amount
    PROVE  PoolsMatchBets'
<1>1. \A s \in Sides : StakeOn(s)' = StakeOn(s)
  BY DEF StakeOn
<1>2. QED
  BY <1>1 DEF PoolsMatchBets, pools

(* A bet adds its amount to the sum of its side and to what is staked of    *)
(* its token.                                                               *)
LEMMA BetAddsStake ==
    ASSUME TypeOK, NEW b \in Bettors, NEW s \in Sides, NEW a \in Nat,
           NEW t \in Tokens, ~HasBet(b),
           bets'[b].side = s, bets'[b].amount = a,
           \A c \in Bettors \ {b} : bets'[c] = bets[c],
           stakedIn'[b] = t,
           \A c \in Bettors \ {b} : stakedIn'[c] = stakedIn[c]
    PROVE  /\ \A r \in Sides :
                SumFunctionOnSet(StakeOn(r), Bettors)'
                  = SumFunctionOnSet(StakeOn(r), Bettors)
                      + (IF r = s THEN a ELSE 0)
           /\ \A u \in Tokens :
                SumFunctionOnSet(Staked(u), Bettors)'
                  = SumFunctionOnSet(Staked(u), Bettors)
                      + (IF u = t THEN a ELSE 0)
<1>1. bets[b] = NoBet
  BY BetFacts
<1>2. bets[b].side = None /\ bets[b].amount = 0
  BY <1>1 DEF NoBet
<1>3. /\ bets'[b].side = s /\ bets'[b].amount = a
      /\ \A c \in Bettors \ {b} : bets'[c] = bets[c]
      /\ stakedIn'[b] = t
      /\ \A c \in Bettors \ {b} : stakedIn'[c] = stakedIn[c]
  OBVIOUS
<1>4. ASSUME NEW r \in Sides
      PROVE  SumFunctionOnSet(StakeOn(r), Bettors)'
               = SumFunctionOnSet(StakeOn(r), Bettors)
                   + (IF r = s THEN a ELSE 0)
  <2> DEFINE f == StakeOn(r)
             g == [c \in Bettors |->
                     IF bets'[c].side = r THEN bets'[c].amount ELSE 0]
             d == IF r = s THEN a ELSE 0
  <2>1. f[b] = 0 /\ g[b] = d /\ d \in Nat
    BY <1>2, <1>3 DEF StakeOn
  <2>2. \A c \in Bettors \ {b} : g[c] = f[c]
    BY <1>3 DEF StakeOn
  <2>3. \A c \in Bettors : f[c] \in Nat
    BY TermsAreNat
  <2>4. g = StakeOn(r)'
    BY DEF StakeOn
  <2> HIDE DEF f, g, d
  <2>5. SumFunctionOnSet(g, Bettors) = SumFunctionOnSet(f, Bettors) + d
    BY ONLY b \in Bettors, <2>1, <2>2, <2>3, AddToOne
  <2>6. QED
    BY <2>4, <2>5 DEF f, d
<1>5. ASSUME NEW u \in Tokens
      PROVE  SumFunctionOnSet(Staked(u), Bettors)'
               = SumFunctionOnSet(Staked(u), Bettors)
                   + (IF u = t THEN a ELSE 0)
  <2> DEFINE f == Staked(u)
             g == [c \in Bettors |->
                     IF stakedIn'[c] = u THEN bets'[c].amount ELSE 0]
             d == IF u = t THEN a ELSE 0
  <2>1. f[b] = 0 /\ g[b] = d /\ d \in Nat
    BY <1>2, <1>3 DEF Staked
  <2>2. \A c \in Bettors \ {b} : g[c] = f[c]
    BY <1>3 DEF Staked
  <2>3. \A c \in Bettors : f[c] \in Nat
    BY TermsAreNat
  <2>4. g = Staked(u)'
    BY DEF Staked
  <2> HIDE DEF f, g, d
  <2>5. SumFunctionOnSet(g, Bettors) = SumFunctionOnSet(f, Bettors) + d
    BY ONLY b \in Bettors, <2>1, <2>2, <2>3, AddToOne
  <2>6. QED
    BY <2>4, <2>5 DEF f, d
<1>6. QED
  BY <1>4, <1>5

(* A bettor's first settlement adds to what is settled in its token alone,  *)
(* and changes nothing of what was staked.                                  *)
LEMMA SettleAddsOne ==
    ASSUME TypeOK, NEW b \in Bettors, NEW t \in Tokens, NEW a \in Nat,
           Settle(b, t, a), stakedIn' = stakedIn,
           paid[b] = 0
    PROVE  \A u \in Tokens :
             /\ SumFunctionOnSet(Settled(u), Bettors)'
                  = SumFunctionOnSet(Settled(u), Bettors)
                      + (IF u = t THEN a ELSE 0)
             /\ SumFunctionOnSet(Staked(u), Bettors)'
                  = SumFunctionOnSet(Staked(u), Bettors)
<1>1. /\ paid'[b] = a /\ paidIn'[b] = t
      /\ \A c \in Bettors \ {b} : paid'[c] = paid[c] /\ paidIn'[c] = paidIn[c]
  BY DEF TypeOK, Settle
<1>2. \A c \in Bettors : bets'[c].amount = bets[c].amount
  BY MarkClaimed DEF Settle
<1>3. ASSUME NEW u \in Tokens
      PROVE  SumFunctionOnSet(Settled(u), Bettors)'
               = SumFunctionOnSet(Settled(u), Bettors)
                   + (IF u = t THEN a ELSE 0)
  <2> DEFINE f == Settled(u)
             g == [c \in Bettors |->
                     IF paidIn'[c] = u THEN paid'[c] ELSE 0]
             d == IF u = t THEN a ELSE 0
  <2>1. f[b] = 0 /\ g[b] = d /\ d \in Nat
    BY <1>1 DEF Settled
  <2>2. \A c \in Bettors \ {b} : g[c] = f[c]
    BY <1>1 DEF Settled
  <2>3. \A c \in Bettors : f[c] \in Nat
    BY TermsAreNat
  <2>4. g = Settled(u)'
    BY DEF Settled
  <2> HIDE DEF f, g, d
  <2>5. SumFunctionOnSet(g, Bettors) = SumFunctionOnSet(f, Bettors) + d
    BY ONLY b \in Bettors, <2>1, <2>2, <2>3, AddToOne
  <2>6. QED
    BY <2>4, <2>5 DEF f, d
<1>4. ASSUME NEW u \in Tokens
      PROVE  SumFunctionOnSet(Staked(u), Bettors)'
               = SumFunctionOnSet(Staked(u), Bettors)
  <2>1. Staked(u)' = Staked(u)
    BY <1>2 DEF Staked
  <2>2. QED
    BY <2>1
<1>5. QED
  BY <1>3, <1>4

-----------------------------------------------------------------------------
(* The inductive invariant. *)

LEMMA IInvInit == Init => IInv
<1> SUFFICES ASSUME Init PROVE IInv
  OBVIOUS
<1>1. TypeOK
  BY TypeInit
<1>2. \A b \in Bettors : /\ bets[b].side = None
                         /\ bets[b].amount = 0
                         /\ ~bets[b].claimed
                         /\ paid[b] = 0
  BY DEF Init, NoBet
<1>3. IsFiniteSet(Bettors)
  BY BettorsAssumption
<1>4. \A s \in Sides : SumFunctionOnSet(StakeOn(s), Bettors) = 0
  <2>1. TAKE s \in Sides
  <2>2. \A b \in Bettors : StakeOn(s)[b] = 0
    BY <1>2 DEF StakeOn
  <2>3. QED
    BY <1>3, <2>2, SumZero
<1>5. \A u \in Tokens : /\ SumFunctionOnSet(Staked(u), Bettors) = 0
                         /\ SumFunctionOnSet(Settled(u), Bettors) = 0
  <2>1. TAKE u \in Tokens
  <2>2. /\ \A b \in Bettors : Staked(u)[b] = 0
        /\ \A b \in Bettors : Settled(u)[b] = 0
    BY <1>2 DEF Staked, Settled
  <2>3. QED
    BY <1>3, <2>2, SumZero
<1>6. PoolsMatchBets
  BY <1>4 DEF Init, PoolsMatchBets
<1>7. NoVerdictMoney
  BY <1>2, <1>5 DEF Init, NoVerdictMoney, OnlyRefundsLeave
<1>8. NobodyClaimed /\ \A u \in Tokens : balance[u] = totalPool
  BY <1>2 DEF Init, NobodyClaimed
<1>9. TokensOnRecord
  BY <1>2 DEF Init, TokensOnRecord, HasBet
<1>10. QED
  BY <1>1, <1>2, <1>6, <1>7, <1>8, <1>9 DEF Init, IInv, ResolvedInWindow

LEMMA PlaceBetStep ==
    ASSUME IInv, TypeOK',
           NEW b \in Bettors, NEW s \in BetSides, NEW a \in BetAmounts,
           NEW t \in Tokens, PlaceBet(b, s, a, t)
    PROVE  IInv'
<1>1. /\ TypeOK /\ PoolsMatchBets /\ NoVerdictMoney /\ TokensOnRecord
      /\ ResolvedInWindow
  BY DEF IInv
<1>2. status = "Open" /\ status' = "Open" /\ ~HasBet(b)
  BY DEF PlaceBet, CanBet, state
<1>3. /\ NobodyClaimed /\ OnlyRefundsLeave
      /\ \A u \in Tokens : AllStaked(u) => balance[u] = totalPool
  BY <1>2 DEF IInv, NoVerdictMoney
<1>4. s \in Sides /\ a \in Nat
  BY InputsAssumption DEF PlaceBet, CanBet
<1>5. /\ bets' = [bets EXCEPT ![b] =
                     [side |-> s, amount |-> a, claimed |-> FALSE]]
      /\ stakedIn' = [stakedIn EXCEPT ![b] = t]
      /\ balance' = [balance EXCEPT ![t] = balance[t] + a]
      /\ UNCHANGED <<treasuryFees, paid, paidIn>>
  BY DEF PlaceBet
<1>6. /\ \A r \in Sides : SumFunctionOnSet(StakeOn(r), Bettors)'
                            = SumFunctionOnSet(StakeOn(r), Bettors)
                                + (IF r = s THEN a ELSE 0)
      /\ \A u \in Tokens : SumFunctionOnSet(Staked(u), Bettors)'
                            = SumFunctionOnSet(Staked(u), Bettors)
                                + (IF u = t THEN a ELSE 0)
  <2>1. TypeOK /\ ~HasBet(b) /\ s \in Sides /\ a \in Nat
    BY <1>1, <1>2, <1>4
  <2>2. /\ bets'[b].side = s /\ bets'[b].amount = a
        /\ \A c \in Bettors \ {b} : bets'[c] = bets[c]
        /\ stakedIn'[b] = t
        /\ \A c \in Bettors \ {b} : stakedIn'[c] = stakedIn[c]
    BY <1>1, <1>5 DEF TypeOK
  <2>3. QED
    BY <2>1, <2>2, BetAddsStake
<1>7. /\ bets'[b].side = s /\ ~bets'[b].claimed
      /\ \A c \in Bettors \ {b} : bets'[c] = bets[c]
      /\ stakedIn'[b] = t
      /\ \A c \in Bettors \ {b} : stakedIn'[c] = stakedIn[c]
  BY <1>1, <1>5 DEF TypeOK
<1>8. NobodyClaimed'
  BY <1>3, <1>7 DEF NobodyClaimed
<1>9. PoolsMatchBets'
  <2>1. pool \in [Sides -> Nat] /\ totalPool \in Nat
    BY <1>1 DEF TypeOK
  <2>2. pool' = [pool EXCEPT ![s] = pool[s] + a] /\ totalPool' = totalPool + a
    BY DEF PlaceBet
  <2>3. \A r \in Sides : pool'[r] = pool[r] + (IF r = s THEN a ELSE 0)
    BY <1>4, <2>1, <2>2
  <2>4. \A r \in Sides : pool'[r] = SumFunctionOnSet(StakeOn(r), Bettors)'
    BY <1>1, <1>6, <2>3 DEF PoolsMatchBets
  <2>5. totalPool' = pool'["FighterA"] + pool'["FighterB"] + pool'["Draw"]
    BY <1>1, <1>4, <2>1, <2>2, <2>3 DEF PoolsMatchBets
  <2>6. QED
    BY <2>4, <2>5 DEF PoolsMatchBets
<1>10. \A u \in Tokens : balance'[u] = balance[u] + (IF u = t THEN a ELSE 0)
  BY <1>1, <1>4, <1>5 DEF TypeOK
<1>11. \A c \in Bettors : paid'[c] = 0
  BY <1>3, <1>5 DEF OnlyRefundsLeave, NobodyClaimed
<1>12. OnlyRefundsLeave'
  <2>1. ASSUME NEW u \in Tokens
        PROVE  balance'[u] + SumFunctionOnSet(Settled(u), Bettors)'
                 = SumFunctionOnSet(Staked(u), Bettors)'
    <3>1. SumFunctionOnSet(Settled(u), Bettors)'
            = SumFunctionOnSet(Settled(u), Bettors)
      BY <1>5 DEF Settled
    <3>2. balance[u] + SumFunctionOnSet(Settled(u), Bettors)
            = SumFunctionOnSet(Staked(u), Bettors)
      BY <1>3 DEF OnlyRefundsLeave
    <3>3. balance[u] \in Nat /\ SumFunctionOnSet(Settled(u), Bettors) \in Nat
      BY <1>1, SumsAreNat DEF TypeOK
    <3>4. QED
      BY <1>4, <1>6, <1>10, <3>1, <3>2, <3>3
  <2>2. \A u \in Tokens : treasuryFees'[u] = 0
    BY <1>3, <1>5 DEF OnlyRefundsLeave
  <2>3. QED
    BY <1>8, <1>11, <2>1, <2>2 DEF OnlyRefundsLeave, NobodyClaimed
<1>13. ASSUME NEW u \in Tokens, AllStaked(u)'
       PROVE  balance'[u] = totalPool'
  <2>1. u = t
    BY <1>4, <1>7, <1>13 DEF AllStaked, HasBet
  <2>2. AllStaked(u)
    BY <1>2, <1>7, <1>13 DEF AllStaked, HasBet
  <2>3. QED
    BY <1>3, <1>10, <2>1, <2>2 DEF PlaceBet
<1>14. TokensOnRecord'
  <2>1. stakedIn'[b] # None /\ HasBet(b)'
    BY <1>4, <1>7, TokensAssumption DEF HasBet
  <2>2. paidIn'[b] = None /\ ~bets'[b].claimed
    BY <1>1, <1>3, <1>5, <1>7 DEF TokensOnRecord, NobodyClaimed
  <2>3. \A c \in Bettors \ {b} : /\ stakedIn'[c] # None <=> HasBet(c)'
                                 /\ paidIn'[c] # None <=> bets'[c].claimed
    BY <1>1, <1>5, <1>7 DEF TokensOnRecord, HasBet
  <2>4. QED
    BY <2>1, <2>2, <2>3 DEF TokensOnRecord
<1>15. outcome' = None /\ oracleUsed' = None
  BY <1>2 DEF IInv, PlaceBet, state
<1>16. QED
  BY <1>2, <1>8, <1>9, <1>11, <1>12, <1>13, <1>14, <1>15
     DEF IInv, NoVerdictMoney, ResolvedInWindow

(* Settling a bettor keeps the records in step with the pools and tokens.   *)
LEMMA SettleKeeps ==
    ASSUME TypeOK, PoolsMatchBets, TokensOnRecord, UNCHANGED <<pools, stakedIn>>,
           NEW b \in Bettors, NEW t \in Tokens, NEW a, Settle(b, t, a)
    PROVE  /\ PoolsMatchBets'
           /\ TokensOnRecord'
           /\ ~NobodyClaimed'
           /\ bets'[b].claimed
           /\ \A c \in Bettors : bets'[c].amount = bets[c].amount
           /\ \A c \in Bettors \ {b} : /\ bets'[c] = bets[c]
                                      /\ paid'[c] = paid[c]
<1>1. /\ bets'[b].claimed
      /\ \A c \in Bettors : /\ bets'[c].side = bets[c].side
                            /\ bets'[c].amount = bets[c].amount
      /\ \A c \in Bettors \ {b} : bets'[c] = bets[c]
  BY MarkClaimed DEF Settle
<1>2. /\ \A c \in Bettors \ {b} : paid'[c] = paid[c] /\ paidIn'[c] = paidIn[c]
      /\ paidIn'[b] = t
  BY DEF Settle, TypeOK
<1>3. PoolsMatchBets'
  BY <1>1, SameStakes
<1>4. TokensOnRecord'
  <2>1. paidIn'[b] # None /\ bets'[b].claimed
    BY <1>1, <1>2, TokensAssumption
  <2>2. \A c \in Bettors : stakedIn'[c] # None <=> HasBet(c)'
    BY <1>1 DEF TokensOnRecord, HasBet
  <2>3. \A c \in Bettors \ {b} : paidIn'[c] # None <=> bets'[c].claimed
    BY <1>1, <1>2 DEF TokensOnRecord
  <2>4. QED
    BY <2>1, <2>2, <2>3 DEF TokensOnRecord
<1>5. QED
  BY <1>1, <1>2, <1>3, <1>4 DEF NobodyClaimed

LEMMA ClaimWinningsStep ==
    ASSUME IInv, TypeOK', NEW b \in Bettors, NEW t \in Tokens,
           ClaimWinnings(b, t)
    PROVE  IInv'
<1>1. TypeOK /\ PoolsMatchBets /\ TokensOnRecord /\ ResolvedInWindow
  BY DEF IInv
<1>2. /\ status = "Resolved" /\ UNCHANGED state
      /\ UNCHANGED <<pools, stakedIn>>
      /\ Settle(b, t, Payout(b))
  BY DEF ClaimWinnings, MayClaim
<1>3. /\ PoolsMatchBets' /\ TokensOnRecord' /\ ~NobodyClaimed'
      /\ bets'[b].claimed
      /\ \A c \in Bettors \ {b} : /\ bets'[c] = bets[c]
                                 /\ paid'[c] = paid[c]
  BY <1>1, <1>2, SettleKeeps
<1>4. \A c \in Bettors : paid'[c] > 0 => bets'[c].claimed
  BY <1>3 DEF IInv
<1>5. outcome' # None /\ oracleUsed' # None
  BY <1>2 DEF IInv, state
<1>6. ResolvedInWindow'
  BY <1>1, <1>2 DEF ResolvedInWindow, state
<1>7. QED
  BY <1>2, <1>3, <1>4, <1>5, <1>6 DEF IInv, NoVerdictMoney, state

LEMMA ClaimRefundStep ==
    ASSUME IInv, TypeOK', NEW b \in Bettors, NEW t \in Tokens,
           ClaimRefund(b, t)
    PROVE  IInv'
<1>1. TypeOK /\ PoolsMatchBets /\ TokensOnRecord /\ ResolvedInWindow
  BY DEF IInv
<1>2. /\ status = "Cancelled" /\ UNCHANGED state
      /\ UNCHANGED <<pools, stakedIn>>
      /\ ~bets[b].claimed
      /\ Settle(b, t, bets[b].amount)
  BY DEF ClaimRefund, CanRefund
<1>3. OnlyRefundsLeave
  BY <1>2 DEF IInv, NoVerdictMoney
<1>4. /\ PoolsMatchBets' /\ TokensOnRecord' /\ ~NobodyClaimed'
      /\ bets'[b].claimed
      /\ \A c \in Bettors : bets'[c].amount = bets[c].amount
      /\ \A c \in Bettors \ {b} : /\ bets'[c] = bets[c]
                                 /\ paid'[c] = paid[c]
  BY <1>1, <1>2, SettleKeeps
<1>5. paid[b] = 0 /\ bets[b].amount \in Nat
  BY <1>1, <1>2, <1>3, BetFacts DEF OnlyRefundsLeave
<1>6. paid'[b] = bets[b].amount
  BY <1>1, <1>2, <1>5 DEF Settle, TypeOK
<1>7. OnlyRefundsLeave'
  <2>1. ASSUME NEW u \in Tokens
        PROVE  /\ balance'[u] + SumFunctionOnSet(Settled(u), Bettors)'
                    = SumFunctionOnSet(Staked(u), Bettors)'
               /\ treasuryFees'[u] = 0
    <3>1. /\ SumFunctionOnSet(Settled(u), Bettors)'
               = SumFunctionOnSet(Settled(u), Bettors)
                   + (IF u = t THEN bets[b].amount ELSE 0)
          /\ SumFunctionOnSet(Staked(u), Bettors)'
               = SumFunctionOnSet(Staked(u), Bettors)
      BY <1>1, <1>2, <1>5, SettleAddsOne
    <3>2. balance'[u] = balance[u] - (IF u = t THEN bets[b].amount ELSE 0)
      BY <1>1, <1>5 DEF ClaimRefund, TypeOK
    <3>3. /\ balance[u] + SumFunctionOnSet(Settled(u), Bettors)
               = SumFunctionOnSet(Staked(u), Bettors)
          /\ treasuryFees[u] = 0
      BY <1>3 DEF OnlyRefundsLeave
    <3>4. balance[u] \in Nat /\ SumFunctionOnSet(Settled(u), Bettors) \in Nat
      BY <1>1, SumsAreNat DEF TypeOK
    <3>5. treasuryFees' = treasuryFees
      BY DEF ClaimRefund
    <3>6. QED
      BY <1>5, <3>1, <3>2, <3>3, <3>4, <3>5
  <2>2. \A c \in Bettors :
          paid'[c] = IF bets'[c].claimed THEN bets'[c].amount ELSE 0
    BY <1>3, <1>4, <1>6 DEF OnlyRefundsLeave
  <2>3. QED
    BY <2>1, <2>2 DEF OnlyRefundsLeave
<1>8. \A c \in Bettors : paid'[c] > 0 => bets'[c].claimed
  BY <1>4 DEF IInv
<1>9. outcome' = None /\ oracleUsed' = None
  BY <1>2 DEF IInv, state
<1>10. QED
  BY <1>2, <1>4, <1>7, <1>8, <1>9
     DEF IInv, NoVerdictMoney, ResolvedInWindow, state

(* The operations that move no money and touch no record keep everything    *)
(* the invariant says of records, pools and balance.                        *)
LEMMA RecordsUntouched ==
    ASSUME IInv, UNCHANGED <<pools, bets, money>>
    PROVE  /\ PoolsMatchBets'
           /\ NobodyClaimed' <=> NobodyClaimed
           /\ NobodyClaimed' =>
                \A u \in Tokens : AllStaked(u)' => balance'[u] = totalPool'
           /\ TokensOnRecord'
           /\ \A b \in Bettors : paid'[b] > 0 => bets'[b].claimed
           /\ status \in {"Open", "Locked", "Cancelled"} => NoVerdictMoney'
<1>1. /\ UNCHANGED <<pool, totalPool, bets, balance, treasuryFees, paid>>
      /\ UNCHANGED <<stakedIn, paidIn>>
  BY DEF pools, money
<1>2. PoolsMatchBets'
  BY SameStakes DEF IInv
<1>3. NobodyClaimed' <=> NobodyClaimed
  BY <1>1 DEF NobodyClaimed
<1>4. ASSUME NobodyClaimed', NEW u \in Tokens, AllStaked(u)'
      PROVE  balance'[u] = totalPool'
  <2>1. AllStaked(u)
    BY <1>1, <1>4 DEF AllStaked, HasBet
  <2>2. QED
    BY <1>1, <1>3, <1>4, <2>1 DEF IInv
<1>5. TokensOnRecord'
  BY <1>1 DEF IInv, TokensOnRecord, HasBet
<1>6. \A b \in Bettors : paid'[b] > 0 => bets'[b].claimed
  BY <1>1 DEF IInv
<1>7. \A u \in Tokens : Staked(u)' = Staked(u) /\ Settled(u)' = Settled(u)
  BY <1>1 DEF Staked, Settled
<1>8. OnlyRefundsLeave => OnlyRefundsLeave'
  BY <1>1, <1>7 DEF OnlyRefundsLeave
<1>9. status \in {"Open", "Locked", "Cancelled"} => NoVerdictMoney'
  BY <1>8 DEF IInv, NoVerdictMoney
<1>10. QED
  BY <1>2, <1>3, <1>4, <1>5, <1>6, <1>9

LEMMA ResolveMarketStep ==
    ASSUME IInv, TypeOK', NEW o \in Oracles, NEW x \in ReportOutcomes,
           ResolveMarket(o, x)
    PROVE  IInv'
<1>1. UNCHANGED <<pools, bets, money, now>>
  BY DEF ResolveMarket
<1>2. status = "Locked" /\ now <= Deadline /\ LockThreshold <= now
  BY DEF ResolveMarket, CanReport, IInv
<1>3. /\ PoolsMatchBets'
      /\ NobodyClaimed' <=> NobodyClaimed
      /\ NobodyClaimed' =>
           \A u \in Tokens : AllStaked(u)' => balance'[u] = totalPool'
      /\ TokensOnRecord'
      /\ \A b \in Bettors : paid'[b] > 0 => bets'[b].claimed
      /\ NoVerdictMoney'
  BY <1>1, <1>2, RecordsUntouched
<1>4. x # None
  BY InputsAssumption
<1>5. CASE Decisive(o, x)
  <2>1. /\ status' = "Resolved" /\ outcome' = x
        /\ oracleUsed' = "Primary" /\ resolvedAt' = now
    BY <1>5 DEF ResolveMarket
  <2>2. ResolvedInWindow'
    BY <1>2, <2>1 DEF ResolvedInWindow, LockThreshold, Deadline
  <2>3. QED
    BY <1>3, <1>4, <2>1, <2>2 DEF IInv
<1>6. CASE ~Decisive(o, x)
  <2>1. UNCHANGED state
    BY <1>6 DEF ResolveMarket
  <2>2. ResolvedInWindow'
    BY <2>1 DEF IInv, ResolvedInWindow, LockThreshold, Deadline, state
  <2>3. NobodyClaimed
    BY <1>2 DEF IInv
  <2>4. LockThreshold' <= now'
    BY <1>1, <1>2 DEF LockThreshold
  <2>5. (outcome # None <=> status \in {"Resolved", "Disputed"})'
        /\ (oracleUsed # None <=> status \in {"Resolved", "Disputed"})'
    BY <2>1 DEF IInv, state
  <2>6. QED
    BY <1>3, <2>2, <2>3, <2>4, <2>5 DEF IInv
<1>7. QED
  BY <1>5, <1>6

(* lock_market, cancel_market and the two dispute operations. *)
LEMMA StatusStep ==
    ASSUME IInv, TypeOK',
           \/ LockMarket
           \/ CancelMarket
           \/ DisputeMarket
           \/ \E x \in ReportOutcomes : ResolveDispute(x)
    PROVE  IInv'
<1>1. UNCHANGED <<pools, bets, money>>
  BY DEF LockMarket, CancelMarket, DisputeMarket, ResolveDispute
<1>2. now' = now
  BY DEF LockMarket, CancelMarket, DisputeMarket, ResolveDispute
<1>3. /\ PoolsMatchBets'
      /\ NobodyClaimed' <=> NobodyClaimed
      /\ NobodyClaimed' =>
           \A u \in Tokens : AllStaked(u)' => balance'[u] = totalPool'
      /\ TokensOnRecord'
      /\ \A b \in Bettors : paid'[b] > 0 => bets'[b].claimed
      /\ status \in {"Open", "Locked", "Cancelled"} => NoVerdictMoney'
  BY <1>1, RecordsUntouched
<1>4. CASE LockMarket
  <2>1. /\ status = "Open" /\ status' = "Locked"
        /\ UNCHANGED <<outcome, oracleUsed, resolvedAt>>
        /\ LockThreshold <= now
    BY <1>4 DEF LockMarket, CanLock, LockThreshold, TypeOK, IInv
  <2>2. outcome = None /\ oracleUsed = None /\ NobodyClaimed
    BY <2>1 DEF IInv
  <2>3. LockThreshold' <= now'
    BY <1>2, <2>1 DEF LockThreshold
  <2>4. QED
    BY <1>3, <2>1, <2>2, <2>3 DEF IInv, ResolvedInWindow
<1>5. CASE CancelMarket
  <2>1. /\ status \in {"Open", "Locked"} /\ status' = "Cancelled"
        /\ UNCHANGED <<outcome, oracleUsed, resolvedAt>>
    BY <1>5 DEF CancelMarket, CanCancel
  <2>2. outcome = None /\ oracleUsed = None
    BY <2>1 DEF IInv
  <2>3. QED
    BY <1>3, <2>1, <2>2 DEF IInv, ResolvedInWindow
<1>6. CASE DisputeMarket
  <2>1. /\ status = "Resolved" /\ status' = "Disputed"
        /\ UNCHANGED <<outcome, oracleUsed, resolvedAt>>
    BY <1>6 DEF DisputeMarket
  <2>2. outcome # None /\ oracleUsed # None /\ ResolvedInWindow
    BY <2>1 DEF IInv
  <2>3. ResolvedInWindow'
    BY <2>1, <2>2 DEF ResolvedInWindow, LockThreshold, Deadline
  <2>4. QED
    BY <1>3, <2>1, <2>2, <2>3 DEF IInv, NoVerdictMoney
<1>7. ASSUME NEW x \in ReportOutcomes, ResolveDispute(x) PROVE IInv'
  <2>1. /\ status = "Disputed" /\ status' = "Resolved"
        /\ outcome' = x /\ oracleUsed' = "Admin"
    BY <1>7 DEF ResolveDispute
  <2>2. x # None
    BY InputsAssumption
  <2>3. QED
    BY <1>3, <2>1, <2>2 DEF IInv, ResolvedInWindow, NoVerdictMoney
<1>8. QED
  BY <1>4, <1>5, <1>6, <1>7

(* Pausing, whitelist changes, the clock, and stuttering. *)
LEMMA OtherStep ==
    ASSUME IInv, TypeOK', UNCHANGED <<state, pools, bets, money>>,
           now' = now \/ now' = now + 1
    PROVE  IInv'
<1>1. /\ PoolsMatchBets'
      /\ NobodyClaimed' <=> NobodyClaimed
      /\ NobodyClaimed' =>
           \A u \in Tokens : AllStaked(u)' => balance'[u] = totalPool'
      /\ TokensOnRecord'
      /\ \A b \in Bettors : paid'[b] > 0 => bets'[b].claimed
      /\ status \in {"Open", "Locked", "Cancelled"} => NoVerdictMoney'
  BY RecordsUntouched
<1>2. NoVerdictMoney'
  BY <1>1 DEF NoVerdictMoney, state
<1>3. now \in Nat /\ LockThreshold \in Nat /\ LockThreshold' = LockThreshold
  BY TimeAssumption DEF IInv, TypeOK, LockThreshold
<1>4. status' = "Locked" => LockThreshold' <= now'
  BY <1>3 DEF IInv, state
<1>5. ResolvedInWindow'
  BY DEF IInv, ResolvedInWindow, LockThreshold, Deadline, state
<1>6. status' \in {"Open", "Locked"} => NobodyClaimed'
  BY <1>1 DEF IInv, state
<1>7. (outcome # None <=> status \in {"Resolved", "Disputed"})'
      /\ (oracleUsed # None <=> status \in {"Resolved", "Disputed"})'
  BY DEF IInv, state
<1>8. QED
  BY <1>1, <1>2, <1>4, <1>5, <1>6, <1>7 DEF IInv

LEMMA IInvStep ==
    ASSUME IInv, [Next]_vars
    PROVE  IInv'
<1>1. TypeOK'
  BY TypeStep DEF IInv
<1>2. CASE UNCHANGED vars
  BY <1>1, <1>2, OtherStep DEF vars
<1>3. ASSUME NEW b \in Bettors, NEW s \in BetSides, NEW a \in BetAmounts,
             NEW t \in Tokens, PlaceBet(b, s, a, t)
      PROVE  IInv'
  BY <1>1, <1>3, PlaceBetStep
<1>4. ASSUME NEW o \in Oracles, NEW x \in ReportOutcomes, ResolveMarket(o, x)
      PROVE  IInv'
  BY <1>1, <1>4, ResolveMarketStep
<1>5. ASSUME NEW b \in Bettors, NEW t \in Tokens, ClaimWinnings(b, t)
      PROVE  IInv'
  BY <1>1, <1>5, ClaimWinningsStep
<1>6. ASSUME NEW b \in Bettors, NEW t \in Tokens, ClaimRefund(b, t)
      PROVE  IInv'
  BY <1>1, <1>6, ClaimRefundStep
<1>7. CASE LockMarket \/ CancelMarket \/ DisputeMarket
             \/ \E x \in ReportOutcomes : ResolveDispute(x)
  BY <1>1, <1>7, StatusStep
<1>8. CASE EmergencyPause \/ EmergencyUnpause
  BY <1>1, <1>8, OtherStep DEF EmergencyPause, EmergencyUnpause
<1>9. ASSUME NEW o \in Oracles, AddOracle(o) \/ RemoveOracle(o) PROVE IInv'
  BY <1>1, <1>9, OtherStep DEF AddOracle, RemoveOracle
<1>10. CASE Tick
  BY <1>1, <1>10, OtherStep DEF Tick
<1>11. QED
  BY <1>2, <1>3, <1>4, <1>5, <1>6, <1>7, <1>8, <1>9, <1>10 DEF Next

(* The inductive invariant holds in every reachable state. *)
THEOREM Inductive == Spec => []IInv
<1>1. IInv /\ [Next]_vars => IInv'
  BY IInvStep
<1>2. QED
  BY <1>1, IInvInit, PTL DEF Spec

-----------------------------------------------------------------------------
(* Safety invariants. *)

(* place_bet keeps the pools in MarketState equal to the sums of the bet    *)
(* records, and no other function disturbs either.                          *)
THEOREM PoolsAlwaysMatchBets == Spec => []PoolsMatchBets
<1>1. IInv => PoolsMatchBets
  BY DEF IInv
<1>2. QED
  BY <1>1, Inductive, PTL

(* While nothing but refunds in kind has left, a stake not yet refunded is  *)
(* still there, in its token: what was settled of the token, and this stake,*)
(* are together at most what was staked of it.                              *)
LEMMA RefundWithinBalance ==
    ASSUME TypeOK, TokensOnRecord, OnlyRefundsLeave, RefundedInKind,
           NEW b \in Bettors, HasBet(b), ~bets[b].claimed
    PROVE  bets[b].amount <= balance[stakedIn[b]]
<1> DEFINE t == stakedIn[b]
           f == Staked(t)
           h == Settled(t)
           g == [c \in Bettors |-> IF c = b THEN f[b] ELSE h[c]]
<1>1. t \in Tokens
  BY DEF TypeOK, TokensOnRecord
<1>2. IsFiniteSet(Bettors)
  BY BettorsAssumption
<1>3. f[b] = bets[b].amount /\ h[b] = 0
  BY DEF Staked, Settled, OnlyRefundsLeave
<1>4. \A c \in Bettors : h[c] <= f[c]
  <2>1. TAKE c \in Bettors
  <2>2. bets[c].amount \in Nat /\ paid[c] \in Nat
    BY BetFacts
  <2>3. CASE bets[c].claimed
    BY <2>2, <2>3 DEF Staked, Settled, OnlyRefundsLeave, RefundedInKind
  <2>4. CASE ~bets[c].claimed
    BY <2>2, <2>4 DEF Staked, Settled, OnlyRefundsLeave
  <2>5. QED
    BY <2>3, <2>4
<1>5. /\ \A c \in Bettors : f[c] \in Nat
      /\ \A c \in Bettors : h[c] \in Nat
  BY <1>1, TermsAreNat
<1>6. balance[t] + SumFunctionOnSet(h, Bettors) = SumFunctionOnSet(f, Bettors)
  BY <1>1 DEF OnlyRefundsLeave
<1>7. balance[t] \in Nat /\ SumFunctionOnSet(h, Bettors) \in Nat
  BY <1>1, SumsAreNat DEF TypeOK
<1> HIDE DEF t, f, h
<1>8. g[b] = f[b] /\ \A c \in Bettors \ {b} : g[c] = h[c]
  OBVIOUS
<1>9. \A c \in Bettors : g[c] \in Int /\ f[c] \in Int /\ g[c] <= f[c]
  BY <1>4, <1>5
<1> HIDE DEF g
<1>10. SumFunctionOnSet(g, Bettors) <= SumFunctionOnSet(f, Bettors)
  BY ONLY <1>2, <1>9, SumMonotone
<1>11. f[b] \in Nat
  BY <1>5
<1>12. SumFunctionOnSet(g, Bettors) = SumFunctionOnSet(h, Bettors) + f[b]
  BY ONLY b \in Bettors, <1>3, <1>5, <1>8, <1>11, AddToOne
<1>13. SumFunctionOnSet(f, Bettors) \in Int
  BY <1>6, <1>7
<1>14. f[b] <= balance[t]
  BY <1>6, <1>7, <1>10, <1>11, <1>12, <1>13
<1>15. QED
  BY <1>3, <1>14 DEF t

(* Every refund of a cancelled market is covered in the token of its stake, *)
(* as long as the others are taken in theirs.                               *)
THEOREM RefundsAlwaysCovered == Spec => []RefundsCovered
<1>1. IInv => RefundsCovered
  BY RefundWithinBalance DEF IInv, NoVerdictMoney, RefundsCovered
<1>2. QED
  BY <1>1, Inductive, PTL

(* A stake is part of the pool of its side, which is part of the total. *)
LEMMA StakeWithinPool ==
    ASSUME TypeOK, PoolsMatchBets, NEW b \in Bettors, HasBet(b)
    PROVE  /\ bets[b].side \in Sides
           /\ bets[b].amount \in Nat
           /\ pool[bets[b].side] \in Nat
           /\ bets[b].amount <= pool[bets[b].side]
           /\ pool[bets[b].side] <= totalPool
<1> DEFINE s == bets[b].side
<1>1. s \in Sides /\ bets[b].amount \in Nat
  BY BetFacts DEF HasBet
<1>2. \A t \in Sides : pool[t] \in Nat
  BY DEF TypeOK
<1>3. bets[b].amount = StakeOn(s)[b]
  BY DEF StakeOn
<1>4. IsFiniteSet(Bettors) /\ \A c \in Bettors : StakeOn(s)[c] \in Nat
  BY <1>1, BettorsAssumption, TermsAreNat
<1>5. StakeOn(s)[b] <= SumFunctionOnSet(StakeOn(s), Bettors)
  BY <1>4, SumAtLeast
<1>6. pool[s] = SumFunctionOnSet(StakeOn(s), Bettors)
  BY <1>1 DEF PoolsMatchBets
<1>7. pool[s] <= totalPool
  BY <1>1, <1>2 DEF PoolsMatchBets
<1>8. QED
  BY <1>1, <1>2, <1>3, <1>5, <1>6, <1>7

(* Whoever claims first finds the fee and the payout in the contract, in    *)
(* the token that everybody staked.                                         *)
THEOREM FirstClaimAlwaysPayable == Spec => []FirstClaimPayable
<1>1. ASSUME IInv, status = "Resolved", NobodyClaimed,
             NEW t \in Tokens, AllStaked(t),
             NEW b \in Bettors, MayClaim(b)
      PROVE  Fee + Payout(b) <= balance[t]
  <2>1. TypeOK /\ PoolsMatchBets /\ HasBet(b) /\ balance[t] = totalPool
    BY <1>1 DEF IInv, MayClaim, IsWinner
  <2>2. /\ bets[b].amount \in Nat
        /\ pool[bets[b].side] \in Nat
        /\ bets[b].amount <= pool[bets[b].side]
    BY <2>1, StakeWithinPool
  <2>3. totalPool \in Nat
    BY <2>1 DEF TypeOK
  <2>4. Payout(b) \in Nat /\ Payout(b) <= NetOf(totalPool)
    BY <2>2, <2>3, PayoutBounds DEF Payout
  <2>5. /\ Fee \in Nat /\ NetOf(totalPool) \in Nat
        /\ Fee + NetOf(totalPool) = totalPool
    BY <2>3, FeeBounds DEF Fee
  <2>6. QED
    BY <2>1, <2>3, <2>4, <2>5
<1>2. IInv => FirstClaimPayable
  BY <1>1 DEF FirstClaimPayable
<1>3. QED
  BY <1>2, Inductive, PTL

(* Floor division never lets the winners of a side be owed more than the    *)
(* net pool, however many they are.                                         *)
THEOREM PayoutsAlwaysWithinNetPool == Spec => []PayoutsWithinNetPool
<1>1. ASSUME IInv, NEW s \in Sides
      PROVE  SumFunctionOnSet(
               [b \in Bettors |-> IF bets[b].side = s THEN Payout(b) ELSE 0],
               Bettors) <= NetOf(totalPool)
  <2> DEFINE owed == [b \in Bettors |->
                        IF bets[b].side = s THEN Payout(b) ELSE 0]
             stakes == StakeOn(s)
             net == NetOf(totalPool)
             w == pool[s]
  <2>1. TypeOK /\ PoolsMatchBets
    BY <1>1 DEF IInv
  <2>2. w \in Nat /\ totalPool \in Nat
    BY <2>1 DEF TypeOK
  <2>3. net \in Nat
    BY <2>2, FeeBounds
  <2>4. IsFiniteSet(Bettors)
    BY BettorsAssumption
  <2>5. \A b \in Bettors : stakes[b] \in Nat
    BY <2>1, TermsAreNat
  <2>6. SumFunctionOnSet(stakes, Bettors) = w
    BY <2>1 DEF PoolsMatchBets
  <2>7. \A b \in Bettors : owed[b] \in Nat /\ w * owed[b] <= net * stakes[b]
    <3>1. SUFFICES ASSUME NEW b \in Bettors
                   PROVE  owed[b] \in Nat /\ w * owed[b] <= net * stakes[b]
      OBVIOUS
    <3>2. bets[b].amount \in Nat
      BY <2>1, BetFacts
    <3>3. CASE bets[b].side # s
      BY <2>2, <2>3, <3>3 DEF StakeOn
    <3>4. CASE bets[b].side = s /\ w = 0
      <4>1. owed[b] = 0 /\ stakes[b] \in Nat
        BY <2>5, <3>4 DEF Payout, PayoutOf
      <4>2. net * stakes[b] \in Nat
        BY <2>3, <4>1
      <4>3. QED
        BY <2>2, <4>1, <4>2
    <3>5. CASE bets[b].side = s /\ w > 0
      <4>1. owed[b] = (bets[b].amount * net) \div w
        BY <3>5 DEF Payout, PayoutOf
      <4>2. stakes[b] = bets[b].amount
        BY <3>5 DEF StakeOn
      <4> HIDE DEF owed, stakes, net, w
      <4>3. bets[b].amount * net \in Nat
        BY <2>3, <3>2
      <4>4. /\ (bets[b].amount * net) \div w \in Nat
            /\ w * ((bets[b].amount * net) \div w) <= bets[b].amount * net
        BY <2>2, <3>5, <4>3, DivBound
      <4>5. QED
        BY <2>3, <3>2, <4>1, <4>2, <4>4
    <3>6. QED
      BY <2>2, <3>3, <3>4, <3>5
  <2> HIDE DEF owed, stakes, net, w
  <2>8. w * SumFunctionOnSet(owed, Bettors)
          <= net * SumFunctionOnSet(stakes, Bettors)
    <3>1. \A b \in Bettors : /\ stakes[b] \in Int /\ owed[b] \in Int
                             /\ w * owed[b] <= net * stakes[b]
      BY <2>5, <2>7
    <3>2. w \in Int /\ net \in Int
      BY <2>2, <2>3
    <3>3. QED
      BY ONLY <2>4, <3>1, <3>2, SumScaled
  <2>9. SumFunctionOnSet(owed, Bettors) \in Nat
    BY ONLY <2>4, <2>7, SumAtLeast
  <2>10. CASE w > 0
    <3>1. w * SumFunctionOnSet(owed, Bettors) <= w * net
      BY <2>2, <2>3, <2>6, <2>8
    <3>2. SumFunctionOnSet(owed, Bettors) <= net
      BY <2>2, <2>3, <2>9, <2>10, <3>1
    <3>3. QED
      BY <3>2 DEF owed, net
  <2>11. CASE w = 0
    <3>1. \A b \in Bettors : owed[b] = 0
      BY <2>11 DEF owed, w, Payout, PayoutOf
    <3>2. SumFunctionOnSet(owed, Bettors) = 0
      BY ONLY <2>4, <3>1, SumZero
    <3>3. SumFunctionOnSet(owed, Bettors) <= net
      BY <2>3, <3>2
    <3>4. QED
      BY <3>3 DEF owed, net
  <2>12. QED
    BY <2>2, <2>10, <2>11
<1>2. IInv => PayoutsWithinNetPool
  BY <1>1 DEF PayoutsWithinNetPool
<1>3. QED
  BY <1>2, Inductive, PTL

(* A verdict of the oracles falls between the close of betting and the end  *)
(* of the resolution window.                                                *)
THEOREM AlwaysResolvedInWindow == Spec => []ResolvedInWindow
<1>1. IInv => ResolvedInWindow
  BY DEF IInv
<1>2. QED
  BY <1>1, Inductive, PTL

-----------------------------------------------------------------------------
(* Action properties. *)

(* Once a bettor has been sent tokens no later operation sends more, even   *)
(* when a dispute makes the bettor a winner again.                          *)
THEOREM BettorsPaidAtMostOnce == Spec => PaidAtMostOnce
<1>1. ASSUME IInv, [Next]_vars, NEW b \in Bettors, paid[b] > 0
      PROVE  paid'[b] = paid[b]
  <2>1. paid \in [Bettors -> Nat] /\ bets[b].claimed
    BY <1>1 DEF IInv, TypeOK
  <2>2. ASSUME NEW c \in Bettors, NEW t \in Tokens, ClaimWinnings(c, t)
        PROVE  paid'[b] = paid[b]
    <3>1. c # b
      BY <2>1, <2>2 DEF ClaimWinnings, MayClaim
    <3>2. QED
      BY <2>1, <2>2, <3>1 DEF ClaimWinnings, Settle
  <2>3. ASSUME NEW c \in Bettors, NEW t \in Tokens, ClaimRefund(c, t)
        PROVE  paid'[b] = paid[b]
    <3>1. c # b
      BY <2>1, <2>3 DEF ClaimRefund, CanRefund
    <3>2. QED
      BY <2>1, <2>3, <3>1 DEF ClaimRefund, Settle
  <2>4. CASE UNCHANGED money
    BY <2>4 DEF money
  <2>5. QED
    BY <1>1, <2>2, <2>3, <2>4
       DEF Next, vars, money, PlaceBet, LockMarket, ResolveMarket,
           CancelMarket, DisputeMarket, ResolveDispute, EmergencyPause,
           EmergencyUnpause, AddOracle, RemoveOracle, Tick
<1>2. IInv /\ [Next]_vars
        => [\A b \in Bettors : paid[b] > 0 => paid'[b] = paid[b]]_vars
  BY <1>1
<1>3. QED
  BY <1>2, Inductive, PTL DEF Spec, PaidAtMostOnce

(* resolve_market cannot overturn a verdict; only resolve_dispute can. *)
THEOREM OutcomeIsFinal == Spec => OutcomeFinal
<1>1. ASSUME IInv, [Next]_vars, outcome # None, outcome' # outcome
      PROVE  status = "Disputed" /\ oracleUsed' = "Admin"
  <2>1. status \in {"Resolved", "Disputed"}
    BY <1>1 DEF IInv
  <2>2. ASSUME NEW o \in Oracles, NEW x \in ReportOutcomes,
               ResolveMarket(o, x)
        PROVE  FALSE
    BY <2>1, <2>2 DEF ResolveMarket, CanReport
  <2>3. ASSUME NEW x \in ReportOutcomes, ResolveDispute(x)
        PROVE  status = "Disputed" /\ oracleUsed' = "Admin"
    BY <2>3 DEF ResolveDispute
  <2>4. QED
    BY <1>1, <2>2, <2>3
       DEF Next, vars, state, PlaceBet, LockMarket, ClaimWinnings,
           ClaimRefund, CancelMarket, DisputeMarket, EmergencyPause,
           EmergencyUnpause, AddOracle, RemoveOracle, Tick
<1>2. IInv /\ [Next]_vars
        => [outcome # None /\ outcome' # outcome
              => status = "Disputed" /\ oracleUsed' = "Admin"]_vars
  BY <1>1
<1>3. QED
  BY <1>2, Inductive, PTL DEF Spec, OutcomeFinal

(* An oracle verdict needs the reports of two different oracles, however    *)
(* the whitelist changes in between.                                        *)
THEOREM TwoOraclesAlwaysDecide == Spec => TwoOraclesDecide
<1> DEFINE Agreed == \E p \in Reporters, q \in whitelist :
                        p # q /\ pending[p] = outcome' /\ q \notin Reporters
<1>1. ASSUME [Next]_vars, status = "Locked", status' = "Resolved"
      PROVE  Agreed
  <2>1. PICK o \in Oracles, x \in ReportOutcomes : ResolveMarket(o, x)
    BY <1>1
       DEF Next, vars, state, PlaceBet, LockMarket, ClaimWinnings,
           ClaimRefund, CancelMarket, DisputeMarket, ResolveDispute,
           EmergencyPause, EmergencyUnpause, AddOracle, RemoveOracle, Tick
  <2>2. Decisive(o, x)
    BY <1>1, <2>1 DEF ResolveMarket, state
  <2>3. outcome' = x /\ o \in whitelist /\ o \notin Reporters
    BY <2>1, <2>2 DEF ResolveMarket, CanReport
  <2>4. Agreeing(o, x) # {}
    <3>1. SUFFICES ASSUME Agreeing(o, x) = {} PROVE FALSE
      OBVIOUS
    <3>2. Cardinality(Agreeing(o, x)) = 0
      BY <3>1, FS_EmptySet
    <3>3. QED
      BY <2>2, <3>2 DEF Decisive
  <2>5. PICK p \in Reporters \ {o} : pending[p] = x
    BY <2>4 DEF Agreeing
  <2>6. QED
    BY <2>3, <2>5
<1>2. [Next]_vars
        => [status = "Locked" /\ status' = "Resolved" =>
              \E p \in Reporters, q \in whitelist :
                  /\ p # q
                  /\ pending[p] = outcome'
                  /\ q \notin Reporters]_vars
  BY <1>1
<1>3. QED
  BY <1>2, PTL DEF Spec, TwoOraclesDecide

(* A report, once stored, is never replaced before the vote is decided. *)
THEOREM ReportsAlwaysStand == Spec => ReportsStand
<1> DEFINE Kept == \A o \in Reporters : pending'[o] = pending[o]
<1>1. ASSUME TypeOK, [Next]_vars, status' # "Resolved"
      PROVE  Kept
  <2>1. ASSUME NEW o \in Oracles, NEW x \in ReportOutcomes,
               ResolveMarket(o, x)
        PROVE  Kept
    <3>1. o \notin Reporters /\ pending' = [pending EXCEPT ![o] = x]
      BY <1>1, <2>1 DEF ResolveMarket, CanReport
    <3>2. QED
      BY <1>1, <3>1 DEF TypeOK, Reporters
  <2>2. CASE UNCHANGED pending
    BY <2>2
  <2>3. QED
    BY <1>1, <2>1, <2>2
       DEF Next, vars, PlaceBet, LockMarket, ClaimWinnings, ClaimRefund,
           CancelMarket, DisputeMarket, ResolveDispute, EmergencyPause,
           EmergencyUnpause, AddOracle, RemoveOracle, Tick
<1>2. TypeOK /\ [Next]_vars => [status' = "Resolved" \/ Kept]_vars
  BY <1>1
<1>3. QED
  BY <1>2, TypeCorrect, PTL DEF Spec, ReportsStand

(* What estimate_payout quotes before a bet is what the formula of          *)
(* claim_winnings gives for it right after.                                 *)
THEOREM EstimateIsAlwaysHonest == Spec => EstimateIsHonest
<1>1. ASSUME IInv, [Next]_vars, NEW b \in Bettors, ~HasBet(b), HasBet(b)'
      PROVE  Payout(b)' = EstimatePayout(bets'[b].side, bets'[b].amount)
  <2>1. TypeOK
    BY <1>1 DEF IInv
  <2>2. bets'[b].side # bets[b].side
    BY <1>1 DEF HasBet
  <2>3. PICK c \in Bettors, s \in BetSides, a \in BetAmounts, t \in Tokens :
          PlaceBet(c, s, a, t)
    <3>1. ASSUME NEW c \in Bettors, NEW t \in Tokens, ClaimWinnings(c, t)
          PROVE  FALSE
      BY <2>1, <2>2, <3>1, MarkClaimed DEF ClaimWinnings, Settle
    <3>2. ASSUME NEW c \in Bettors, NEW t \in Tokens, ClaimRefund(c, t)
          PROVE  FALSE
      BY <2>1, <2>2, <3>2, MarkClaimed DEF ClaimRefund, Settle
    <3>3. bets' # bets
      BY <2>2
    <3>4. QED
      BY <1>1, <3>1, <3>2, <3>3
         DEF Next, vars, LockMarket, ResolveMarket, CancelMarket,
             DisputeMarket, ResolveDispute, EmergencyPause,
             EmergencyUnpause, AddOracle, RemoveOracle, Tick
  <2>4. s \in Sides
    BY InputsAssumption
  <2>5. c = b
    BY <2>1, <2>2, <2>3 DEF PlaceBet, TypeOK
  <2>6. bets'[b].side = s /\ bets'[b].amount = a
    BY <2>1, <2>3, <2>5 DEF PlaceBet, TypeOK
  <2>7. pool'[s] = pool[s] + a /\ totalPool' = totalPool + a
    BY <2>1, <2>3, <2>4 DEF PlaceBet, TypeOK
  <2>8. status = "Open"
    BY <2>3 DEF PlaceBet, CanBet
  <2>9. Payout(b)' = PayoutOf(a, pool[s] + a, totalPool + a)
    BY <2>6, <2>7 DEF Payout, PayoutOf, NetOf, FeeOf
  <2>10. QED
    BY <2>6, <2>8, <2>9 DEF EstimatePayout
<1>2. IInv /\ [Next]_vars
        => [\A b \in Bettors : ~HasBet(b) /\ HasBet(b)' =>
              Payout(b)' = EstimatePayout(bets'[b].side, bets'[b].amount)]_vars
  BY <1>1
<1>3. QED
  BY <1>2, Inductive, PTL DEF Spec, EstimateIsHonest

-----------------------------------------------------------------------------
(* The contract implements Escrow. *)

LEMMA EscrowInit == Init => E!Init
<1> SUFFICES ASSUME Init PROVE E!Init
  OBVIOUS
<1>1. \A b \in Bettors : bets[b].amount = 0 /\ bets[b].claimed = FALSE
  BY DEF Init, NoBet
<1>2. PhaseOf(status) = "betting"
  BY DEF Init, PhaseOf
<1>3. paid = [b \in Bettors |-> 0] /\ balance = [t \in Tokens |-> 0]
  BY DEF Init
<1>4. [b \in Bettors |-> bets[b].amount] = [b \in Bettors |-> 0]
  BY <1>1
<1>5. [b \in Bettors |-> bets[b].claimed] = [b \in Bettors |-> FALSE]
  BY <1>1
<1>6. QED
  BY <1>2, <1>3, <1>4, <1>5 DEF E!Init

LEMMA EscrowStep ==
    ASSUME IInv, IInv', [Next]_vars
    PROVE  [E!Next]_(E!vars)
<1> DEFINE stake == [b \in Bettors |-> bets[b].amount]
           settled == [b \in Bettors |-> bets[b].claimed]
<1>1. TypeOK /\ TypeOK'
  BY DEF IInv
<1>2. CASE UNCHANGED <<status, bets, money>>
  BY <1>2 DEF E!vars, money
<1>3. ASSUME NEW b \in Bettors, NEW s \in BetSides, NEW a \in BetAmounts,
             NEW t \in Tokens, PlaceBet(b, s, a, t)
      PROVE  E!Stake(b, t)
  <2>1. status = "Open" /\ status' = status /\ bets[b] = NoBet /\ a \in Nat
    BY <1>1, <1>3, BetFacts, InputsAssumption DEF PlaceBet, CanBet, state
  <2>2. /\ bets' = [bets EXCEPT ![b] =
                      [side |-> s, amount |-> a, claimed |-> FALSE]]
        /\ balance' = [balance EXCEPT ![t] = balance[t] + a] /\ paid' = paid
    BY <1>3 DEF PlaceBet
  <2>3. /\ bets'[b].amount = a /\ bets'[b].claimed = FALSE
        /\ \A c \in Bettors \ {b} : bets'[c] = bets[c]
    BY <1>1, <2>2 DEF TypeOK
  <2>4. bets[b].amount = 0 /\ bets[b].claimed = FALSE
    BY <2>1 DEF NoBet
  <2>5. stake' = [stake EXCEPT ![b] = a] /\ stake[b] = 0 /\ stake'[b] = a
    BY <2>3, <2>4
  <2>6. settled' = settled
    BY <2>3, <2>4
  <2>7. PhaseOf(status) = "betting" /\ PhaseOf(status)' = PhaseOf(status)
    BY <2>1 DEF PhaseOf
  <2>8. stake' = [stake EXCEPT ![b] = stake'[b]]
    BY <2>5
  <2> HIDE DEF stake, settled
  <2>9. /\ stake'[b] >= 0
        /\ balance' = [balance EXCEPT ![t] = balance[t] + stake'[b]]
    <3>1. stake'[b] = a
      BY <2>5
    <3>2. balance' = [balance EXCEPT ![t] = balance[t] + a]
      BY <2>2
    <3>3. a >= 0
      BY <2>1
    <3>4. QED
      BY ONLY <3>1, <3>2, <3>3
  <2>10. /\ PhaseOf(status) = "betting" /\ stake[b] = 0
         /\ stake' = [stake EXCEPT ![b] = stake'[b]]
         /\ stake'[b] >= 0
         /\ balance' = [balance EXCEPT ![t] = balance[t] + stake'[b]]
         /\ PhaseOf(status)' = PhaseOf(status)
         /\ settled' = settled /\ paid' = paid
    BY <2>2, <2>5, <2>6, <2>7, <2>8, <2>9
  <2>11. QED
    BY <2>10 DEF E!Stake, stake, settled
<1>4. ASSUME NEW b \in Bettors, NEW t \in Tokens, ClaimWinnings(b, t)
      PROVE  E!PayOut(b, t)
  <2>1. /\ status = "Resolved" /\ status' = status
        /\ HasBet(b) /\ bets[b].claimed = FALSE
        /\ bets' = [bets EXCEPT ![b].claimed = TRUE]
        /\ balance[t] >= Fee + Payout(b)
        /\ balance' = [balance EXCEPT ![t] = balance[t] - (Fee + Payout(b))]
        /\ paid' = [paid EXCEPT ![b] = paid[b] + Payout(b)]
    BY <1>1, <1>4, BetFacts
       DEF ClaimWinnings, Settle, MayClaim, IsWinner, state
  <2>2. paid[b] = 0
    BY <1>1, <2>1, BetFacts DEF IInv
  <2>3. Payout(b) \in Nat /\ Fee \in Nat
    BY <1>1, <2>1, PayoutFacts
  <2>4. /\ bets'[b].claimed
        /\ \A c \in Bettors : bets'[c].amount = bets[c].amount
        /\ \A c \in Bettors \ {b} : bets'[c] = bets[c]
    BY <1>1, <2>1, MarkClaimed
  <2>5. bets'[b].claimed = TRUE
    BY <1>1, <2>4, BetFacts DEF TypeOK, BetRecord, NoBet
  <2>6. stake' = stake
    BY <2>4
  <2>7. settled' = [settled EXCEPT ![b] = TRUE] /\ ~settled[b]
    <3>1. ~settled[b]
      BY <2>1
    <3>2. /\ bets'[b].claimed = TRUE
          /\ \A c \in Bettors \ {b} : bets'[c].claimed = bets[c].claimed
      BY <2>1, <2>4, <2>5
    <3>3. settled' = [settled EXCEPT ![b] = TRUE]
      BY <3>2, Zenon
    <3>4. QED
      BY <3>1, <3>3
  <2>8. paid'[b] = Payout(b) /\ paid' = [paid EXCEPT ![b] = paid'[b]]
    BY <1>1, <2>1, <2>2, <2>3 DEF TypeOK
  <2>9. /\ balance' = [balance EXCEPT ![t] = balance'[t]]
        /\ balance'[t] >= 0 /\ balance'[t] + paid'[b] <= balance[t]
    BY <1>1, <2>1, <2>3, <2>8 DEF TypeOK
  <2>10. PhaseOf(status) = "decided" /\ PhaseOf(status)' = PhaseOf(status)
    BY <2>1 DEF PhaseOf
  <2>11. QED
    BY <2>3, <2>6, <2>7, <2>8, <2>9, <2>10 DEF E!PayOut
<1>5. ASSUME NEW b \in Bettors, NEW t \in Tokens, ClaimRefund(b, t)
      PROVE  E!PayBack(b, t)
  <2>1. /\ status = "Cancelled" /\ status' = status
        /\ HasBet(b) /\ bets[b].claimed = FALSE
        /\ bets' = [bets EXCEPT ![b].claimed = TRUE]
        /\ balance[t] >= bets[b].amount
        /\ balance' = [balance EXCEPT ![t] = balance[t] - bets[b].amount]
        /\ paid' = [paid EXCEPT ![b] = paid[b] + bets[b].amount]
    BY <1>1, <1>5, BetFacts DEF ClaimRefund, Settle, CanRefund, state
  <2>2. paid[b] = 0 /\ bets[b].amount \in Nat
    BY <1>1, <2>1, BetFacts DEF IInv
  <2>3. /\ bets'[b].claimed
        /\ \A c \in Bettors : bets'[c].amount = bets[c].amount
        /\ \A c \in Bettors \ {b} : bets'[c] = bets[c]
    BY <1>1, <2>1, MarkClaimed
  <2>4. bets'[b].claimed = TRUE
    BY <1>1, <2>3, BetFacts DEF TypeOK, BetRecord, NoBet
  <2>5. stake' = stake /\ stake[b] = bets[b].amount
    BY <2>3
  <2>6. settled' = [settled EXCEPT ![b] = TRUE] /\ ~settled[b]
    <3>1. ~settled[b]
      BY <2>1
    <3>2. /\ bets'[b].claimed = TRUE
          /\ \A c \in Bettors \ {b} : bets'[c].claimed = bets[c].claimed
      BY <2>1, <2>3, <2>4
    <3>3. settled' = [settled EXCEPT ![b] = TRUE]
      BY <3>2, Zenon
    <3>4. QED
      BY <3>1, <3>3
  <2>7. paid' = [paid EXCEPT ![b] = stake[b]]
    <3>1. paid[b] + bets[b].amount = stake[b]
      BY <2>2, <2>5
    <3> HIDE DEF stake
    <3>2. QED
      BY <2>1, <3>1
  <2>8. /\ balance[t] >= stake[b]
        /\ balance' = [balance EXCEPT ![t] = balance[t] - stake[b]]
    <3> HIDE DEF stake
    <3>1. QED
      BY <2>1, <2>5
  <2>9. PhaseOf(status) = "refunding" /\ PhaseOf(status)' = PhaseOf(status)
    BY <2>1 DEF PhaseOf
  <2>10. QED
    BY <2>5, <2>6, <2>7, <2>8, <2>9 DEF E!PayBack
<1>6. CASE LockMarket
  BY <1>6 DEF LockMarket, CanLock, PhaseOf, pools, money, E!Next, E!Close
<1>7. ASSUME NEW o \in Oracles, NEW x \in ReportOutcomes, ResolveMarket(o, x)
      PROVE  E!Next \/ UNCHANGED E!vars
  <2>1. CASE Decisive(o, x)
    BY <1>7, <2>1 DEF ResolveMarket, CanReport, PhaseOf, money, E!Next, E!Decide
  <2>2. CASE ~Decisive(o, x)
    BY <1>2, <1>7, <2>2 DEF ResolveMarket, state
  <2>3. QED
    BY <2>1, <2>2
<1>8. CASE CancelMarket
  BY <1>8 DEF CancelMarket, CanCancel, PhaseOf, pools, money, E!Next, E!CallOff
<1>9. CASE DisputeMarket
  BY <1>9 DEF DisputeMarket, PhaseOf, money, E!vars
<1>10. ASSUME NEW x \in ReportOutcomes, ResolveDispute(x)
       PROVE  UNCHANGED E!vars
  BY <1>10 DEF ResolveDispute, PhaseOf, money, E!vars
<1>11. QED
  BY <1>2, <1>3, <1>4, <1>5, <1>6, <1>7, <1>8, <1>9, <1>10
     DEF Next, vars, state, E!Next, EmergencyPause, EmergencyUnpause,
         AddOracle, RemoveOracle, Tick

(* Every behaviour of the contract is one of Escrow. *)
THEOREM MarketImplementsEscrow == Spec => ImplementsEscrow
<1>1. Init => E!Init
  BY EscrowInit
<1>2. IInv /\ IInv' /\ [Next]_vars => [E!Next]_(E!vars)
  BY EscrowStep
<1>3. QED
  BY <1>1, <1>2, Inductive, PTL DEF Spec, ImplementsEscrow, E!Spec

==============================================================================
