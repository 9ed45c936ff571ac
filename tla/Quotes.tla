-------------------------------- MODULE Quotes --------------------------------
(***************************************************************************)
(* What a bettor is told a bet will pay, against what it does pay.  Before *)
(* a bet the pages show calcPayout of BetForm and useBet, in floating point*)
(* and rounded to four decimals; the hook useProjectedPayout, which no page*)
(* uses, computes it in stroops and adds live trades to the pools.  The    *)
(* backend tells it before a bet (simulateProjectedPayout), for one that   *)
(* stands (calculateProjectedPayout) and as odds.  One market, one bettor  *)
(* whom the model follows, and the others' bets as amounts that join the   *)
(* pools.                                                                  *)
(*                                                                         *)
(* The contract takes one bet from a bettor, so there is one row for them. *)
(***************************************************************************)
EXTENDS Integers, Functions

CONSTANTS
    FeeChoices,   \* fee_bps of the market
    Amounts,      \* amounts that are bet
    MaxOthers,    \* bound: the others' bets
    Grain,        \* stroops in the last decimal that is shown, 1000
    FloatError    \* stroops that floating point may be out, 1 for pools up
                  \* to some 10^14: a double has 53 bits

Outcomes == {"fighter_a", "fighter_b", "draw"}
NoBet == [side |-> "none", amount |-> 0]

VARIABLES
    feeBps, pools, others,
    row,          \* the pools of the market that the page has loaded
    trade,        \* the last live trade the hook has heard of
    bet,          \* the bettor's row
    preview,      \* what the page showed for it,
    projected,    \* what the hook computed,
    simulated,    \* and what the backend did
    behind,       \* of "page" and "hook", those that went by other pools
    result        \* the outcome, "none" while there is none

quoteVars == <<feeBps, pools, others, row, trade, bet, preview, projected,
               simulated, behind, result>>

QuoteInit ==
    /\ feeBps \in FeeChoices
    /\ pools = [o \in Outcomes |-> 0] /\ others = 0
    /\ row = pools /\ trade = NoBet
    /\ bet = NoBet /\ preview = 0 /\ projected = 0 /\ simulated = 0
    /\ behind = {} /\ result = "none"

Sum3(P) == SumFunctionOnSet(P, Outcomes)
Total == Sum3(pools)

(* claim_winnings.                                                          *)
ContractPayout ==
    (bet.amount * (Total - (Total * feeBps) \div 10000)) \div pools[bet.side]

(* What a stake of a will pay with pools P, as a fraction: the fee is a     *)
(* factor.  (A mutant leaves the stake out of the total.)                   *)
OnOldTotal(P, a) == a * Sum3(P) * (10000 - feeBps)
Numerator(P, a) == a * (Sum3(P) + a) * (10000 - feeBps)
Denominator(P, o, a) == (P[o] + a) * 10000

(* calcPayout computes the fraction but for the error of floating point, and*)
(* toFixed(4) rounds it to the grain: a neighbour that is no further than   *)
(* half of it.                                                              *)
MostOff == Grain \div 2 + FloatError

Displayed(P, o, a) ==
    LET n == Numerator(P, a)
        d == Denominator(P, o, a)
        g == ((n \div d) \div Grain) * Grain
    IN  {s \in {g, g + Grain} : s * d - n \in -(MostOff * d)..(MostOff * d)}

(* useProjectedPayout floors it, with the last trade added to the row's     *)
(* pools: on top of what has been loaded since.                             *)
ApplyTradeEventToMarket ==
    IF trade = NoBet THEN row ELSE [row EXCEPT ![trade.side] = @ + trade.amount]

ProjectedPayout(P, o, a) == Numerator(P, a) \div Denominator(P, o, a)

(* The backend's figures, all of the pools as they are: what remains of the *)
(* total without the fee, in parts of a side's pool.                        *)
NetPool == Total - (Total * feeBps) \div 10000
Share(n, o) == IF pools[o] = 0 THEN 0 ELSE n \div pools[o]

(* calculateProjectedPayout, for the side that was bet on, and the same for *)
(* a stake that has not joined the pools.                                   *)
CalculateProjectedPayout == Share(bet.amount * NetPool, bet.side)
SimulateProjectedPayout(o, a) == Share(a * NetPool, o)

(* getMarketOdds: ten thousandths of the stake; computeOutcomeOdds: the same*)
(* rounded to hundredths; calculateOdds: hundredths before the fee.  The    *)
(* pools are read from the contract when the row is older than half a       *)
(* minute; here row and contract agree.                                     *)
MarketOdds(o) == Share(NetPool * 10000, o)
ComputeOutcomeOdds(o) == (MarketOdds(o) + 50) \div 100
CalculateOdds(o) == Share(Total * 100, o)

-----------------------------------------------------------------------------
(* The others bet; the page's hook may hear of it.                          *)
OthersBet(o, a) ==
    /\ result = "none" /\ others < MaxOthers
    /\ others' = others + 1
    /\ pools' = [pools EXCEPT ![o] = @ + a]
    /\ trade' \in {trade} \cup IF bet = NoBet THEN {[side |-> o, amount |-> a]} ELSE {}
    /\ behind' = IF bet = NoBet THEN behind ELSE {"page", "hook"}
    /\ UNCHANGED <<feeBps, row, bet, preview, projected, simulated, result>>

(* The page loads the market again.                                         *)
LoadMarket ==
    /\ bet = NoBet /\ row # pools
    /\ row' = pools
    /\ UNCHANGED <<feeBps, pools, others, trade, bet, preview, projected,
                   simulated, behind, result>>

(* The bettor takes the browser's word and bets.                            *)
Bet(o, a) ==
    /\ result = "none" /\ bet = NoBet
    /\ preview' \in Displayed(row, o, a)
    /\ projected' = ProjectedPayout(ApplyTradeEventToMarket, o, a)
    /\ simulated' = SimulateProjectedPayout(o, a)
    /\ behind' = (IF row = pools THEN {} ELSE {"page"})
                   \cup IF ApplyTradeEventToMarket = pools THEN {} ELSE {"hook"}
    /\ bet' = [side |-> o, amount |-> a]
    /\ pools' = [pools EXCEPT ![o] = @ + a]
    /\ UNCHANGED <<feeBps, others, row, trade, result>>

Resolve(o) ==
    /\ result = "none"
    /\ result' = o
    /\ UNCHANGED <<feeBps, pools, others, row, trade, bet, preview, projected,
                   simulated, behind>>

QuoteNext ==
    \/ \E o \in Outcomes : Resolve(o) \/ \E a \in Amounts : OthersBet(o, a) \/ Bet(o, a)
    \/ LoadMarket

QuoteSpec == QuoteInit /\ [][QuoteNext]_quoteVars

-----------------------------------------------------------------------------
(* Properties *)

(* A winner whom nobody has followed, and whose page had the pools as they  *)
(* were, is paid what the page showed but for half of its last decimal and  *)
(* a stroop or two: it may well have shown more than is paid.  The hook,    *)
(* where it had the pools as they were, promised what is paid or one stroop *)
(* less.  The backend's figure for a standing bet is the contract's, and its*)
(* odds give that figure but for their rounding; its figure before a bet,   *)
(* which ignores the stake, is too high rather than too low, but for 0 on a *)
(* side that has no bet yet.                                                *)
OddsAgree(o) ==
    /\ bet.side = o => ContractPayout - (bet.amount * MarketOdds(o)) \div 10000
                         \in 0..1 + bet.amount \div 10000
    /\ ComputeOutcomeOdds(o) <= CalculateOdds(o) + 1

PromiseKept ==
    bet # NoBet =>
        /\ "hook" \notin behind => simulated = 0 \/ projected <= simulated
        /\ \A o \in Outcomes : OddsAgree(o)
        /\ result = bet.side =>
              /\ "page" \notin behind => ContractPayout - preview \in -MostOff..(MostOff + 1)
              /\ "hook" \notin behind => ContractPayout - projected \in {0, 1}
              /\ CalculateProjectedPayout = ContractPayout
==============================================================================
