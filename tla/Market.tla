-------------------------------- MODULE Market --------------------------------
(***************************************************************************)
(* The market contract (contracts/market/src/lib.rs): one boxing match,    *)
(* three sides to bet on, a parimutuel pool held in the contract's own     *)
(* token balances, and an oracle vote that decides who may claim it.       *)
(*                                                                         *)
(* A Soroban invocation is one transaction: it takes effect whole or, when *)
(* it returns an error or a token transfer traps, not at all.  So every    *)
(* public function is one action, an error return is a disabled action,    *)
(* and the CLAIMING flag, set and cleared inside one transaction, is FALSE *)
(* in every state of this specification.                                   *)
(*                                                                         *)
(* place_bet, claim_winnings and claim_refund are told by the bettor which *)
(* token to transfer.  The contract neither stores nor compares it: pools  *)
(* and bet records are plain amounts, and a stake and its settlement may   *)
(* be in different tokens.  The tokens themselves are external; they do    *)
(* what a transfer says or fail.                                           *)
(*                                                                         *)
(* The factory's oracle whitelist is read live by the market (get_oracles, *)
(* get_oracle_key); it is a variable here and changes under the market's   *)
(* feet through the factory's add_oracle and remove_oracle.                *)
(***************************************************************************)
EXTENDS Integers, FiniteSets, Functions, TLC

CONSTANTS
    Bettors,          \* addresses that may bet
    Oracles,          \* addresses the factory may whitelist
    Tokens,           \* tokens a bettor may name
    BetSides,         \* sides bettors back, a subset of Sides
    BetAmounts,       \* stakes tried by bettors, in stroops
    ReportOutcomes,   \* outcomes oracles report, a subset of Outcomes
    MinBet, MaxBet,   \* MarketConfig.min_bet_amount, max_bet
    FeeBps,           \* MarketConfig.fee_bps
    ScheduledAt,      \* FightDetails.scheduled_at
    LockBefore,       \* MarketConfig.lock_before_secs
    ResolutionWindow, \* MarketConfig.resolution_window
    MaxTime,          \* bound: the ledger clock stops here
    FactorySigns      \* can the address stored under FACTORY sign a call?

Sides == {"FighterA", "FighterB", "Draw"}
Outcomes == Sides \cup {"NoContest"}
Statuses == {"Open", "Locked", "Resolved", "Cancelled", "Disputed"}
Roles == {"Primary", "Admin"}
None == "None"

ASSUME BettorsAssumption == IsFiniteSet(Bettors)
ASSUME OraclesAssumption == IsFiniteSet(Oracles)
ASSUME TokensAssumption == None \notin Tokens
ASSUME InputsAssumption ==
    /\ BetSides \subseteq Sides
    /\ BetAmounts \subseteq Int
    /\ ReportOutcomes \subseteq Outcomes
(* create_market refuses a zero minimum, a maximum below the minimum and a  *)
(* fee above 10%, and nothing more.                                         *)
ASSUME ConfigAssumption ==
    /\ MinBet \in Int \ {0}
    /\ MaxBet \in Int
    /\ MinBet <= MaxBet
    /\ FeeBps \in 0..1000
ASSUME TimeAssumption ==
    /\ ScheduledAt \in Nat
    /\ LockBefore \in Nat
    /\ ResolutionWindow \in Nat
    /\ MaxTime \in Nat
ASSUME FactoryAssumption == FactorySigns \in BOOLEAN

VARIABLES
    status, outcome, oracleUsed, resolvedAt, \* MarketState
    pool, totalPool,                         \* MarketState
    bets,          \* BETS: the one record a bettor may hold, or NoBet
    pending,       \* PENDING_REPORTS: oracle -> reported outcome, or None
    paused,        \* PAUSED
    whitelist,     \* the factory's ORACLE_WHITELIST
    now,           \* ledger timestamp
    balance,       \* the contract's balance of each token
    treasuryFees,  \* what this market has sent to the treasury of each token
    paid,          \* what this market has sent to each bettor
    stakedIn,      \* history: the token each bettor staked, or None
    paidIn         \* history: the token each bettor was settled in, or None

state == <<status, outcome, oracleUsed, resolvedAt>>
pools == <<pool, totalPool>>
money == <<balance, treasuryFees, paid, stakedIn, paidIn>>
vars == <<state, pools, bets, pending, paused, whitelist, now, money>>

(* load_bets returns an empty Vec.  place_bet refuses a bettor whose Vec is *)
(* not empty, so a Vec never holds a second record.                         *)
Stakes == (MinBet..MaxBet) \cap Nat
NoBet == [side |-> None, amount |-> 0, claimed |-> FALSE]
BetRecord == [side : Sides, amount : Stakes, claimed : BOOLEAN]
HasBet(b) == bets[b].side # None

-----------------------------------------------------------------------------
(* Derived values *)

LockThreshold == IF LockBefore <= ScheduledAt THEN ScheduledAt - LockBefore
                                              ELSE 0
Deadline == ScheduledAt + ResolutionWindow

NoReports == [o \in Oracles |-> None]
Reporters == {o \in Oracles : pending[o] # None}

(* The caller checks of lock_market and cancel_market: a whitelisted oracle *)
(* or the factory address.                                                  *)
OperatorExists == FactorySigns \/ whitelist # {}

(* The parimutuel formula, in floored integer arithmetic.  The two forms    *)
(* before PayoutOf are bugs the properties must tell from it: the pool not  *)
(* net of the fee, and a division that rounds up.                           *)
FeeOf(total) == (total * FeeBps) \div 10000
NetOf(total) == total - FeeOf(total)
PayoutOfGross(stake, winningPool, total) ==
    IF winningPool > 0 THEN (stake * total) \div winningPool ELSE 0

PayoutRoundedUp(stake, winningPool, total) ==
    IF winningPool > 0
    THEN (stake * NetOf(total) + winningPool - 1) \div winningPool ELSE 0

PayoutOf(stake, winningPool, total) ==
    IF winningPool > 0 THEN (stake * NetOf(total)) \div winningPool ELSE 0

Fee == FeeOf(totalPool)
Payout(b) == PayoutOf(bets[b].amount, pool[bets[b].side], totalPool)


(* estimate_payout: what a stake of a on side s would pay were it placed    *)
(* now and were the betting to end there (and a mutant that leaves it out   *)
(* of the total).                                                           *)
EstimateOnOldTotal(s, a) ==
    IF status = "Open" THEN PayoutOf(a, pool[s] + a, totalPool) ELSE 0

EstimatePayout(s, a) ==
    IF status = "Open" THEN PayoutOf(a, pool[s] + a, totalPool + a) ELSE 0

(* What each bettor staked of a token, and was settled with in it.          *)
Staked(t) == [b \in Bettors |-> IF stakedIn[b] = t THEN bets[b].amount ELSE 0]
Settled(t) == [b \in Bettors |-> IF paidIn[b] = t THEN paid[b] ELSE 0]
StakeOn(s) == [b \in Bettors |-> IF bets[b].side = s THEN bets[b].amount ELSE 0]

IsWinner(b) == HasBet(b) /\ bets[b].side = outcome
MayClaim(b) == status = "Resolved" /\ IsWinner(b) /\ ~bets[b].claimed

-----------------------------------------------------------------------------
(* Initial states: initialize, called by the factory on deployment, with    *)
(* whatever whitelist the factory holds by then.                            *)
Init ==
    /\ status = "Open" /\ outcome = None
    /\ oracleUsed = None /\ resolvedAt = 0
    /\ pool = [s \in Sides |-> 0] /\ totalPool = 0
    /\ bets = [b \in Bettors |-> NoBet]
    /\ pending = NoReports
    /\ paused = FALSE
    /\ whitelist \in SUBSET Oracles
    /\ now = 0
    /\ balance = [t \in Tokens |-> 0]
    /\ treasuryFees = [t \in Tokens |-> 0]
    /\ paid = [b \in Bettors |-> 0]
    /\ stakedIn = [b \in Bettors |-> None]
    /\ paidIn = [b \in Bettors |-> None]

(* A mutant of CanCancel that takes a market already resolved.              *)
CanCancelResolved ==
    ~paused /\ OperatorExists /\ status \in {"Open", "Locked", "Resolved"}

(* place_bet.  The pools are written before the AlreadyBet check; the error *)
(* rolls them back, so the check is a guard like the others.  The token,    *)
(* whichever the bettor names, refuses to transfer a negative amount.       *)
CanBet(b, a) ==
    /\ ~paused
    /\ status = "Open"
    /\ now < LockThreshold
    /\ MinBet <= a /\ a <= MaxBet
    /\ 0 <= a
    /\ ~HasBet(b)

PlaceBet(b, s, a, t) ==
    /\ CanBet(b, a)
    /\ pool' = [pool EXCEPT ![s] = @ + a]
    /\ totalPool' = totalPool + a
    /\ bets' = [bets EXCEPT ![b] = [side |-> s, amount |-> a, claimed |-> FALSE]]
    /\ balance' = [balance EXCEPT ![t] = @ + a]
    /\ stakedIn' = [stakedIn EXCEPT ![b] = t]
    /\ UNCHANGED <<state, pending, paused, whitelist, now, treasuryFees, paid,
                   paidIn>>

CanLock ==
    /\ ~paused
    /\ OperatorExists
    /\ status = "Open"
    /\ now >= LockThreshold

LockMarket ==
    /\ CanLock
    /\ status' = "Locked"
    /\ UNCHANGED <<outcome, oracleUsed, resolvedAt, pools, bets, pending, paused,
                   whitelist, now, money>>

(* How many stored reports of other oracles agree with one of outcome x.    *)
(* The whitelist is checked for the caller only: a report stored by an      *)
(* oracle that has been removed since still counts.  (The mutant counts     *)
(* every report.)                                                           *)
AnyReport(o, x) == Reporters \ {o}

Agreeing(o, x) == {q \in Reporters \ {o} : pending[q] = x}

(* The window of resolve_market, and the two things it does with a report:  *)
(* decide the market when another oracle agrees, or keep the report.  (The  *)
(* mutant reports on a decided market.)                                     *)
CanReportLate(o) ==
    ~paused /\ o \in whitelist /\ status # "Open" /\ now <= Deadline
        /\ o \notin Reporters

CanReport(o) ==
    /\ ~paused
    /\ o \in whitelist
    /\ status = "Locked"
    /\ now <= Deadline
    /\ o \notin Reporters

Decisive(o, x) == 1 + Cardinality(Agreeing(o, x)) >= 2

ResolveMarket(o, x) ==
    /\ CanReport(o)
    /\ IF Decisive(o, x)
       THEN /\ outcome' = x
            /\ status' = "Resolved"
            /\ resolvedAt' = now
            /\ oracleUsed' = "Primary"
            /\ pending' = NoReports
       ELSE /\ pending' = [pending EXCEPT ![o] = x]
            /\ UNCHANGED state
    /\ UNCHANGED <<pools, bets, paused, whitelist, now, money>>

(* claim_winnings.  NoContest has no winning side.  The whole fee is sent   *)
(* to the treasury, then the payout to the bettor, both in the token that   *)
(* the bettor names; a transfer the balance does not cover traps and undoes *)
(* the claim.                                                               *)
Settle(b, t, amount) ==
    /\ bets' = [bets EXCEPT ![b].claimed = TRUE]
    /\ paid' = [paid EXCEPT ![b] = @ + amount]
    /\ paidIn' = [paidIn EXCEPT ![b] = t]

ClaimWinnings(b, t) ==
    /\ ~paused
    /\ outcome \in Sides
    /\ MayClaim(b)
    /\ balance[t] >= Fee + Payout(b)
    /\ Settle(b, t, Payout(b))
    /\ balance' = [balance EXCEPT ![t] = @ - (Fee + Payout(b))]
    /\ treasuryFees' = [treasuryFees EXCEPT ![t] = @ + Fee]
    /\ UNCHANGED <<state, pools, pending, paused, whitelist, now, stakedIn>>

(* claim_refund, again in the token that the bettor names.                  *)
CanRefund(b) ==
    /\ ~paused
    /\ status = "Cancelled"
    /\ HasBet(b) /\ ~bets[b].claimed

ClaimRefund(b, t) ==
    /\ CanRefund(b)
    /\ balance[t] >= bets[b].amount
    /\ Settle(b, t, bets[b].amount)
    /\ balance' = [balance EXCEPT ![t] = @ - bets[b].amount]
    /\ UNCHANGED <<state, pools, pending, paused, whitelist, now, treasuryFees,
                   stakedIn>>

CanCancel ==
    /\ ~paused
    /\ OperatorExists
    /\ status \in {"Open", "Locked"}

CancelMarket ==
    /\ CanCancel
    /\ status' = "Cancelled"
    /\ UNCHANGED <<outcome, oracleUsed, resolvedAt, pools, bets, pending, paused,
                   whitelist, now, money>>

(* dispute_market and resolve_dispute: only the FACTORY address may call.   *)
DisputeMarket ==
    /\ ~paused
    /\ FactorySigns
    /\ status = "Resolved"
    /\ status' = "Disputed"
    /\ UNCHANGED <<outcome, oracleUsed, resolvedAt, pools, bets, pending, paused,
                   whitelist, now, money>>

ResolveDispute(x) ==
    /\ ~paused
    /\ FactorySigns
    /\ status = "Disputed"
    /\ outcome' = x
    /\ status' = "Resolved"
    /\ resolvedAt' = now
    /\ oracleUsed' = "Admin"
    /\ UNCHANGED <<pools, bets, pending, paused, whitelist, now, money>>

EmergencyPause ==
    /\ FactorySigns
    /\ paused' = TRUE
    /\ UNCHANGED <<state, pools, bets, pending, whitelist, now, money>>

EmergencyUnpause ==
    /\ FactorySigns
    /\ paused' = FALSE
    /\ UNCHANGED <<state, pools, bets, pending, whitelist, now, money>>

(* The factory's add_oracle and remove_oracle. *)
AddOracle(o) ==
    /\ whitelist' = whitelist \cup {o}
    /\ UNCHANGED <<state, pools, bets, pending, paused, now, money>>

RemoveOracle(o) ==
    /\ o \in whitelist
    /\ whitelist' = whitelist \ {o}
    /\ UNCHANGED <<state, pools, bets, pending, paused, now, money>>

(* Ledgers close and their timestamps grow. *)
Tick ==
    /\ now < MaxTime
    /\ now' = now + 1
    /\ UNCHANGED <<state, pools, bets, pending, paused, whitelist, money>>

Next ==
    \/ \E b \in Bettors, s \in BetSides, a \in BetAmounts, t \in Tokens :
          PlaceBet(b, s, a, t)
    \/ LockMarket
    \/ \E o \in Oracles, x \in ReportOutcomes : ResolveMarket(o, x)
    \/ \E b \in Bettors, t \in Tokens : ClaimWinnings(b, t)
    \/ \E b \in Bettors, t \in Tokens : ClaimRefund(b, t)
    \/ CancelMarket
    \/ DisputeMarket
    \/ \E x \in ReportOutcomes : ResolveDispute(x)
    \/ EmergencyPause
    \/ EmergencyUnpause
    \/ \E o \in Oracles : AddOracle(o)
    \/ \E o \in Oracles : RemoveOracle(o)
    \/ Tick

Spec == Init /\ [][Next]_vars

-----------------------------------------------------------------------------
(* Properties *)

(* Every variable holds a value of its kind; in particular no pool and no   *)
(* balance is ever negative, and every stake is within the market's limits. *)
TypeOK ==
    /\ status \in Statuses
    /\ outcome \in Outcomes \cup {None}
    /\ oracleUsed \in Roles \cup {None}
    /\ resolvedAt \in Nat
    /\ pool \in [Sides -> Nat]
    /\ totalPool \in Nat
    /\ bets \in [Bettors -> BetRecord \cup {NoBet}]
    /\ pending \in [Oracles -> Outcomes \cup {None}]
    /\ paused \in BOOLEAN
    /\ whitelist \in SUBSET Oracles
    /\ now \in Nat
    /\ balance \in [Tokens -> Nat]
    /\ treasuryFees \in [Tokens -> Nat]
    /\ paid \in [Bettors -> Nat]
    /\ stakedIn \in [Bettors -> Tokens \cup {None}]
    /\ paidIn \in [Bettors -> Tokens \cup {None}]

(* The pools kept in MarketState are the sums of the bet records kept in    *)
(* BETS: place_bet updates two storage entries and must keep them in step,  *)
(* since payouts divide one by the other.                                   *)
PoolsMatchBets ==
    /\ \A s \in Sides : pool[s] = SumFunctionOnSet(StakeOn(s), Bettors)
    /\ totalPool = pool["FighterA"] + pool["FighterB"] + pool["Draw"]

(* Before a verdict nothing leaves the contract but whole stakes: of each   *)
(* token it holds what was staked less what was refunded in it, and no fee  *)
(* has been taken.                                                          *)
OnlyRefundsLeave ==
    /\ \A t \in Tokens :
          /\ balance[t] + SumFunctionOnSet(Settled(t), Bettors)
                = SumFunctionOnSet(Staked(t), Bettors)
          /\ treasuryFees[t] = 0
    /\ \A b \in Bettors :
          paid[b] = IF bets[b].claimed THEN bets[b].amount ELSE 0

(* Every refund of a cancelled market so far was taken in its stake's token.*)
RefundedInKind ==
    \A b \in Bettors : bets[b].claimed => paidIn[b] = stakedIn[b]

(* A cancelled market pays back everyone who asks for the token they staked *)
(* (claim_refund; no claim can precede a cancellation), as long as the      *)
(* others have asked for theirs: nothing in the contract makes them, and    *)
(* refunds taken in other tokens are accounted for but may leave a bettor   *)
(* short.                                                                   *)
RefundsCovered ==
    status = "Cancelled" =>
        /\ OnlyRefundsLeave
        /\ RefundedInKind =>
              \A b \in Bettors : HasBet(b) /\ ~bets[b].claimed =>
                  bets[b].amount <= balance[stakedIn[b]]

(* The first winner to claim is always paid in the token that all bettors   *)
(* have staked: before any claim the balance covers the fee and any         *)
(* winner's payout.  Of a market whose stakes are in several tokens, whose  *)
(* pools add them up as one, nothing like it can be said.                   *)
NobodyClaimed == \A b \in Bettors : ~bets[b].claimed
AllStaked(t) == \A b \in Bettors : HasBet(b) => stakedIn[b] = t

FirstClaimPayable ==
    status = "Resolved" /\ NobodyClaimed =>
        \A t \in Tokens : AllStaked(t) =>
            \A b \in Bettors : MayClaim(b) => Fee + Payout(b) <= balance[t]

(* Rounding never overpays: what the winners of a side are entitled to adds *)
(* up to at most the pool net of the fee.                                   *)
PayoutsWithinNetPool ==
    \A s \in Sides :
        SumFunctionOnSet(
            [b \in Bettors |-> IF bets[b].side = s THEN Payout(b) ELSE 0],
            Bettors) <= NetOf(totalPool)

(* A market the oracles decided was decided after betting had closed and    *)
(* before the resolution window ran out, however it was locked.             *)
ResolvedInWindow ==
    oracleUsed = "Primary" =>
        LockThreshold <= resolvedAt /\ resolvedAt <= Deadline

(* No bettor is paid twice: not by claiming again, not by a refund after a  *)
(* payout, and not after a dispute turned the outcome.                      *)
PaidAtMostOnce ==
    [][\A b \in Bettors : paid[b] > 0 => paid'[b] = paid[b]]_vars

(* An outcome, once declared, changes only by resolving a dispute.          *)
OutcomeFinal ==
    [][outcome # None /\ outcome' # outcome
          => status = "Disputed" /\ oracleUsed' = "Admin"]_vars

(* The oracles' verdict takes two: when a locked market is resolved, an     *)
(* oracle had reported that outcome before, and another one, whitelisted    *)
(* and silent until then, has just done so.                                 *)
TwoOraclesDecide ==
    [][status = "Locked" /\ status' = "Resolved" =>
          \E p \in Reporters, q \in whitelist :
              /\ p # q
              /\ pending[p] = outcome'
              /\ q \notin Reporters]_vars

(* A stored report stands until the vote is decided: no later report, of    *)
(* the same oracle or of another, replaces it.                              *)
ReportsStand ==
    [][status' = "Resolved" \/ \A o \in Reporters : pending'[o] = pending[o]]_vars

(* The quote is honest: what estimate_payout said just before a bet is what *)
(* the bet would pay if it won and no other bet followed.                   *)
EstimateIsHonest ==
    [][\A b \in Bettors : ~HasBet(b) /\ HasBet(b)' =>
          Payout(b)' = EstimatePayout(bets'[b].side, bets'[b].amount)]_vars

-----------------------------------------------------------------------------
(* The inductive invariant: what the operations rely on without checking.   *)

NoVerdictMoney == status \in {"Open", "Locked", "Cancelled"} => OnlyRefundsLeave

(* A bettor has a stake in a token exactly when there is a record of it, and*)
(* is settled in one exactly when the record is marked.                     *)
TokensOnRecord ==
    \A b \in Bettors : /\ stakedIn[b] # None <=> HasBet(b)
                       /\ paidIn[b] # None <=> bets[b].claimed

(* TypeOK and PoolsMatchBets; nobody claims before the market is resolved   *)
(* or cancelled, and until somebody does the whole pool is still there, if  *)
(* it is of one token; whoever was paid is marked claimed; a market is      *)
(* locked only once betting has closed, has an outcome exactly when resolved*)
(* or disputed, and was decided by the oracles in time.                     *)
IInv ==
    /\ TypeOK
    /\ PoolsMatchBets
    /\ NoVerdictMoney
    /\ status \in {"Open", "Locked"} => NobodyClaimed
    /\ NobodyClaimed => \A t \in Tokens : AllStaked(t) => balance[t] = totalPool
    /\ TokensOnRecord
    /\ \A b \in Bettors : paid[b] > 0 => bets[b].claimed
    /\ status = "Locked" => LockThreshold <= now
    /\ outcome # None <=> status \in {"Resolved", "Disputed"}
    /\ oracleUsed # None <=> status \in {"Resolved", "Disputed"}
    /\ ResolvedInWindow

-----------------------------------------------------------------------------
(* What the repository says and the contract does not do.                   *)

(* "Three bettors on winning side receive proportional payouts summing <=   *)
(* net_pool" (contracts/market/src/tests.rs:2667), all three claiming: every *)
(* winner the oracles declared can claim.  claim_winnings sends the whole   *)
(* fee to the treasury at each claim, so later claims are not covered.      *)
EveryWinnerPayable ==
    oracleUsed = "Primary" =>
        \A b \in Bettors : MayClaim(b) =>
            \E t \in Tokens : Fee + Payout(b) <= balance[t]

-----------------------------------------------------------------------------
(* The market contract as an implementation of Escrow.                      *)

(* A disputed market stays decided: its verdict may change, its bettors are *)
(* not refunded.                                                            *)
PhaseOf(st) ==
    CASE st = "Open"      -> "betting"
      [] st = "Locked"    -> "closed"
      [] st = "Cancelled" -> "refunding"
      [] OTHER            -> "decided"

E == INSTANCE Escrow WITH
        phase   <- PhaseOf(status),
        stake   <- [b \in Bettors |-> bets[b].amount],
        settled <- [b \in Bettors |-> bets[b].claimed],
        held    <- balance

(* Every step of the contract is a step of Escrow or changes nothing Escrow *)
(* speaks of: in particular no bet after the lock, no refund after a        *)
(* verdict, no payout after a cancellation, no second settlement.           *)
ImplementsEscrow == E!Spec

-----------------------------------------------------------------------------
(* For TLC: bettors, oracles and tokens are interchangeable. *)
Symmetry ==
    Permutations(Bettors) \cup Permutations(Oracles) \cup Permutations(Tokens)
==============================================================================
