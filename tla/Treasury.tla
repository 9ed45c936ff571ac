------------------------------- MODULE Treasury -------------------------------
(***************************************************************************)
(* The treasury contract (contracts/treasury/src/lib.rs): fees of the      *)
(* approved markets, counted per token, and the admin's withdrawals, capped*)
(* per transaction and per day.                                            *)
(*                                                                         *)
(* A fee arrives in one of two ways: deposit_fees counts it and pulls the  *)
(* tokens; or a market transfers the tokens itself, as claim_winnings does,*)
(* and some market reports them to receive_fee, which counts what it is    *)
(* told under the market id it is told and looks at no balance.            *)
(***************************************************************************)
EXTENDS Integers, FiniteSets, Functions, TLC

CONSTANTS
    Markets,       \* market contracts, by address and by market id
    Tokens,        \* token contracts fees are paid in
    FeeAmounts,    \* fees tried by the markets
    DrawAmounts,   \* withdrawals tried by the admin
    Limits,        \* values of WITHDRAWAL_LIMIT
    MinWithdrawal, \* MIN_WITHDRAWAL
    DayLength,     \* 86400 seconds
    MaxTime,       \* bound: the ledger clock stops here
    MaxHeld        \* bound: no balance and no tally goes beyond it

ASSUME MarketsAssumption == IsFiniteSet(Markets)
ASSUME AmountsAssumption ==
    FeeAmounts \subseteq Nat /\ DrawAmounts \subseteq Int /\ Limits \subseteq Int
ASSUME TreasuryAssumption ==
    /\ MinWithdrawal \in Nat \ {0}
    /\ DayLength \in Nat \ {0}
    /\ MaxTime \in Nat
    /\ MaxHeld \in Nat

VARIABLES
    approved, \* APPROVED_MARKETS
    fees,     \* ACCUMULATED_FEES: token -> amount
    byMarket, \* ACCUMULATED_FEES_BY_MARKET, by the market id reported for
    limit,    \* WITHDRAWAL_LIMIT
    daily,    \* DAILY_WITHDRAWN: day bucket -> amount, pruned
    held,     \* the treasury's balance of each token
    sent,     \* history: tokens a market transferred itself
    now,      \* ledger timestamp
    drawn,    \* history: what withdraw_fees really paid out today
    peak      \* history: the highest limit in force today

books == <<fees, byMarket>>
history == <<drawn, peak>>
vars == <<approved, books, limit, daily, held, sent, now, history>>

Days == 0..(MaxTime \div DayLength)
Today == now \div DayLength

(* get_daily_withdrawal_amount *)
DrawnToday == IF Today \in DOMAIN daily THEN daily[Today] ELSE 0

(* prune_daily_withdrawn keeps this day and the one before it.  (A mutant   *)
(* compares the wrong way round.)                                           *)
KeepsPast(k) == k + 1 <= Today

Keeps(k) == ~(k + 1 < Today)

Prune(f) == Restrict(f, {k \in DOMAIN f : Keeps(k)})

(* What each market has transferred in token t itself, and what has been    *)
(* reported for each to receive_fee.                                        *)
Transferred(t) == [m \in Markets |-> sent[m][t]]
Reported(t) == [m \in Markets |-> byMarket[m][t]]

-----------------------------------------------------------------------------
(* initialize *)
Init ==
    /\ approved = {}
    /\ fees = [t \in Tokens |-> 0]
    /\ byMarket = [m \in Markets |-> [t \in Tokens |-> 0]]
    /\ limit \in Limits
    /\ daily = [d \in {} |-> 0]
    /\ held = [t \in Tokens |-> 0]
    /\ sent = [m \in Markets |-> [t \in Tokens |-> 0]]
    /\ now = 0
    /\ drawn = 0
    /\ peak = limit

(* approve_market by the admin, register_market by the factory address. *)
ApproveMarket(m) ==
    /\ approved' = approved \cup {m}
    /\ UNCHANGED <<books, limit, daily, held, sent, now, history>>

RevokeMarket(m) ==
    /\ approved' = approved \ {m}
    /\ UNCHANGED <<books, limit, daily, held, sent, now, history>>

DepositFees(m, t, a) ==
    /\ m \in approved
    /\ held[t] + a <= MaxHeld
    /\ fees' = [fees EXCEPT ![t] = @ + a]
    /\ held' = [held EXCEPT ![t] = @ + a]
    /\ UNCHANGED <<approved, byMarket, limit, daily, sent, now, history>>

(* A market's own transfer to the treasury's address: no treasury code runs.*)
SendFee(m, t, a) ==
    /\ held[t] + a <= MaxHeld /\ sent[m][t] + a <= MaxHeld
    /\ held' = [held EXCEPT ![t] = @ + a]
    /\ sent' = [sent EXCEPT ![m][t] = @ + a]
    /\ UNCHANGED <<approved, books, limit, daily, now, history>>

(* receive_fee "assumes token was already transferred by Market": it checks *)
(* the caller, and neither the amount nor the market id.  (Both are         *)
(* integers of the caller's choosing; a fee is never negative.)             *)
ReceiveFee(m, id, t, a) ==
    /\ m \in approved
    /\ byMarket[id][t] + a <= MaxHeld
    /\ fees' = [fees EXCEPT ![t] = @ + a]
    /\ byMarket' = [byMarket EXCEPT ![id][t] = @ + a]
    /\ UNCHANGED <<approved, limit, daily, held, sent, now, history>>

(* The checks of withdraw_fees; WITHDRAWALS_PAUSED is set to FALSE by       *)
(* initialize and by nothing else.  (A mutant forgets what was already      *)
(* withdrawn today.)                                                        *)
MayDrawForgetful(t, a) ==
    a \in MinWithdrawal..limit /\ a <= limit * 5 /\ a <= fees[t]

MayDraw(t, a) ==
    /\ a >= MinWithdrawal
    /\ a <= limit
    /\ DrawnToday + a <= limit * 5
    /\ a <= fees[t]

WithdrawFees(t, a) ==
    /\ MayDraw(t, a)
    /\ a <= held[t]
    /\ fees' = [fees EXCEPT ![t] = @ - a]
    /\ daily' = Prune([d \in DOMAIN daily \cup {Today} |->
                         IF d = Today THEN DrawnToday + a ELSE daily[d]])
    /\ held' = [held EXCEPT ![t] = @ - a]
    /\ drawn' = drawn + a
    /\ UNCHANGED <<approved, byMarket, limit, sent, now, peak>>

UpdateWithdrawalLimit(l) ==
    /\ limit' = l
    /\ peak' = IF l > peak THEN l ELSE peak
    /\ UNCHANGED <<approved, books, daily, held, sent, now, drawn>>

(* emergency_drain pays out a token's whole recorded balance, whatever the  *)
(* limits.  (The mutant forgets to zero it.)                                *)
DrainAgain(t) ==
    /\ fees[t] <= held[t]
    /\ held' = [held EXCEPT ![t] = @ - fees[t]]
    /\ UNCHANGED <<approved, books, limit, daily, sent, now, history>>

EmergencyDrain(t) ==
    /\ fees[t] <= held[t]
    /\ fees' = [fees EXCEPT ![t] = 0]
    /\ held' = [held EXCEPT ![t] = @ - fees[t]]
    /\ UNCHANGED <<approved, byMarket, limit, daily, sent, now, history>>

Tick ==
    /\ now < MaxTime
    /\ now' = now + 1
    /\ IF now' \div DayLength = Today
       THEN UNCHANGED history
       ELSE drawn' = 0 /\ peak' = limit
    /\ UNCHANGED <<approved, books, limit, daily, held, sent>>

Next ==
    \/ \E m \in Markets : ApproveMarket(m) \/ RevokeMarket(m)
    \/ \E m \in Markets, t \in Tokens, a \in FeeAmounts :
          \/ DepositFees(m, t, a) \/ SendFee(m, t, a)
          \/ \E id \in Markets : ReceiveFee(m, id, t, a)
    \/ \E t \in Tokens, a \in DrawAmounts : WithdrawFees(t, a)
    \/ \E l \in Limits : UpdateWithdrawalLimit(l)
    \/ \E t \in Tokens : EmergencyDrain(t)
    \/ Tick

Spec == Init /\ [][Next]_vars

-----------------------------------------------------------------------------
(* Properties *)

(* Every variable holds a value of its kind; no count and no balance is     *)
(* ever negative.                                                           *)
TypeOK ==
    /\ approved \subseteq Markets
    /\ fees \in [Tokens -> Nat]
    /\ byMarket \in [Markets -> [Tokens -> Nat]]
    /\ limit \in Int
    /\ DOMAIN daily \subseteq Days
    /\ \A d \in DOMAIN daily : daily[d] \in Nat
    /\ held \in [Tokens -> Nat]
    /\ sent \in [Markets -> [Tokens -> Nat]]
    /\ now \in 0..MaxTime
    /\ drawn \in Nat
    /\ peak \in Int

(* The books balance, whatever is deposited, transferred, reported,         *)
(* withdrawn and drained: the counter and the holdings of a token differ by *)
(* the difference between what was reported and what was transferred for it.*)
(* So whatever is recorded can be withdrawn (withdraw_fees, emergency_drain)*)
(* as long as no more was reported than transferred, which the treasury     *)
(* leaves to the markets.                                                   *)
HoldingsAccounted ==
    \A t \in Tokens :
        LET reported == SumFunctionOnSet(Reported(t), Markets)
            transferred == SumFunctionOnSet(Transferred(t), Markets)
        IN  /\ held[t] + reported = fees[t] + transferred
            /\ reported <= transferred => fees[t] <= held[t]

(* Pruning never forgets what counts: the amount recorded for today is what *)
(* was withdrawn today, in whatever tokens (prune_daily_withdrawn runs on   *)
(* every withdrawal).                                                       *)
DailyExact == DrawnToday = drawn

(* "the map never grows beyond 2 entries" (lib.rs:42), however the days of  *)
(* the withdrawals fall.                                                    *)
DailyMapSmall == Cardinality(DOMAIN daily) <= 2

(* No day sees more withdrawn than five times the highest limit in force on *)
(* that day, also when the limit is lowered and raised again in between.    *)
DayCapped == drawn > 0 => drawn <= 5 * peak

(* The inductive invariant.  Beyond the properties it says that the days    *)
(* still recorded are the day of some withdrawal, no later than today, and  *)
(* the day before it; so a new day starts with nothing recorded.            *)
RecentDays == \E d \in Days : d <= Today /\ DOMAIN daily \subseteq {d - 1, d}

IInv ==
    /\ TypeOK
    /\ HoldingsAccounted
    /\ DailyExact
    /\ DayCapped
    /\ RecentDays
    /\ limit <= peak

-----------------------------------------------------------------------------
(* For TLC: markets are interchangeable, and so are tokens. *)
Symmetry == Permutations(Markets) \cup Permutations(Tokens)
==============================================================================
