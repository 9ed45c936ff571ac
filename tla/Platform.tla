------------------------------- MODULE Platform -------------------------------
(***************************************************************************)
(* A market and the treasury on one ledger.  The market's claim_winnings   *)
(* transfers its fee straight to the treasury's address: a token transfer, *)
(* which runs none of the treasury's code.  No market calls deposit_fees   *)
(* or receive_fee.                                                         *)
(***************************************************************************)
EXTENDS Market

CONSTANTS
    This,          \* the market's address
    DrawAmounts, Limits, MinWithdrawal, DayLength, MaxHeld \* see Treasury

VARIABLES approved, fees, byMarket, limit, daily, held, sent, drawn, peak

T == INSTANCE Treasury WITH
        Markets <- {This}, FeeAmounts <- Nat

marketVars == <<state, pools, bets, pending, paused, whitelist, money>>
treasuryVars == <<approved, fees, byMarket, limit, daily, held, sent, drawn, peak>>

PlatformInit == Init /\ T!Init

(* claim_winnings and its fee transfer, which it skips when the fee is 0. *)
ClaimAndSendFee(b, t) ==
    /\ ClaimWinnings(b, t)
    /\ IF Fee > 0 THEN T!SendFee(This, t, Fee) ELSE UNCHANGED treasuryVars

(* What happens at the market and leaves the treasury alone. *)
MarketOnly ==
    /\ \/ \E b \in Bettors, s \in BetSides, a \in BetAmounts, t \in Tokens :
             PlaceBet(b, s, a, t)
       \/ LockMarket
       \/ \E o \in Oracles, x \in ReportOutcomes : ResolveMarket(o, x)
       \/ \E b \in Bettors, t \in Tokens : ClaimRefund(b, t)
       \/ CancelMarket
       \/ DisputeMarket
       \/ \E x \in ReportOutcomes : ResolveDispute(x)
       \/ EmergencyPause \/ EmergencyUnpause
       \/ \E o \in Oracles : AddOracle(o) \/ RemoveOracle(o)
    /\ UNCHANGED treasuryVars

(* What the admin does at the treasury. *)
TreasuryOnly ==
    /\ \/ T!ApproveMarket(This) \/ T!RevokeMarket(This)
       \/ \E t \in Tokens, a \in DrawAmounts : T!WithdrawFees(t, a)
       \/ \E l \in Limits : T!UpdateWithdrawalLimit(l)
       \/ \E t \in Tokens : T!EmergencyDrain(t)
    /\ UNCHANGED marketVars

PlatformNext ==
    \/ \E b \in Bettors, t \in Tokens : ClaimAndSendFee(b, t)
    \/ MarketOnly
    \/ TreasuryOnly
    \/ Tick /\ T!Tick

PlatformSpec == PlatformInit /\ [][PlatformNext]_<<vars, treasuryVars>>

-----------------------------------------------------------------------------
(* "The `ACCUMULATED_FEES` counter tracks what was actually transferred"    *)
(* (contracts/SECURITY_AUDIT.md:138): while nothing has been withdrawn, the *)
(* counter is what the market has sent.                                     *)
CounterTracksTransfers ==
    \A t \in Tokens : held[t] = treasuryFees[t] => fees[t] = treasuryFees[t]
==============================================================================
