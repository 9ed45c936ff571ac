------------------------------- MODULE Portfolio -------------------------------
(***************************************************************************)
(* The portfolio page (app/portfolio/page.tsx, hooks/usePortfolio.ts) over *)
(* getPortfolioByAddress of the backend's MarketService.ts: what a wallet  *)
(* may still claim, and Claim All, which asks the wallet for one claim     *)
(* after the other and loads the portfolio again after each.  Meanwhile the*)
(* user may change wallets, and answers come late.                         *)
(*                                                                         *)
(* Every wallet has bet on side "a" of every market.  The table's own      *)
(* buttons (BetHistoryTable) want a payout on an unclaimed bet, which no    *)
(* row of the database has, so that Claim All is the only one.             *)
(***************************************************************************)
EXTENDS Naturals

CONSTANTS
    Wallets, Bouts,
    MaxLoads,       \* bound: loads of the page's own under way
    MaxSwitches     \* bound: changes of wallet, claims made elsewhere

Slots == 1..MaxLoads
Absent == [address |-> "none", pending |-> {}]

VARIABLES
    address,     \* the connected wallet, or "none"
    verdict,     \* the market's row: "open", "a", "b", "cancelled"
    paid,        \* pairs of wallet and market the contract has paid
    marked,      \* those whose row says claimed
    loads,       \* the addresses the page's loads ask for
    portfolio,   \* what the page shows
    isLoading,
    claimingAll,
    claim,       \* the claim under way: what it awaits, and the address of
                 \* the render whose button was clicked
    uniqueMarkets, tried,   \* of the last click: its markets, those tried
    switches

portfolioVars == <<address, verdict, paid, marked, loads, portfolio,
                   isLoading, claimingAll, claim, uniqueMarkets, tried,
                   switches>>

(* getPortfolioByAddress: the winning bets not yet marked as claimed.       *)
PendingClaims(w) == {m \in Bouts : verdict[m] = "a" /\ <<w, m>> \notin marked}

PortfolioInit ==
    /\ address = "none"
    /\ verdict = [m \in Bouts |-> "open"]
    /\ paid = {} /\ marked = {}
    /\ loads = [r \in Slots |-> "none"]
    /\ portfolio = Absent /\ isLoading = FALSE
    /\ claimingAll = FALSE
    /\ claim = [awaits |-> "nothing", address |-> "none"]
    /\ uniqueMarkets = {} /\ tried = {}
    /\ switches = 0

-----------------------------------------------------------------------------
(* load() of a render for wallet w.                                         *)
Load(w) ==
    IF w = "none" THEN portfolio' = Absent /\ UNCHANGED <<loads, isLoading>>
    ELSE /\ \E r \in Slots :
               /\ loads[r] = "none" /\ \A q \in 1..r - 1 : loads[q] # "none"
               /\ loads' = [loads EXCEPT ![r] = w]
         /\ isLoading' = TRUE /\ UNCHANGED portfolio

(* The user connects, changes or disconnects the wallet: load changes, and  *)
(* its effect runs.                                                         *)
Switch(w) ==
    /\ switches < MaxSwitches /\ w # address
    /\ switches' = switches + 1
    /\ address' = w
    /\ Load(w)
    /\ UNCHANGED <<verdict, paid, marked, claimingAll, claim, uniqueMarkets, tried>>

(* A claim made on a market's page succeeds: its event makes the hook load. *)
ClaimSuccess(m) ==
    /\ switches < MaxSwitches /\ address # "none" /\ verdict[m] = "a"
    /\ switches' = switches + 1
    /\ paid' = paid \union {<<address, m>>}
    /\ Load(address)
    /\ UNCHANGED <<address, verdict, marked, claimingAll, claim, uniqueMarkets, tried>>

(* The answer of the load for wallet w, or its failure, which leaves the    *)
(* page as it was; whichever load it is, the page no longer says Loading.   *)
Shown(w) ==
    /\ isLoading' = FALSE
    /\ \/ portfolio' = [address |-> w, pending |-> PendingClaims(w)]
       \/ UNCHANGED portfolio

LoadEnds(r) ==
    /\ loads[r] # "none"
    /\ loads' = [loads EXCEPT ![r] = "none"]
    /\ Shown(loads[r])
    /\ UNCHANGED <<address, verdict, paid, marked, claimingAll, claim, uniqueMarkets,
                   tried, switches>>

-----------------------------------------------------------------------------
(* handleClaimAll goes on: to the next market, or to its end.               *)
Continue(done, from) ==
    IF done = uniqueMarkets
    THEN /\ claimingAll' = FALSE
         /\ claim' = [awaits |-> "nothing", address |-> "none"]
    ELSE /\ claim' = [awaits |-> "wallet", address |-> from]
         /\ UNCHANGED claimingAll

ClaimAll ==
    /\ address # "none" /\ ~isLoading
    /\ portfolio.pending # {} /\ ~claimingAll
    /\ claimingAll' = TRUE
    /\ uniqueMarkets' = portfolio.pending
    /\ tried' = {}
    /\ claim' = [awaits |-> "wallet", address |-> address]
    /\ UNCHANGED <<address, verdict, paid, marked, loads, portfolio, isLoading,
                   switches>>

(* runClaim: submitClaim returns a hash, for the wallet now connected, and  *)
(* the portfolio is loaded, of the address the button was rendered for.     *)
Claimed(m) ==
    /\ claim.awaits = "wallet" /\ m \in uniqueMarkets \ tried
    /\ address # "none" /\ verdict[m] = "a" /\ <<address, m>> \notin paid
    /\ paid' = paid \union {<<address, m>>}
    /\ tried' = tried \union {m}
    /\ claim' = [claim EXCEPT !.awaits = "load"]
    /\ isLoading' = TRUE
    /\ UNCHANGED <<address, verdict, marked, loads, portfolio, claimingAll,
                   uniqueMarkets, switches>>

(* The catch block of runClaim: whatever goes wrong, the loop goes on.      *)
(* (A mutant lets the error through, past the end of handleClaimAll.)       *)
Uncaught(done, from) ==
    /\ claim' = [awaits |-> "nothing", address |-> "none"]
    /\ UNCHANGED claimingAll
AfterError(done, from) == Continue(done, from)

ClaimFails(m) ==
    /\ claim.awaits = "wallet" /\ m \in uniqueMarkets \ tried
    /\ tried' = tried \union {m}
    /\ AfterError(tried \union {m}, claim.address)
    /\ UNCHANGED <<address, verdict, paid, marked, loads, portfolio, isLoading,
                   uniqueMarkets, switches>>

Reloaded ==
    /\ claim.awaits = "load"
    /\ Shown(claim.address)
    /\ Continue(tried, claim.address)
    /\ UNCHANGED <<address, verdict, paid, marked, loads, uniqueMarkets, tried,
                   switches>>

-----------------------------------------------------------------------------
(* External: a fight is settled, and an indexed claim marks its bets.       *)
Settle(m, v) ==
    /\ verdict[m] = "open"
    /\ verdict' = [verdict EXCEPT ![m] = v]
    /\ UNCHANGED <<address, paid, marked, loads, portfolio, isLoading, claimingAll,
                   claim, uniqueMarkets, tried, switches>>

Index(c) ==
    /\ c \in paid \ marked
    /\ marked' = marked \union {c}
    /\ UNCHANGED <<address, verdict, paid, loads, portfolio, isLoading, claimingAll,
                   claim, uniqueMarkets, tried, switches>>

PortfolioNext ==
    \/ ClaimAll \/ Reloaded
    \/ \E w \in Wallets \union {"none"} : Switch(w)
    \/ \E r \in Slots : LoadEnds(r)
    \/ \E m \in Bouts :
          \/ ClaimSuccess(m) \/ Claimed(m) \/ ClaimFails(m)
          \/ \E v \in {"a", "b", "cancelled"} : Settle(m, v)
    \/ \E c \in paid : Index(c)

(* The user answers the wallet's window, and requests end.                  *)
ClaimProgress == Reloaded \/ \E m \in Bouts : Claimed(m) \/ ClaimFails(m)

PortfolioSpec ==
    PortfolioInit /\ [][PortfolioNext]_portfolioVars /\ WF_portfolioVars(ClaimProgress)

-----------------------------------------------------------------------------
(* Properties *)

(* Claim All comes to an end, whatever fails and whichever wallet is        *)
(* connected meanwhile, and has then tried every market it was clicked for: *)
(* a click that left one out would, if it were the last, never be made good.*)
ClaimAllTriesAll == []<>(~claimingAll /\ uniqueMarkets \subseteq tried)
===============================================================================
