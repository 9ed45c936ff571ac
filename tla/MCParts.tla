------------------------------- MODULE MCParts -------------------------------
(***************************************************************************)
(* Parts of the backend, the invoice indexer and the browser that share no *)
(* state, checked by TLC in one run.  The initial state chooses the part    *)
(* that runs; the others stay where they begin, so the states are those of *)
(* the parts one after the other, not their product.  Properties of a part *)
(* hold of its initial state, or say that it is the part that runs.        *)
(***************************************************************************)
EXTENDS Integers

CONSTANTS
    Callers, MaxRetries, MaxLosses, Monitors,
    FailureThreshold, MaxAlertFaults, Runners, MaxRuns, PublicMax,
    AdminMax, Window, Invoices, InvoiceStatuses, MaxLedgers, MaxPollerFaults,
    Requests, MaxVersion, MaxMailed, CacheKeys, Readers, MaxRowWrites, MaxBets,
    MaxCacheFaults, Sockets, RateCap, WindowTicks, MaxTime,
    MaxReconnectAttempts, MaxSources, Forms, MaxSubmissions, PageKeys,
    MaxFetches, MaxMoves, MaxPageFaults, FeeChoices, Amounts, MaxOthers,
    Grain, FloatError,
    Tasks, PoolMax, MaxRows, MaxQueryFaults, Wallets, Bouts, MaxLoads,
    MaxSwitches, MaxPushes, MaxPlaced, MaxPushFaults, MaxAttempts, Sides,
    Stakes, MaxSent, Terms, HomePages, MaxClicks, PageSize,
    Instances, WhitelistTTL, MaxCalls,
    BetLimit, MaxPages, MaxBetRows

VARIABLES
    part,    \* the part that runs
    ledgerSeq, txs, step, sourceAccount, attempts, losses,
    failureKey, alertSentKey, monitoring, failures, alerts, alertFaults,
    lock, runs, identifier, phase, overdue,
    hits, ttl, through,
    ledgers, invoices, cursorFile, mode, cursor, batch, since, skipped,
    pollerFaults,
    user, resetTokens, mailed, tombstones, signed, stage, seen, token,
    ended,
    rowVersion, marketStatus, cached, reading, plan, enqueued, cacheFaults,
    time, connected, authenticated, subscriptions, counts, allowed,
    opened, live, eventSource, reconnectAttempts, timers, isUnsubscribed,
    missed,
    wallet, resolved, form, at, tx, status, lastTxStatus, isSubmitting,
    left,
    hook, stored, shownKey, fetches, shown, error, polling, moves,
    pageFaults,
    feeBps, pools, others, row, trade, bet, preview, projected, simulated,
    behind, result,
    idle, queue, todo, taskAt, rows, reader, queryFaults,
    address, verdict, paid, marked, loads, portfolio, isLoading,
    claimingAll, claim, uniqueMarkets, tried, switches,
    settled, placed, pushes, first, timer, over, browser, leftEarly,
    odds, pushFaults,
    screen, payer, bills, selected, proposal, hasVoted, counted, txStatus,
    built, flight, expiring, swaps,
    kind, hasWallet, open, side, amount, showModal, dialog, sending,
    betStatus, captured, said, sent,
    url, going, searchInput, debounce, asked, listed, overtook, clicks,
    table, bets, loading, tableLoading, tab, sort, tablePage, shifted,
    environment, whitelist, checking, accepted, oldGone,
    kept, walletAddress, calls, revived,
    bettor, onRecord, betList, pageRequests, pageMoves

(* A bettor's rows: two of one status, and one of each other.               *)
TableBets ==
    {[id |-> 1, claimed |-> FALSE, payout |-> "none"],
     [id |-> 2, claimed |-> FALSE, payout |-> "none"],
     [id |-> 3, claimed |-> TRUE, payout |-> "some"],
     [id |-> 4, claimed |-> FALSE, payout |-> "some"],
     [id |-> 5, claimed |-> FALSE, payout |-> "zero"]}

Calls == INSTANCE InvokeContract
Alerts == INSTANCE OracleAlerts
Locks == INSTANCE CronLock
Limits == INSTANCE RateLimit
Poller == INSTANCE InvoicePoller WITH Statuses <- InvoiceStatuses
Users == INSTANCE Accounts
Reads == INSTANCE MarketReads
Feed == INSTANCE ActivityFeed
Events == INSTANCE ContractEvents
Client == INSTANCE ClientTransactions
Pages == INSTANCE MarketPages WITH Keys <- PageKeys
Quote == INSTANCE Quotes
Pool == INSTANCE ConnectionPool WITH at <- taskAt
Claims == INSTANCE Portfolio
Stream == INSTANCE OddsStream WITH shown <- odds
Actions == INSTANCE ActionPages
              WITH Rows <- Bouts, Addresses <- Wallets, MaxMoves <- MaxSwitches,
                   page <- screen, connected <- payer, invoices <- bills,
                   attempts <- built, timers <- expiring, moves <- swaps
BetForm == INSTANCE BetForms WITH connected <- hasWallet, txStatus <- betStatus
Filters == INSTANCE HomeFilters
              WITH TotalPages <- HomePages, overtaken <- overtook
Tables == INSTANCE BetTables
              WITH Bets <- TableBets, isLoading <- tableLoading, page <- tablePage
Oracles == INSTANCE OracleWhitelist
Session == INSTANCE WalletSession
              WITH Addresses <- Wallets, stored <- kept
Bets == INSTANCE BetPages
              WITH Limit <- BetLimit, MaxRequests <- MaxLoads, address <- bettor,
                   placed <- onRecord, list <- betList,
                   requests <- pageRequests, moves <- pageMoves

invokeVars == <<ledgerSeq, txs, step, sourceAccount, attempts,
                losses>>
alertVars == <<failureKey, alertSentKey, monitoring, failures, alerts,
               alertFaults>>
lockVars == <<lock, runs, identifier, phase, overdue>>
rateVars == <<hits, ttl, through>>
pollerVars == <<ledgers, invoices, cursorFile, mode, cursor, batch,
                since, skipped, pollerFaults>>
accountVars == <<user, resetTokens, mailed, tombstones, signed, stage,
                 seen, token, ended>>
readVars == <<rowVersion, marketStatus, cached, reading, plan, enqueued,
              cacheFaults>>
feedVars == <<time, connected, authenticated, subscriptions, counts,
              allowed>>
eventVars == <<opened, live, eventSource, reconnectAttempts, timers,
               isUnsubscribed, missed>>
clientVars == <<wallet, resolved, form, at, tx, status, lastTxStatus,
                isSubmitting, left>>
pageVars == <<hook, stored, shownKey, fetches, shown, error, polling,
              moves, pageFaults>>
quoteVars == <<feeBps, pools, others, row, trade, bet, preview, projected,
               simulated, behind, result>>
poolVars == <<idle, queue, todo, taskAt, rows, reader, queryFaults>>
portfolioVars == <<address, verdict, paid, marked, loads, portfolio,
                   isLoading, claimingAll, claim, uniqueMarkets, tried,
                   switches>>
streamVars == <<settled, placed, pushes, first, timer, over, browser,
                leftEarly, odds, pushFaults>>
actionVars == <<screen, payer, bills, selected, proposal, hasVoted, counted,
                txStatus, built, flight, expiring, swaps>>
betFormVars == <<kind, hasWallet, open, side, amount, showModal, dialog,
                 sending, betStatus, captured, said, sent>>
filterVars == <<url, going, searchInput, debounce, asked, listed, overtook,
                clicks>>
tableVars == <<table, bets, loading, tableLoading, tab, sort, tablePage,
               shifted>>
whitelistVars == <<environment, whitelist, checking, accepted, oldGone>>
sessionVars == <<kept, walletAddress, calls, revived>>
betPageVars == <<bettor, onRecord, betList, pageRequests, pageMoves>>

variables ==
    <<part, invokeVars, alertVars, lockVars, rateVars, pollerVars,
      accountVars, readVars, feedVars, eventVars, clientVars, pageVars,
      quoteVars, poolVars, portfolioVars, streamVars, actionVars, betFormVars,
      filterVars, tableVars, whitelistVars, sessionVars,
      betPageVars>>

PartsInit ==
    /\ part \in {"invocation", "alerts",
                "cron lock", "rate limit", "invoices",
                "accounts", "market reads", "feed",
                "subscription", "transactions", "pages", "quotes",
                "connections", "portfolio", "odds", "actions", "bet forms",
                "filters", "tables", "whitelist",
                "wallet session", "bet pages"}
    /\ Calls!InvokeInit
    /\ Alerts!AlertInit
    /\ Locks!LockInit
    /\ Limits!RateInit
    /\ Poller!PollerInit
    /\ Users!AccountInit
    /\ Reads!ReadsInit
    /\ Feed!FeedInit
    /\ Events!EventInit
    /\ Client!ClientInit
    /\ Pages!PageInit
    /\ Quote!QuoteInit
    /\ Pool!PoolInit
    /\ Claims!PortfolioInit
    /\ Stream!StreamInit
    /\ Actions!ActionInit
    /\ BetForm!FormInit
    /\ Filters!FilterInit
    /\ Tables!TableInit
    /\ Oracles!WhitelistInit
    /\ Session!SessionInit
    /\ Bets!BetPageInit
    /\ part # "pages" =>
          hook = "useMarket" /\ shownKey = CHOOSE k \in PageKeys : TRUE
    /\ part # "quotes" => feeBps = CHOOSE f \in FeeChoices : TRUE
    /\ part # "actions" => screen = "payer" /\ proposal = "Active"
    /\ part # "bet forms" => kind = "form"
    /\ part # "tables" => table = "list"

(* The parts other than p do nothing. *)
Others(p) ==
    /\ UNCHANGED part
    /\ IF p = "invocation" THEN TRUE ELSE UNCHANGED invokeVars
    /\ IF p = "alerts" THEN TRUE ELSE UNCHANGED alertVars
    /\ IF p = "cron lock" THEN TRUE ELSE UNCHANGED lockVars
    /\ IF p = "rate limit" THEN TRUE ELSE UNCHANGED rateVars
    /\ IF p = "invoices" THEN TRUE ELSE UNCHANGED pollerVars
    /\ IF p = "accounts" THEN TRUE ELSE UNCHANGED accountVars
    /\ IF p = "market reads" THEN TRUE ELSE UNCHANGED readVars
    /\ IF p = "feed" THEN TRUE ELSE UNCHANGED feedVars
    /\ IF p = "subscription" THEN TRUE ELSE UNCHANGED eventVars
    /\ IF p = "transactions" THEN TRUE ELSE UNCHANGED clientVars
    /\ IF p = "pages" THEN TRUE ELSE UNCHANGED pageVars
    /\ IF p = "quotes" THEN TRUE ELSE UNCHANGED quoteVars
    /\ IF p = "connections" THEN TRUE ELSE UNCHANGED poolVars
    /\ IF p = "portfolio" THEN TRUE ELSE UNCHANGED portfolioVars
    /\ IF p = "odds" THEN TRUE ELSE UNCHANGED streamVars
    /\ IF p = "actions" THEN TRUE ELSE UNCHANGED actionVars
    /\ IF p = "bet forms" THEN TRUE ELSE UNCHANGED betFormVars
    /\ IF p = "filters" THEN TRUE ELSE UNCHANGED filterVars
    /\ IF p = "tables" THEN TRUE ELSE UNCHANGED tableVars
    /\ IF p = "whitelist" THEN TRUE ELSE UNCHANGED whitelistVars
    /\ IF p = "wallet session" THEN TRUE ELSE UNCHANGED sessionVars
    /\ IF p = "bet pages" THEN TRUE ELSE UNCHANGED betPageVars

PartsNext ==
    \/ part = "invocation" /\ Calls!InvokeNext /\ Others("invocation")
    \/ part = "alerts" /\ Alerts!AlertNext /\ Others("alerts")
    \/ part = "cron lock" /\ Locks!LockNext /\ Others("cron lock")
    \/ part = "rate limit" /\ Limits!RateNext /\ Others("rate limit")
    \/ part = "invoices" /\ Poller!PollerNext /\ Others("invoices")
    \/ part = "accounts" /\ Users!AccountNext /\ Others("accounts")
    \/ part = "market reads" /\ Reads!ReadsNext /\ Others("market reads")
    \/ part = "feed" /\ Feed!FeedNext /\ Others("feed")
    \/ part = "subscription" /\ Events!EventNext /\ Others("subscription")
    \/ part = "transactions" /\ Client!ClientNext /\ Others("transactions")
    \/ part = "pages" /\ Pages!PageNext /\ Others("pages")
    \/ part = "quotes" /\ Quote!QuoteNext /\ Others("quotes")
    \/ part = "connections" /\ Pool!PoolNext /\ Others("connections")
    \/ part = "portfolio" /\ Claims!PortfolioNext /\ Others("portfolio")
    \/ part = "odds" /\ Stream!StreamNext /\ Others("odds")
    \/ part = "actions" /\ Actions!ActionNext /\ Others("actions")
    \/ part = "bet forms" /\ BetForm!FormNext /\ Others("bet forms")
    \/ part = "filters" /\ Filters!FilterNext /\ Others("filters")
    \/ part = "tables" /\ Tables!TableNext /\ Others("tables")
    \/ part = "whitelist" /\ Oracles!WhitelistNext /\ Others("whitelist")
    \/ part = "wallet session" /\ Session!SessionNext /\ Others("wallet session")
    \/ part = "bet pages" /\ Bets!BetPageNext /\ Others("bet pages")

(* The fairness of each part, while it is the part that runs.               *)
PartsFairness ==
    /\ WF_rateVars(part = "rate limit" /\ Limits!Tick)
    /\ WF_pageVars(part = "pages" /\ Pages!PageProgress)
    /\ WF_poolVars(part = "connections" /\ Pool!PoolProgress)
    /\ WF_portfolioVars(part = "portfolio" /\ Claims!ClaimProgress)
    /\ WF_streamVars(part = "odds" /\ Stream!StreamProgress)
    /\ WF_filterVars(part = "filters" /\ Filters!Settling)
    /\ WF_filterVars(part = "filters" /\ Filters!Poll)
    /\ SF_filterVars(part = "filters" /\ Filters!Answered)

PartsSpec == PartsInit /\ [][PartsNext]_variables /\ PartsFairness

-----------------------------------------------------------------------------
(* Properties *)

(* A caller of invokeContract who was given a hash has had the operation    *)
(* applied, and none of the attempts given up before is applied afterwards: *)
(* InvokeContract implements Invocation.                                    *)
ImplementsInvocation == Calls!ImplementsInvocation

(* A series of failures costs at most one alert from each process:          *)
(* OracleAlerts.                                                            *)
AlertsBounded == Alerts!AlertsBounded

(* Jobs run alone as long as none outlives its lock, and none releases      *)
(* another's: CronLock.                                                     *)
AloneWithinTTL == Locks!AloneWithinTTL

(* A client that is refused is let through again: RateLimit.                *)
BlockedClientRecovers == Limits!BlockedClientRecovers

(* The invoice table is what the ledgers up to the cursor made of it, but   *)
(* for events that were skipped, and the saved cursor never passes an event *)
(* that was not processed or skipped: InvoicePoller.                        *)
RowsCurrent == Poller!RowsCurrent /\ Poller!CursorHonest

(* A completed reset of the password ends the sessions it saw: Accounts.    *)
ResetEndsSessions == Users!ResetEndsSessions

(* Only a late store, a refused deletion or a writer that does not delete   *)
(* the key leaves a stale entry in the cache: MarketReads.                  *)
FreshUnlessLate == Reads!FreshUnlessLate

(* The feed sends a market fewer than twice its limit of events in any      *)
(* stretch as long as a window: ActivityFeed.                               *)
BurstBounded == Feed!BurstBounded

(* A subscription that has ended stays silent, one that has not keeps one   *)
(* source: ContractEvents.                                                  *)
SilentOnceUnsubscribed == Events!SilentOnceUnsubscribed

(* What a form (but the one that creates markets) or a page says has        *)
(* succeeded has been applied, and a form has one transaction under way:    *)
(* ClientTransactions, ActionPages.                                         *)
SuccessMeansApplied ==
    Client!SuccessMeansApplied /\ Client!OneUnderWay /\ Actions!ShownIsBacked

(* A bet is sent as its dialog showed it: BetForms.                         *)
SentAsConfirmed == BetForm!SentAsConfirmed

(* The home page's search box and its URL come to agree, and its list comes *)
(* to be the one of the URL's status and page, which the search does not    *)
(* narrow; tables show rows they have; pages of bets added to a list skip   *)
(* none: HomeFilters, BetTables, BetPages.                                  *)
ListsFollowUser ==
    (part = "filters" => Filters!SearchSettles) /\ [](Tables!PageInRange /\ Bets!NoBetSkipped)

(* A removed oracle is refused once the shared whitelist has expired:       *)
(* OracleWhitelist.                                                         *)
RemovedOracleRefused == Oracles!RemovedOracleRefused

(* The address that is shown is the one transactions are built with, unless*)
(* a restored one came late: WalletSession.                                 *)
ShownIsUsed == Session!ShownIsUsed

(* A page that polls comes to show the backend's row: MarketPages.          *)
PagesCatchUp == Pages!PagesCatchUp

(* A winner is paid what the browser showed, to half of its last decimal:   *)
(* Quotes.                                                                  *)
PromiseKept == Quote!PromiseKept

(* Every connection comes back, but those of abandoned exports:             *)
(* ConnectionPool.                                                          *)
PoolRecovers == Pool!PoolRecovers

(* Claim All ends, and has tried every market it was clicked for: Portfolio.*)
ClaimAllTriesAll == Claims!ClaimAllTriesAll

(* The odds stream stops, and its end leaves the last odds: OddsStream.     *)
OddsSettle == Stream!OddsSettle
==============================================================================
