# BOXMEOUT in TLA+

A verification project for BOXMEOUT, a prediction market for boxing matches:
Soroban contracts (Rust) that hold the money, a Node backend that mirrors the
chain and reports fight results, a small invoice indexer, and a web frontend.
The modules here are translated from the code; each says in its header which
files it models, and `PROJECT.json` maps every definition to its lines.

To check it: `tlc -config MCMarket.cfg Market` (and so on for each
run below), `tlapm MarketProofs.tla` (and the other `*Proofs` modules).

## 1. The system

### Components, their state, and what makes each one correct

| Component | Keeps | Must hold | Modules |
|---|---|---|---|
| **Market contract** `contracts/market` | status, outcome, pools; one bet record per bettor; pending reports; paused flag; its balance | pools = sum of bets; refunds covered in the tokens that were staked; nobody paid twice; two oracles in the window decide; verdicts are final but for disputes | `Market`, `Escrow`; proved |
| **Treasury contract** `contracts/treasury` | approved markets, fees per token and market, withdrawal limit, per-day tally | counter and holdings differ by what was reported and what was transferred; daily cap; pruning forgets nothing that counts | `Treasury`; proved |
| **MarketFactory contract** `contracts/market_factory` | admin and nominee, oracle whitelist, market map, open list, code hash, paused flag | open markets are listed; nominations do not outlive their admin; pages are complete | `MarketFactory`; proved |
| **Shared contract code** `contracts/shared` | none | - | its types, in `Market`; `amm.rs` is called by no contract |
| **Stellar indexer** `backend/src/indexer` | checkpoint, markets and bets rows | the checkpoint passes nothing unrecorded; rows survive replay; every event is indexed in the end | `StellarIndexer`; its safety proved |
| **Oracle service, cron jobs, lock** `backend/src/oracle`, `cron`, `utils/distributedLock.ts` | report and dispute rows, caches of results and of the whitelist, failure counters, locks | what is recorded is what the contract was told; overdue markets are settled; alerts bounded; cleanup runs do not overlap | `Resolution`, `OracleAlerts`, `CronLock`, `OracleWhitelist`; their safety proved |
| **Stellar transaction service** `services/StellarService.ts` | the oracle account's sequence number, subscriptions | a hash means applied; nothing is applied after it; an ended subscription is silent; the history asked for is collected (it is not) | `InvokeContract`, `Invocation`, `ContractEvents`, `HistoricalEvents`; all but the last proved |
| **Market, bet and user services** `services/MarketService.ts`, `BetService.ts` | Postgres rows, cached reads | a writer's deletions leave nothing stale among the keys they name; payouts are what was shown, to half of the last decimal; connections come back | `MarketReads`, `Quotes`, `ConnectionPool`, `Portfolio`, `BetPages`, `Resolution` (partly); the first two proved |
| **Cache, rate limiting** `services/cache.service.ts`, `middleware/` | Redis keys | a refused client is let through again | `RateLimit`, `MarketReads`; the latter proved |
| **Authentication** `services/auth.service.ts`, `routes/auth.routes.ts` | users, reset tokens, session versions, tombstones | a reset ends the sessions it saw | `Accounts` (partly); proved |
| **Websocket activity feed** `websocket/realtime.ts` | connections, subscriptions, limiter windows | bursts are bounded | `ActivityFeed`; proved |
| **HTTP layer** | none, but for the odds stream | pushed odds settle | `OddsStream`, `Resolution` (partly) |
| **Email, export, metrics** | an export's connection | connections come back | `ConnectionPool` (partly) |
| **Invoice indexer** `indexer/` | invoices, cursor file | rows follow the ledgers but for events that failed | `InvoicePoller`; proved |
| **Frontend hooks and wallet** `frontend/src/hooks`, `services`, `lib` | transaction status, session, lists | success means applied; the address shown is the one used; pages catch up; pages of bets skip none | `ClientTransactions`, `WalletSession`, `MarketPages`, `Portfolio`, `BetPages` (partly); the first two proved |
| **Frontend pages** `frontend/src/app`, `components` | forms, dialogs, filters, tables | a bet is sent as confirmed; URL, box and list agree on status and page | `BetForms`, `ActionPages`, `HomeFilters`, `BetTables` (partly); the first two proved |

### How they interact

* The **factory** deploys a **market** and initializes it. From then on the
  market reads the factory's oracle whitelist live (`is_oracle_whitelisted`
  calls back into the factory), so removing an oracle takes effect on running
  markets at once; the factory reads a market's status through `get_state` when
  somebody asks to remove it from the open list.
* The **market** sends its fee to the **treasury** by a bare token transfer.
  The treasury has two functions for accounting a fee (`deposit_fees`,
  `receive_fee`); no market calls either.
* **Oracles** and operators call the market directly; the **backend**'s oracle
  service does so from a cron job under a Redis lock.
* The contracts' events are read by the **Stellar indexer**, which rewrites
  Postgres; the HTTP services answer from Postgres through a Redis cache, and
  the cron jobs and administrators write the same rows.
* All chain calls of the backend go through `invokeContract` with the oracle's
  key, and so share one account's sequence number.
* The **browser** reads the HTTP services, and sends its own transactions
  through the wallet extension. The hooks tell each other of claims by window
  events (`boxmeout:claim_success`).
* The **invoice indexer** is a process of its own, with its own contract and
  database.

### What is hard

* Contracts: a call is one transaction, so nothing interleaves *within* it;
  what is hard is the order of many small calls by different parties (bets,
  reports, whitelist changes, pauses, disputes, claims), floored divisions, and
  state that lives in two places (pools and bet records, open list and
  statuses, fee counter and token balance).
* Backend: everything between two `await`s. Crashes between processing and
  saving a checkpoint, events delivered twice, lock TTLs that run out, retries
  of transactions that did go through, cache fills that race invalidations,
  several instances with the same cron jobs, requests on the same row.
* Browser: answers that come late and out of order, closures over old renders,
  timers, and navigation or a change of wallet under a call.

`PROJECT.json` lists these hazards one by one, each at its line, with the
properties that would notice it going wrong.

## 2. The modules

### Market, Escrow

`Market.tla` is `contracts/market/src/lib.rs`, one action per public function
that changes state. A Soroban call that returns an error or traps has no effect:
an error return is a disabled action, and the reentrancy flag `CLAIMING`, set
and cleared within a call, is false in every state and is left out.

| variable | code |
|---|---|
| `status outcome oracleUsed resolvedAt pool totalPool` | `MarketState` |
| `bets` | `BETS`: `place_bet` refuses a second bet, so the vector per bettor has at most one record (`NoBet` stands for none) |
| `pending` | `PENDING_REPORTS` |
| `paused` | `PAUSED` |
| `whitelist` | the factory's `ORACLE_WHITELIST`, read live |
| `now` | ledger timestamp |
| `balance treasuryFees paid` | what the token contracts move: this market's balance of each token, what it has sent to the treasury of each, and to each bettor |
| `stakedIn paidIn` | history: the token of each bettor's stake and settlement |

Decisions that matter:

* `claim_winnings` sends the **whole** fee on every claim, as the code does.
  A claim that the balance does not cover traps in the token contract, so
  `balance >= Fee + Payout(b)` is a guard.
* In `resolve_market` the whitelist is checked for the caller alone; the stored
  reports of oracles removed since count. `Agreeing` says so.
* `FactorySigns` is a constant. Several functions accept only the address stored
  as `FACTORY`. The factory contract of this repository never makes those calls,
  so with it as deployed the answer is FALSE; the market's tests initialize it
  with an ordinary account, and then it is TRUE. The theorems hold for both.
* `place_bet`, `claim_winnings` and `claim_refund` are told by the bettor which
  **token** to transfer (`lib.rs:204, 456, 590`), and nobody compares it with
  anything: `balance`, `treasuryFees` and what was staked are per token, every
  action takes one, pools and payouts are amounts of no particular one.
  `stakedIn` and `paidIn` are history: what each bettor staked and was settled
  in. So refunds are covered only as long as those before were taken in kind
  (`RefundedInKind`), and the first claim only if all stakes are in one token
  (`AllStaked`); what the contract holds of a token is accounted for in any case
  (`OnlyRefundsLeave`).
* `ConfigAssumption` is what `create_market` enforces, no more: a minimum
  stake may be *negative*. `MarketFactory!MarketsWellConfigured` shows that
  every market deployed satisfies it.

`Escrow.tla` is the abstract promise: stakes come in while betting is open, the
market then goes one way, to a verdict or to refunds, and each bettor is settled
at most once from what is held of some token. The refinement mapping, at the end of
`Market.tla` (`E`), takes statuses to phases and bet records to stakes and settled
flags.

### Treasury

`Treasury.tla` is `contracts/treasury/src/lib.rs`. A fee arrives either through
`deposit_fees` (counted and pulled in one call), or by a market's own transfer
(`SendFee`, no treasury code runs) that `receive_fee` may count afterwards.
`receive_fee` looks at no balance: it counts whatever amount an approved market
tells it, under whatever market id (`ReceiveFee(m, id, t, a)`), whether or not
anything was transferred; its comment only assumes so. `HoldingsAccounted` is the
equation that is left: of a token, counter and holdings differ by exactly what
was reported and what was transferred, so the counter is covered as long as no
more was reported than transferred.
`drawn` and `peak` are history variables: what was really paid out today and the
highest limit in force today; nothing reads them but the properties.

### MarketFactory

`MarketFactory.tla` is `contracts/market_factory/src/lib.rs`. A market is
reduced to its status, its code and its configuration, and `MarketMoves` is
external: it moves a status along the edges that `Market.tla` has. Market
addresses are derived from ids by the deployer, so the id stands for both.
`proposer` and `upgradedTo` are history variables. `set_dispute_window`,
`set_min_liquidity` and `update_default_config` write values that no other
function of the contract reads, and are left out. The loop of
`remove_open_market` that copies the list but for one id is `Without`. A page
is granted at most 100 entries, and `PagesCover`, of which `ListsSound` consists
in part, is about the sizes up to that. What `list_market_ids` pages is the open
list (see "Where the code and its documents part").

### Platform

`Platform.tla` puts one `Market` and one `Treasury` on one ledger, to show what
the fee transfer of `claim_winnings` looks like at the other end. Its steps are
the two modules' own; the claim and the arrival of the fee are one step.

### StellarIndexer

`StellarIndexer.tla` is `backend/src/indexer/StellarIndexer.ts`, as far as it
reads and writes state that matters to it: the markets and bets tables,
`blockchain_events` and the checkpoint. Nothing in `backend/src` starts it and
nothing calls `backfillLedgerRange`; the model is of what they do when run.

| variable | code |
|---|---|
| `markets bets eventRows checkpoint` | the tables of `db/schema.sql` |
| `pc seq to queue` | where the poller and an operator's backfill are in `processLedger`: the ledger, the last one of the loop, the events still to do |
| `last`, `from` | `lastProcessed` of `startIndexer`, `from_ledger` of the backfill |
| `chain latest` | the network: events emitted, ledgers closed |
| `swallowed` | history: ledgers in which the code logged an error and went on |

Decisions that matter:

* Every `await` is a step. At each the database or the endpoint may fail: in
  `processLedger` that ends the ledger (`LedgerFails`), in a handler the event
  (`EventFails`, with the writes undone or, if only the answer was lost, done),
  elsewhere the process (`Crash`). A transaction (`BEGIN` to `COMMIT`) is one
  step.
* The chain is external and emits what `Market.tla` allows, in its order, one
  event per transaction (the tables are keyed by `tx_hash`).
* `Watched` and `Structs` are what the indexer asks for and how a struct's data
  reaches it. The code asks for the factory and the treasury, and the contracts
  publish `BetRecord` and `ClaimReceipt`, which are maps, while
  `EVENT_FIELD_MAP` picks fields by their place in a list; a bet then has a blank
  amount and its insert fails. With these values almost nothing gets as far as
  the handlers, so the run `indexer` gives them the values that the file's header
  and its field map assume (markets watched, lists), as the tests do, to check
  the rest of the pipeline; `indexer_deployed` has the code's.
  `topics: [['*']]`, and the decoding of 128-bit amounts, are the SDK's and
  the endpoint's business and are left out.
* An answer of `getEvents` is the first `Limit` of the events found, in the
  chain's order: `Nth` enumerates them by their `Rank`.
* The stream is of the factory's events, which are `market_created` alone.
* `backfillFromLedger` fetches Horizon operations, whose types no handler knows:
  all it does is save the checkpoint, if it ends: `fetchHistoricalEvents` asks
  for the same page again and again as long as the first ledger has a transaction
  (`HistoricalEvents`), and then the poller hangs in "resume".
* An operator starts a backfill no later than the ledger after the checkpoint.
  `backfillLedgerRange` saves where it got to, so one that starts later would
  leave a gap that is never gone back to. One whose first ledger is after its
  last does nothing (the loop has no turn).

### Resolution

`Resolution.tla` is how the backend settles one market: the auto-resolution and
auto-lock jobs of every instance, and the administrators' requests that run
beside them (flag, investigate, override, resolve a dispute, cancel, bulk
changes), all on one row, its dispute and report rows, and its contract.

| variable | code |
|---|---|
| `row disputes reports` | the tables `markets`, `disputes`, `oracle_reports` |
| `cache` | `fight_result:*` and `fight_result_fallback:*` in Redis |
| `pc verdict id` | where each job or request is between its `await`s |
| `chain events spoken broadcasts` | the contract, what it emitted that is not yet indexed, and what the backend has told it |
| `age confirmed` | the clock, in the stages the jobs distinguish; the result is out |

* A transaction is sent by `invokeContract`, of which the module assumes what
  `InvokeContract` is shown to promise. One case is left out: a transaction that
  is applied only after its caller was told of an error.
* A handler that reads the row before an `await` works on what it read. The
  checks of `submitFightResult` and of the flag handler are such reads, so two
  requests may both pass them.
* `Absent`, `Null` and `Undefined` are distinct, as they are in the code:
  `cacheGet` answers `null` for a miss where the caller tests for `undefined`.
* `cancel_market` takes a whitelisted oracle or the factory's administrator. The
  job passes the oracle (`OracleCanCancel`); `AdminController` passes the
  administrator's address, signed with the oracle's key, which works only where
  the two are one account (`CanCancel`, `Authorised`). A paused contract refuses;
  that is one of the failures a transaction may meet.
* `raiseDispute` and the resolution of a dispute both send `dispute_market`.
* `db()` is the adapter that `MarketService` reads through. Nothing outside
  tests sets it, so that as deployed flag, cancel, `getMarketById`,
  `getMarketStats` and `getPortfolioByAddress` throw. The modules describe them
  with an adapter.

### InvokeContract, Invocation

`InvokeContract.tla` is `invokeContract`: load the account, build, simulate,
send, poll, and try again. `build()` takes the next number of the local account
even if nothing is sent. The network is external. `Invocation.tla` is the promise:
the operation may be applied, more than once even, until the caller has a hash;
after a hash nothing is applied. An error promises nothing.

### OracleAlerts, CronLock, OracleWhitelist

* `OracleAlerts`: the failure counter of the auto-resolution job, the check and
  the note that an alert was sent, each a call of its own. A webhook that
  answers with an HTTP error counts as sent. `incrWithExpireSha` is unused.
* `CronLock`: `SET NX EX`, the job, and the script that deletes the lock only if
  it is the run's own; `overdue` remembers runs that have outlived their TTL.
* `OracleWhitelist`: `getOracleWhitelist` over the environment and Redis, and
  its refresh. `verifyOracleReport` is used by tests alone (`POST
  /oracle/submit` is not mounted): the model is of what it does when called.

### ContractEvents, HistoricalEvents

* `ContractEvents`: one subscription with its reconnections. `opened` numbers
  the sources, `live` are those that are open. `reconnectAttempts` goes back to
  zero only with a message.
* `HistoricalEvents`: pages, retries, operations. `limit`, `order`, `cursor` and
  `to_ledger` are passed to `.call()`, which takes no arguments, so every request
  is for the first page of the ledger `fromLedger`: `FirstPage` does not depend on
  the cursor. Horizon and its SDK are external. Operations that cannot be fetched
  are passed over.

### MarketReads, RateLimit

* `MarketReads`: four cache-aside reads and the writers of the row and its bets.
  A row is known by how often it has changed, so that a stale entry is one with an
  older number. `Covers` names the keys a writer deletes: bulk changes the
  market, its statistics and the lists, but not `platform:stats`; `recordBet` all but
  the lists; a resolution that is indexed all but `platform:stats`. The indexer's
  bets, locks and cancellations, the job that locks, and `AdminController`'s
  cancellation, flag and ruling delete nothing (`ChangeOnly`). Each entry carries
  the excuse for being stale: a reader stored it late, Redis refused its
  deletion, or it was left by a writer that does not delete its key.
  `FreshUnlessLate` says that there is no other, and the TTL ends each.
* `RateLimit`: the counter per path and window. Express strips the mount point,
  so that requests of `/api/x` and `/api/admin/x` count at one key; the model
  has that.

### Accounts

`Accounts.tla` is one account and the requests in flight on it; every query is a
step. A token is remembered as what was signed: its kind and the account's
`session_version` then. Tombstones do not expire in the model (in Redis they live
as long as a token does), and only `requireAuth` of `auth.routes.ts` looks at them; the temporary
token of a sign-in with a second factor is taken to be obtainable. Two resets that overlap may
lose an update of the version (both read the same), which `ResetEndsSessions`
allows for.

### ActivityFeed, OddsStream

* `ActivityFeed`: sockets, authentication, subscriptions, and the limiter, whose
  comment (`realtime.ts:23`) says token bucket and whose code counts in fixed
  windows, so that `BurstBounded` allows just under twice the limit. Nothing calls
  the publishing function yet.
* `OddsStream`: overlapping pushes of `streamMarketOdds` and the hook that
  listens. An error of the server's is shown as 'disconnected' after it, and the
  hook never reconnects; it is unused outside tests.

### ConnectionPool

Every path that keeps a connection over several statements: exports (which wait
for `drain`), refunds (which call the chain inside their transaction, so that a
ROLLBACK does not undo what was applied), the handlers of `EventProcessor`. A
browser that leaves an export before it drains keeps its connection for ever:
`PoolRecovers` says that all others come back.

### InvoicePoller

`InvoicePoller.tla` is the process `indexer/`: its poll loop, handlers, cursor
file and health check. The file may be torn by a crash (`Torn`), which the code
takes for no cursor at all.

### The browser

* `ClientTransactions`: every form that builds, signs, sends and polls a
  transaction. The bet and claim forms also write the status in the store, so one
  may overwrite the other's. Creating a market says success whatever came of it
  (`create/page.tsx:117`), and `SuccessMeansApplied` leaves that form out.
* `WalletSession`: the store and the session storage. A restored address that
  comes after a disconnection brings the old one back (`revived`).
* `MarketPages`: `useMarkets`, `useMarket`, `usePlatformStats` over `apiFetch`.
* `Portfolio`: the portfolio and Claim All. The page passes `market_id` where a
  contract address is asked for, and a wallet that is changed meanwhile does not
  stop it; the old wallet's portfolio is then loaded again.
* `BetPages`: `load` and `loadNextPage` over pages cut by LIMIT and OFFSET. The
  page that uses the hook does not show these bets yet.
* `BetForms`: `BetForm`, and `BetPanel` with its dialog (tests alone use the
  latter). `ActionPages`: the payer's invoices, a proposal, a new one, whose rows
  are mock data but whose transactions are real. `HomeFilters`: the filters in
  the URL, the debounced search, and the list of `useMarkets`, which is asked for with the
  URL's status and page alone: `app/page.tsx:22-49` never reads the search term,
  so that what is typed reaches the URL and narrows nothing. `BetTables`: sorting, tabs and paging.
* `Quotes`: the payouts that browser and backend promise against the
  contract's. What bettors are shown is `calcPayout` (`BetForm.tsx:23-34` and its
  copy `useBet.ts:25-36`), computed in floating point and shown with four decimals:
  `Displayed` is any multiple of `Grain` within half of it of the exact
  fraction, give or take `FloatError`. So a page may promise more than is paid, by
  half of the last decimal (500 stroops) and the error. The hook
  `useProjectedPayout`, which no page uses, computes in stroops and adds the
  last live trade to the pools it was given, which may have it already; `behind`
  remembers whose pools were not the contract's. (Its socket carries no token, so
  the backend would close it; and nothing publishes trades.)

### MCParts, MCContracts

These twenty-two parts share no state. Checking them side by side would
multiply their states and show nothing more; `MCParts.tla` therefore has the
variables of all, chooses in `PartsInit` the one `part` that runs, and lets the others
stand (`Others`). Each part's behaviours are those of its own specification, and
each property of the run is the module's own (or the conjunction of those of two
or three parts, where it says so). It is a sum of small checks and not a
composition: where parts do interact in the code, the module concerned models the
other side itself (`Resolution` its cache and contract, `Portfolio` its backend).
`MCContracts.tla` does the same with the treasury and the factory, which never call each
other.

## 3. What is model-checked

| run | instance | shows |
|---|---|---|
| `market` | 3 bettors, 3 oracles, 2 tokens, 2 sides, stakes 10 and 20 (and a 0 that must be refused), 3 outcomes, fee 7%, 5 ledger times | refunds are covered while taken in kind, the first claim is payable, floored payouts never exceed the net pool, quotes are honest, Escrow is implemented, two oracles decide, verdicts are final but for a dispute |
| `market_fee` | 3 bettors on one side | **violated**: `EveryWinnerPayable` |
| `contracts` | treasury: 2 markets, 2 tokens, 3 days, limits 0, 1 and 2, a fee and a withdrawal of 1; factory: 2 admins, 2 markets, 3 bet limits, 2 fees | the books balance, the daily tally is exact, the day's cap holds under changing limits; no open market is unlisted, pages miss none, nominations |
| `factory_upgrade` | 1 admin, 2 code hashes | **violated**: `AllUpgraded` |
| `platform_fee` | 2 bettors, one market, one treasury | **violated**: `CounterTracksTransfers` |
| `indexer` | 1 market, 1 bettor, 2 sides, 4 events in 2 ledgers, answers of at most 2 events, 1 failure, 1 backfill | rows are sound, the checkpoint is honest, bet rows are stable, every event is indexed in the end |
| `indexer_deployed` | 2 events, no failure | **violated**: `EventuallyIndexed` |
| `indexer_replay` | 2 events, no failure, 1 backfill | **violated**: `PoolsOfBets` |
| `resolution` | 1 instance with both jobs, 2 requests, 2 outcomes, the primary API, 1 failure | accepted reports stand, dispute rows are backed, the row converges to the contract, overdue markets are settled |
| `auto_resolution` | the same | **violated**: `CancelledOnlyUnconfirmed` |
| `history_range` | 3 transactions in the first ledger, 1 after it, pages of 2 | **violated**: `HistoryCollected` |
| `parts` | twenty-two parts, each with its bounds below | each part's property, 12 invariants and 7 temporal ones |

**Why these bounds.** Rounding shows with stakes 10 and 20 among three bettors
at 7%: payouts are not whole. Two tokens are enough for one bettor to be settled in
another's. Two oracles suffice to decide and three to
disagree, or to have one removed after it reported. `ScheduledAt` 2,
`LockBefore` 1 give a time before the lock, the lock time itself, the deadline
and one time past it. Three days in the treasury are what pruning needs: today,
yesterday and a day to forget. Two markets are enough for one to be removed
from the middle of a change to the other. The bounds `MaxHeld` (of a
token's holdings, and of what each market transfers and what is reported for it),
`MaxTime` and `MaxMarkets` are constants of the modules and end in a guard of the action they
limit. Symmetry is over bettors, oracles, admins, markets, tokens and code
hashes, which the code only compares; no run that uses it checks liveness.

For the indexer, two ledgers give a first and a last one, and overlapping
answers; four events are a market, a bet, its cancellation and the refund, or a
market, its lock, its verdict and a dispute; three events in a ledger do not fit into one
answer of two. One failure is enough to restart the poller at any point; that
and one backfill give two replays of the same event.

For the resolution, an instance and two requests are three that may read the row
before any of them writes; a second instance would be one more of the same, and
a request may do what a job does (override reports a result). One failure ends
any of them at any `await`.

For the parts:

| part | bounds | so that |
|---|---|---|
| invocation | 2 callers, 2 attempts of the code's 3, 1 lost answer | a retry meets the other's sequence number, and an attempt taken for lost is applied |
| alerts | 2 processes, threshold 3, 1 fault | both pass the check; a process stops between alert and note |
| cron lock | 3 processes, 4 runs | a late release while a third holds the lock |
| rate limit | limits 3 and 2, window 3 | refused, and let through again |
| invoices | 1 invoice, 3 ledgers, 1 fault | a crash between rows and cursor |
| accounts | 2 requests, 2 versions, 1 token | a token used by both, a sign-in during a reset |
| market reads | 2 keys (a list, the platform's statistics), 1 reader, 1 change of the row, 1 bet, 1 refused call | a fill that an invalidation overtakes, a key a writer leaves |
| feed | 2 sockets, cap 2, windows of 2 ticks | a burst over the end of a window |
| subscription | 3 reconnections, 7 sources | giving up, and an end while a timer runs |
| transactions | 4 forms, 2 submissions | a second one after the first was given up |
| pages | 2 keys, 2 fetches, 1 move, 1 fault | an answer for the last key after the next one's |
| quotes | fees 2 and 10%, stakes 7 and 150, 2 others, a last decimal of 10 stroops, an error of 1 | floors and roundings that differ, one-sided pools, a trade counted twice |
| connections | 2 tasks, 1 connection | waiting for each other's |
| portfolio | 2 wallets, 2 markets, 2 loads | a change of wallet during Claim All |
| odds | 3 pushes, 3 bets, 1 fault | pushes that overlap |
| bet forms, actions | 2 sides, 2 stakes, 2 bets | an edit under an open dialog |
| filters, tables | 2 terms, 2 pages, 3 clicks; 5 rows | a navigation under a debounce; an empty last page |
| whitelist | 2 instances, TTL 3 | an old instance that fills the flushed cache |
| wallet session | 3 calls, 2 addresses | two connections and a restore at once |
| bet pages | pages of 1, up to 2, 5 rows, 2 calls | a bet between two pages, the same page twice |

**Deadlock** is checked in every run of the contracts. The others have none of
it: a chain at its bound, requests that have all been answered, or a page with
nothing left to click are where these systems stop.

**Fairness.**

* `StellarIndexer`: `WF(PollerRuns)`. The poll loop is a `while (true)` that
  never leaves but by ending the process, and a process that ended is started
  again. Nothing is assumed of the chain, failures or operators, nor that
  `backfillFromLedger` ends: `EventuallyIndexed` is about pollers that do not hang
  in it.
* `Resolution`: `WF(Job(i) \/ Submission(i))` for each instance: a cron schedule
  fires for as long as the process runs. Nothing is assumed of requests, of the
  result or of the indexer.
* `RateLimit`: `WF(Tick)`, time passes.
* `MarketPages`, `Portfolio`, `OddsStream`, `ConnectionPool`: WF of one
  action of progress each: a request under way is answered or gives up, a timer
  fires, a statement returns. None of them includes what a user does.
* `HomeFilters`: WF of what settles by itself (a debounce, a navigation) and of
  the poll every half minute; SF of an answer that succeeds, since requests may fail
  now and then but are made again and again.

Nothing in the contracts obliges an oracle, an admin or a bettor to
call, so no progress of theirs can be claimed from the contract's code alone.

### Where the code and its documents part

1. `market_fee`: the treasury receives the fee of the *whole* pool again with
   every claim, so after some claims the contract cannot pay the winners that
   are left (`market/src/lib.rs:511-514, 556-559`). The test at
   `market/src/tests.rs:2667` says that three winners receive payouts "summing ≤
   net_pool". `FirstClaimPayable`, which is proved, is what remains true.
2. `factory_upgrade`: `upgrade_all_markets` passes its admin on to
   `Market::upgrade`, which accepts the factory's address only; and it walks the
   open list rather than all markets. It succeeds only when there is nothing to
   do.
3. `platform_fee`: `SECURITY_AUDIT.md:138` says that `ACCUMULATED_FEES` "tracks
   what was actually transferred". Fees sent by `claim_winnings` are never
   counted, and what is not counted can be neither withdrawn nor drained.

4. `indexer_deployed`: `StellarIndexer.ts:4-6` says that it listens to the
   events of the factory, the *markets* and the treasury and persists them. The
   request names the factory and the treasury (line 258), and a market publishes
   its events itself. What it asks for is indexed; bets, locks, verdicts and
   claims are not, and no error is seen.

5. `indexer_replay`: `backfillLedgerRange` says "re-runs are safe"
   (`StellarIndexer.ts:600`). A replayed bet keeps its row but adds to the pools
   again (`:437`), so that the pools are no longer the sums of the bets
   (`PoolsOfBets`). What is left is an inequality (`PoolsCoverBets`, in
   `RowsSound`).
6. `history_range`: `fetchHistoricalEvents` says that it fetches the events "for
   a given ledger range", through all pages, in chronological order
   (`StellarService.ts:322`). Cursor and end of the range never reach the request
   (`:345-358`): the first page of the first ledger is collected again and again,
   and a first ledger without transactions ends the fetch.
7. `auto_resolution`: `OracleService.ts:418` says that the job fetches a
   market's result and submits it on a match. `fetchExternalFightResult` takes
   the `null` that `cacheGet` answers for a miss for a cached 'no result'
   (`OracleService.ts:246`), so no API is ever asked, and the job cancels
   markets whose result is confirmed.

Where a passing run's property is less than a document promises. Its comment
quotes the promise, and says what the code keeps of it:

* `RefundsCovered`, `FirstClaimPayable`: "Bets can be refunded after
  cancellation" (`docs/contracts-issues.md:380`). A bettor may stake one token
  and ask for another (`market/src/lib.rs:267, 550, 634`), so that one may be
  refunded what another staked and leave them nothing. Refunds are covered while
  all are taken in kind; a first claim if all stakes are in the token it names.
* `HoldingsAccounted`: `receive_fee` assumes that "the market has already
  transferred tokens". An approved market may report what it never sent; then the
  counter exceeds the holdings and withdrawals trap.
* `ListsSound`: `list_market_ids` "Returns a paginated list of all market IDs"
  (`market_factory/src/lib.rs:244`). It pages the open list, and a market that has
  been removed from there is on none of its pages.
* `RowsCurrent`: "Only advance cursor after: 1. Events successfully fetched from
  RPC 2. Events successfully processed 3. Cursor successfully persisted to storage"
  (`INDEXER_POLLING_RESILIENCE.md:106`). An event whose processing fails is logged
  and passed (`poller.ts:237`), and the cursor is assigned before it is saved
  (`poller.ts:116`). Events that failed are excused in the property.
* `FreshUnlessLate`: the cache "prevents stale reads by ensuring cache keys are
  properly invalidated when underlying data changes"
  (`CACHE_SERVICE_README.md:5`, likewise `:81`). Of the writers the indexer's bets,
  locks and cancellations (`StellarIndexer.ts:416, 455, 521`), the job that locks
  (`OracleService.ts:567`) and the administrators' requests
  (`AdminController.ts:107, 247, 306`) delete nothing; bulk changes and
  resolutions leave `platform:stats`, and recorded bets the lists. What they leave
  is stale until its TTL.
* `BurstBounded`: "token bucket, max 20 events/sec per market" (`realtime.ts:23`).
  The limiter counts in fixed windows (`:34`), so that up to 39 may fall within a
  second.
* `PromiseKept`: a page may show up to half of its last decimal more than is paid.
* `ListsFollowUser`: the home page has a search box, whose term is written to the
  URL and narrows no list (`app/page.tsx:22-49`).
* `RowConverges`: a bulk pause or cancellation changes rows without telling the
  contract. The row goes back to the contract's status only as its next events are
  indexed.

Not runs, but worth knowing:

* A replayed `market_locked` turns a resolved row back.
* Nothing reads `payout` or `claimed` back from the chain (the payload of
  `winnings_claimed` is blank as deployed), so the table's own Claim and
  Refund buttons, which want an unclaimed bet with a payout, are never shown.
* `claimWinnings` and `claimRefund` of the backend sign with the oracle's key; the
  contract asks for the bettor's, and refuses. They are not modelled.
* A frontend bet is sent with its arguments in another order than
  `place_bet` has them, and to `market_id` for a contract. `ClientTransactions`
  leaves it to the network whether a transaction succeeds.
* `bulkCancel` inserts notifications for all bettors at once
  (`MarketService.ts:786`) with a statement that is refused for two or more.
* `usePortfolio` counts an unclaimed refund as lost, its guard tests a
  status 'pending' that nothing sets, and any of its overlapping loads clears
  `isLoading`. An answer with an error status makes its list `undefined`.
* `MarketFilters` writes `weightClass` where the API reads `weight_class`.
* `disputes.routes` imports controllers that do not exist, `user.repository` and
  `user.service` a table that is not exported.

## 4. What is proved

All for every value of the constants within their `ASSUME`s: any finite set of
bettors, any stakes, limits, fees up to 10% and times.

* `SumTheorems.tla`: sums of integer functions over finite sets
  (`SumFunctionOnSet`): `SumUpdate` (change one point, the sum changes by as
  much), `SumScaled` (termwise bounds carry over to sums), and their lemmas.
  The fold is unfolded through a recursive function over the set's elements;
  the other proof modules only cite the results.
* `MarketProofs.tla`: `IInv` is inductive, and from it `TypeOK`,
  `PoolsMatchBets`, `RefundsCovered`, `FirstClaimPayable`,
  `PayoutsWithinNetPool`, `ResolvedInWindow`, `PaidAtMostOnce`, `OutcomeFinal`,
  `TwoOraclesDecide`, `ReportsStand`, `EstimateIsHonest`, and
  `MarketImplementsEscrow`.
* `TreasuryProofs.tla`: `IInv` is inductive, and from it `HoldingsAccounted`,
  `DailyExact`, `DayCapped` and `DailyMapSmall`.
* `MarketFactoryProofs.tla`: `MarketsWellConfigured`, `NominationIsCurrent` and
  `ListsSound`, for any number of markets.
* `StellarIndexerProofs.tla`: `RowsSound`, `BetRowsStable` and
  `CheckpointHonest`, for any events, ledgers, faults and backfills and any
  limit on an answer.
* `ResolutionProofs.tla`: `AcceptedReportsStand`, `DisputeRowsBacked` and
  `RowConverges`, for any number of instances, requests and failures.
* `BackendProofs.tla`, of the parts that `MCParts` runs:
  `InvokeContractImplementsInvocation`, `AlertsBounded`, `AloneWithinTTL`,
  `RemovedOracleRefused`, `ResetEndsSessions`, `FreshUnlessLate`,
  `BurstBounded` and `RowsCurrent`.
* `BrowserProofs.tla`, likewise: `SilentOnceUnsubscribed`,
  `SuccessMeansApplied`, `PromiseKept`, `SentAsConfirmed`, `ShownIsUsed`, and the
  safety in `ListsFollowUser` (`NoBetEverSkipped`, `PageAlwaysInRange`).

Some theorems assume more of a constant than its module does, because the
module needs nothing of it to be run; each says so in its statement:

| theorem | assumes |
|---|---|
| `InvokeContractImplementsInvocation` | at least one attempt |
| `AlwaysAlertsBounded` | finitely many processes |
| `AlwaysRemovedOracleRefused` | a time to live of at least one tick |
| `AlwaysFreshUnlessLate` | only keys that `MarketService` uses |
| `AlwaysBurstBounded` | a window of at least one tick, a limit of at least one event, a bound on the clock |
| `AlwaysRowsCurrent`, `AlwaysSilentOnceUnsubscribed`, `AlwaysShownIsUsed` | that a bound is a number (of calls: at least one) |
| `NoBetEverSkipped` | a wallet to begin with, a page size that is a number |
| `PageAlwaysInRange` | pages of at least one row |
| `AlwaysPromiseKept` | fees between nothing and the whole, positive stakes, a last decimal of at least a stroop, an error of floating point that is a natural number of stroops |

`TypeOK`, `PoolsMatchBets`, `PaidAtMostOnce`, `ResolvedInWindow`, `ReportsStand`,
`DailyMapSmall` and `MarketsWellConfigured` are proved, and no run repeats them.

**The market's argument.** `RefundsCovered` alone is not inductive: a
cancellation needs to know that *before* it nothing had left the contract but
whole stakes (`NoVerdictMoney`): of each token, what is held and what was
settled in it is what was staked in it (`OnlyRefundsLeave`), for which nobody may
have claimed while the market was open or locked. That equation survives refunds
taken in any token; while they are all in kind, it leaves of each token the sum of
its stakes that are not refunded (`TokensOnRecord` says that a stake has a token).
`PaidAtMostOnce` needs that whoever was
paid is marked claimed. `ResolvedInWindow` needs that a locked market was locked
after the threshold. `FirstClaimPayable` needs that until somebody claims the
whole pool is still there, in the one token if all stakes are in one
(`AllStaked`), and then that a stake is at most its side's pool, so
that its floored payout is at most the net pool. `PayoutsWithinNetPool` is
`SumScaled`: each payout times the winning pool is at most the stake times the
net pool.

**The treasury's argument.** `HoldingsAccounted` is inductive: each call adds to
one side of its equation what it adds to the other. It assumes nothing of what
markets report. `DayCapped` needs that the recorded tally is the
real one (`DailyExact`), and that the limit in force is at most the day's
highest. `DailyExact` on a new day needs that no entry of a *future* day exists;
`RecentDays` says that the recorded days are some past day and its predecessor,
which is also why the map has at most two entries.

**The factory's argument.** `ListsInv` adds to `ListsSound` that the list is no
longer than there are markets, and these no more than `MaxMarkets`, so that as
many pages reach its end. What the loop of `remove_open_market` copies
(`Without`, a recursive function as the loop is) is the list but for the id
(`CopyIs`), and the first k pages put end to end are the list up to the end of
the k-th (`OnePageMore`, `PagesJoin`). Both are inductions over positions, done
with `NatSetInduction`, which is about a *set* of numbers; the library's
induction theorems take an operator and cannot be used.

**The indexer's argument** (`IInv`). Of the chain: events are numbered in order
and their ledgers only go up. Of the tables: a bet's row has a row for its
market, and the market's pool of a side covers the bets on record for it
(`SumUpdate` again, with `SumUnion` and `SumSubset` where a bet is new). Of each
of the two workers: every ledger before the one it is at has settled, and of its
own ledger each event has settled or is still in the queue it works off, on
record already if it is being handled. Then a checkpoint is saved only when
nothing of its ledger is left. That a fetched answer misses none of the events of
an uncrowded ledger is a lemma about ranks (`AnswerComplete`): what is found from
a ledger on is in order, so its own events come first. What has settled stays so,
through crashes, replays and backfills.

**The settlement's argument.** `ReportInv`: the contract takes one report from
the oracle's key, so that at most one worker ever goes on to accept its row, and
then no row has been accepted before; the row it accepts is the one it inserted,
with the outcome it sent. `DisputeInv`: the requests that have yet to insert
their row are counted with the rows, and one transaction is over while a
dispute is being closed. `RowInv`: as long as nobody has sent a dispute, a decided
contract's last event that is not indexed, or else the row, says what was
decided; and whoever would still write to the row would write just that.

**The backend's parts.** `InvokeContract`: a call has sent no more
transactions than it has made attempts (`AttemptsCounted`), and only its last
may be pending (`OnlyLastPending`), because the network holds one transaction of
the account at a time. So settling one applies one operation at most, within the
attempts, and a call that was told a hash, whose last transaction has succeeded
(`HashIsLast`), has none left to apply. `CronLock`: identifiers are given out
once, so that a run within its TTL is the one the lock names, and a release
deletes no other's. `OracleWhitelist`: an old list in Redis was stored by an
instance that still had it, so that its age counts from before the last of them
was gone (`OldExpires`). `OracleAlerts`: a process that has decided to post has
its place in the bound (`PostingCounted`), and before the note is stored whoever
posted is about to store it. `Accounts`: what a reset was to end has its
tombstone. `MarketReads`: an entry that is out of date carries its
excuse (stored late, refused, or left by a writer that does not delete its key) or
is still in the plan of a writer that does (`StaleIsPending`). `ActivityFeed`: the counter's entry
counts what was sent since its window began, and up to there the stretch
before it carried less than the limit (`EntryCounts`), so a stretch that
straddles two windows carries less than two limits. `InvoicePoller`: wherever the
process stands, or would stand after a restart (`StandsAt`), the table says what
the ledgers up to there made of it (`Told`).

**The browser's parts.** `ContractEvents`: one source is open, or one timer
runs, or the subscription gave up (`OneSource`). `WalletSession`: shown and stored
address are the same or a call that is about to write the one it has is under
way. `BetForms`: under an open dialog nothing is edited. `ClientTransactions`,
`ActionPages`: a status is about a transaction of its own form, moves only
forward, and a form that is not busy has none under way. `Quotes`: the contract's
two floored divisions differ from the exact fraction by less than two stroops, and
from the hook's one floored division by at most one, by arithmetic alone (the
divisions are compared by their quotients and remainders, since the provers do
not divide by variables); what a page displays is within `MostOff` of the
fraction, so that the two bounds add up. `BetPages`: what a
list lacks of the bets there were when it was begun lies past its last page
(`Gapless`), of the list shown, of every list that a call under way will follow,
and of the one it will make once it is answered; a bet that comes in pushes
others towards the end, never to the front (`InsertPushes`), and a page holds
whatever lay past the one before and does not lie past it (`PageTakes`).
`BetTables`: a history that loads will begin at its first page.

In both modules a step of `MCParts` is a step of one part and leaves the others
as they are (`OneAtATime`), so that each part's invariant is proved from its own
specification.

### Only model-checked

The liveness properties: `EventuallyIndexed`, `OverdueSettles`,
`BlockedClientRecovers`, `PagesCatchUp`, `PoolRecovers`, `ClaimAllTriesAll`,
`OddsSettle`, and of `ListsFollowUser` that box, URL and list settle. What it says
of every state (`NoBetEverSkipped`, `PageAlwaysInRange`) is proved.

Out of the prover's reach altogether, and left to TLC: liveness under fairness,
`ENABLED`, and modules that declare RECURSIVE operators. The library's
induction theorems take an operator and cannot be used either; where a proof
needs an induction (sums, the factory's pages and its copying loop), it is one
over a set of numbers (`NatSetInduction`), about a recursive function.

## 5. Assumptions and what is left out

* **Signatures and authority.** A report's Ed25519 signature is taken to verify
  exactly when the whitelisted oracle made it. Caller checks are guards.
* **Tokens.** A token does what a transfer says or refuses it whole. A market's
  balances are moved by the market alone: what somebody sends it for nothing only
  adds to them. One that does something else (takes a cut, calls back) is not
  modelled.
* **Floating point.** `calcPayout` is taken to be out by at most `FloatError`
  stroops; the theorem holds for any such bound.
* **Tombstones** of sessions do not expire (`Accounts`).
* **Arithmetic.** `i128` overflow is not modelled: amounts are integers.
* **Storage TTLs** and the replacement of a market's own code by a single
  `upgrade` are left out.
* **The match id in a report** is never compared with the market's fight by the
  code, and is left out; it is among the hazards.
* **Cryptography**: password hashes, TOTP, token signatures are taken to verify
  exactly when made from the right secret.
* **Queries**: filters and sort orders of the list queries, validation schemas
  and formatting are left out; no property is about them.
* **Two bets of one bettor** never have the same `placed_at` (`BetPages`): an
  account has one transaction in a ledger.

Not modelled, and why: e-mail and metrics (output that nothing reads);
`share.repository`, `user.repository`, `EventProcessor` but for its connections,
`useProjectedPayout` but for the figure it computes (unused code); `disputes.routes`
(controllers that do not exist); `readContractState` (a simulation, without
state); `amm.rs` (called by no contract); verification of e-mail addresses;
components that only render; the unmounted routers of `index.ts`, which mounts
authentication, markets, claims and bets, and administration alone.

## 6. Plan

Done, in this order: 1 Market, its proofs and refinement; 2 Treasury and its
proofs; 3 MarketFactory with its proofs, and Platform; 4 StellarIndexer;
5 Resolution; 6 InvokeContract with its refinement, and the other services; 7 the
invoice indexer; 8 the browser; 9 the proofs about the factory's lists, the indexer, the settlement,
and the parts of the backend and the browser.

What would be worth adding: `Resolution` over `InvokeContract` itself, with
transactions that are applied after their caller was told of an error; two
markets under one oracle key in `Resolution`; e-mail verification in `Accounts`.
